----------------------------- MODULE BootProofs -----------------------------
(***************************************************************************)
(* For files of every length: firmware and kernel do not overlap, the stub *)
(* hands over to the firmware, and the tree that a reader of the format    *)
(* finds is closed, is what the calls of riscv_build_fdt mean, and         *)
(* describes the machine that was built.                                   *)
(***************************************************************************)
EXTENDS BootChecks, FiniteSetTheorems, NaturalsInduction, TLAPS

\* Where the kernel lies follows from the two lengths in every state; before the
\* kernel is read its length is that of an empty file.
KernelPlaced ==
  /\ firmware_len \in Nat /\ kernel_len \in Nat
  /\ kernel_base = KernelBase(firmware_len, kernel_len)
  /\ phase \in {"firmware", "kernel"} => kernel_len = 0

\* What the stub has done when it is at one of its words.
AtWord(i) ==
  /\ pc = Word(1, 4 * i)
  /\ i >= 1 => t0 = RamStart
  /\ i = 2 => a1 = Word(1, 4)
  /\ i >= 3 => a1 = Split(fdt_addr)
  /\ i >= 4 => a0 = Split(0)

HandedOver == pc = RamStart /\ a0 = Split(0) /\ a1 = Split(fdt_addr)

StubInv ==
  phase = "stub" => /\ stub = write_bootloader
                    /\ HandedOver \/ \E i \in 0 .. 4 : AtWord(i)

-----------------------------------------------------------------------------
\* Rounding up to a multiple of kernel_align gives one that is not less.
LEMMA RoundedUp ==
  ASSUME NEW f \in Nat, NEW k \in Nat
  PROVE  /\ KernelBase(f, k) \in Nat
         /\ KernelBase(f, k) % kernel_align = 0
         /\ k # 0 => KernelBase(f, k) >= f
  BY DEF KernelBase, kernel_align, Page

\* The kernel's place is set with its length and never again.
LEMMA PlacedStep == KernelPlaced /\ [BootNext]_bootVars => KernelPlaced'
<1> SUFFICES ASSUME KernelPlaced, [BootNext]_bootVars PROVE KernelPlaced'
  OBVIOUS
<1> USE SizesAssumption DEF KernelPlaced
<1>1. CASE FileMissing
  BY <1>1 DEF FileMissing, placed
<1>2. CASE LoadFirmware
  BY <1>2 DEF LoadFirmware, KernelBase
<1>3. CASE LoadKernel
  BY <1>3 DEF LoadKernel
<1>4. CASE MakeCall \/ OutputTree \/ WriteTreeFile \/ StubInstruction
  BY <1>4 DEF MakeCall, OutputTree, WriteTreeFile, StubInstruction, InStub, placed
<1>5. CASE UNCHANGED bootVars
  BY <1>5 DEF bootVars, placed
<1> QED
  BY <1>1, <1>2, <1>3, <1>4, <1>5 DEF BootNext

\* load_bios_and_kernel places the kernel past the firmware and on a superpage,
\* whatever the lengths of the two files are.
THEOREM KernelPastFirmware == BootSpec => []ImagesLieApart
<1>1. BootInit => KernelPlaced
  BY DEF BootInit, KernelPlaced, KernelBase
<1>2. KernelPlaced => ImagesLieApart
  BY RoundedUp DEF KernelPlaced, ImagesLieApart, Apart
<1> QED
  BY <1>1, <1>2, PlacedStep, PTL DEF BootSpec

-----------------------------------------------------------------------------
\* The sums of addresses that the stub's instructions make.
LEMMA StubSums ==
  /\ \A i \in 0 .. 4 : Plus(Word(1, 4 * i), Split(WORD_SIZE)) = Word(1, 4 * (i + 1))
  /\ Plus(Word(1, 0), Word(Highs \div 2 - 1, 0)) = RamStart
  /\ Plus(Word(1, 4), Word(0, 0)) = Word(1, 4)
  /\ Plus(Word(1, 4), SignExtended((fdt_addr - 4) % 4096)) = Split(fdt_addr)
<1> USE DEF Plus, Word, Split, Highs
<1>1. ASSUME NEW i \in 0 .. 4
      PROVE  Plus(Word(1, 4 * i), Split(WORD_SIZE)) = Word(1, 4 * (i + 1))
  BY SMT DEF WORD_SIZE
<1>2. Plus(Word(1, 0), Word(Highs \div 2 - 1, 0)) = RamStart
  BY SMT DEF RamStart
<1>3. Plus(Word(1, 4), Word(0, 0)) = Word(1, 4)
  BY SMT
<1>4. Plus(Word(1, 4), SignExtended((fdt_addr - 4) % 4096)) = Split(fdt_addr)
  BY SMT DEF SignExtended, fdt_addr, BOOTLOADER_ADDRESS, Page
<1> QED
  BY <1>1, <1>2, <1>3, <1>4

\* The instruction at each of the stub's words.
LEMMA StubWords ==
  ASSUME stub = write_bootloader, NEW i \in 0 .. 4, pc = Word(1, 4 * i)
  PROVE  Fetched = << auipc("t0", Highs \div 2 - 1), auipc("a1", 0),
                      addi("a1", (fdt_addr - 4) % 4096), csrr_mhartid("a0"), jr_t0 >>[i + 1]
<1>1. (Page(pc.high) + pc.low - BOOTLOADER_ADDRESS) \div WORD_SIZE + 1 = i + 1
  BY SMT DEF Page, Word, BOOTLOADER_ADDRESS, WORD_SIZE
<1> QED
  BY <1>1 DEF Fetched, write_bootloader

\* One instruction of the stub, from each of its words.
LEMMA StubStep ==
  ASSUME phase = "stub", stub = write_bootloader, NEW i \in 0 .. 4, AtWord(i), StubInstruction
  PROVE  (HandedOver \/ \E j \in 0 .. 4 : AtWord(j))'
<1>1. /\ pc = Word(1, 4 * i)
      /\ Fetched = << auipc("t0", Highs \div 2 - 1), auipc("a1", 0),
                      addi("a1", (fdt_addr - 4) % 4096), csrr_mhartid("a0"), jr_t0 >>[i + 1]
  BY StubWords DEF AtWord
<1>2. CASE i = 0
  <2>1. Fetched = auipc("t0", Highs \div 2 - 1)
    BY <1>1, <1>2
  <2>2. Result = RamStart
    BY <1>1, <1>2, <2>1, StubSums DEF Result, auipc
  <2>3. AtWord(1)'
    BY <1>1, <1>2, <2>1, <2>2, StubSums DEF AtWord, StubInstruction, auipc
  <2> QED
    BY <2>3
<1>3. CASE i = 1
  <2>1. Fetched = auipc("a1", 0)
    BY <1>1, <1>3
  <2>2. Result = Word(1, 4)
    BY <1>1, <1>3, <2>1, StubSums DEF Result, auipc
  <2>3. AtWord(2)'
    BY <1>1, <1>3, <2>1, <2>2, StubSums DEF AtWord, StubInstruction, auipc
  <2> QED
    BY <2>3
<1>4. CASE i = 2
  <2>1. Fetched = addi("a1", (fdt_addr - 4) % 4096)
    BY <1>1, <1>4
  <2>2. Result = Split(fdt_addr)
    BY <1>4, <2>1, StubSums DEF Result, addi, AtWord
  <2>3. Split(fdt_addr)' = Split(fdt_addr)
    BY DEF Split, Word, fdt_addr, BOOTLOADER_ADDRESS, Page
  <2>4. AtWord(3)'
    BY <1>1, <1>4, <2>1, <2>2, <2>3, StubSums DEF AtWord, StubInstruction, addi
  <2> QED
    BY <2>4
<1>5. CASE i = 3
  <2>1. Fetched = csrr_mhartid("a0")
    BY <1>1, <1>5
  <2>2. Result = Split(0)
    BY <2>1 DEF Result, csrr_mhartid
  <2>3. AtWord(4)'
    BY <1>1, <1>5, <2>1, <2>2, StubSums DEF AtWord, StubInstruction, csrr_mhartid
  <2> QED
    BY <2>3
<1>6. CASE i = 4
  <2>1. Fetched = jr_t0
    BY <1>1, <1>6
  <2>2. HandedOver'
    BY <1>6, <2>1 DEF AtWord, HandedOver, StubInstruction, jr_t0
  <2> QED
    BY <2>2
<1> QED
  BY <1>2, <1>3, <1>4, <1>5, <1>6

\* The stub is written when it is entered and runs from word to word.
LEMMA StubInvStep == StubInv /\ [BootNext]_bootVars => StubInv'
<1> SUFFICES ASSUME StubInv, [BootNext]_bootVars PROVE StubInv'
  OBVIOUS
<1>1. CASE FileMissing \/ LoadFirmware \/ LoadKernel \/ MakeCall \/ OutputTree
  BY <1>1 DEF FileMissing, LoadFirmware, LoadKernel, MakeCall, OutputTree, StubInv
<1>2. CASE WriteTreeFile
  <2>1. phase' = "stub" => stub' = write_bootloader' /\ AtWord(0)'
    BY <1>2 DEF WriteTreeFile, AtWord, write_bootloader, fdt_addr, auipc, addi, csrr_mhartid,
                jr_t0, Split, Word, BOOTLOADER_ADDRESS, Page, Highs
  <2> QED
    BY <2>1 DEF StubInv
<1>3. CASE StubInstruction
  <2>1. phase = "stub" /\ phase' = "stub" /\ stub' = stub
    BY <1>3 DEF StubInstruction, InStub, built
  <2>2. write_bootloader' = write_bootloader
    BY DEF write_bootloader, fdt_addr, auipc, addi, csrr_mhartid, jr_t0
  <2>3. ~HandedOver
    BY <1>3 DEF StubInstruction, InStub, HandedOver, RamStart, Word, Highs
  <2>4. PICK i \in 0 .. 4 : AtWord(i)
    BY <2>1, <2>3 DEF StubInv
  <2>5. (HandedOver \/ \E j \in 0 .. 4 : AtWord(j))'
    BY <1>3, <2>1, <2>4, StubStep DEF StubInv
  <2> QED
    BY <2>1, <2>2, <2>5 DEF StubInv
<1>4. CASE UNCHANGED bootVars
  BY <1>4 DEF bootVars, built, regs, StubInv, AtWord, HandedOver, write_bootloader
<1> QED
  BY <1>1, <1>2, <1>3, <1>4 DEF BootNext

\* The five words of write_bootloader enter the firmware with its arguments and
\* nowhere else on the way.
THEOREM StubEntersFirmware == BootSpec => []StubHandsOver
<1>1. BootInit => StubInv
  BY DEF BootInit, StubInv
<1>2. StubInv => StubHandsOver
  <2> SUFFICES ASSUME StubInv, phase = "stub" PROVE StubHandsOver
    BY DEF StubHandsOver
  <2>1. Len(stub) = 5
    BY DEF StubInv, write_bootloader
  <2>2. CASE HandedOver
    BY <2>2 DEF HandedOver, StubHandsOver
  <2>3. ASSUME NEW i \in 0 .. 4, AtWord(i) PROVE StubHandsOver
    BY <2>1, <2>3 DEF AtWord, StubHandsOver, Word, WORD_SIZE
  <2> QED
    BY <2>2, <2>3 DEF StubInv
<1> QED
  BY <1>1, <1>2, StubInvStep, PTL DEF BootSpec

-----------------------------------------------------------------------------
\* A cell of the tree that riscv_build_fdt builds, an entry of its string table.
Cell == (Seq(Texts) \cup {NumberCell, RamCell}) \X Int

StringEntry == [text : Texts, pos : Nat]

\* FDTState.
Builder ==
  [tab : Seq(Cell), tab_size : Int, open_node_count : Int, string_table : Seq(StringEntry),
   string_table_len : Nat, string_table_size : Int]

\* No text is in the string table twice, and no two start at one position.
StringsApart(st) ==
  /\ \A i \in DOMAIN st.string_table : st.string_table[i].pos < st.string_table_len
  /\ \A i, j \in DOMAIN st.string_table :
       \/ st.string_table[i].text = st.string_table[j].text
       \/ st.string_table[i].pos = st.string_table[j].pos
       => i = j

\* The bytes of no text, of one and of two.
LEMMA TextBytesOf ==
  ASSUME NEW texts \in Seq(Texts), Len(texts) <= 2
  PROVE  /\ Len(texts) = 0 => TextBytes(texts) = 0
         /\ Len(texts) = 1 => TextBytes(texts) = Len(texts[1]) + 1
         /\ Len(texts) = 2 => TextBytes(texts) = Len(texts[1]) + 1 + Len(texts[2]) + 1
<1> DEFINE upto == CHOOSE f : f = [n \in Nat |-> IF n = 0 THEN 0 ELSE f[n - 1] + Len(texts[n]) + 1]
<1>1. TextBytes(texts) = upto[Len(texts)]
  BY DEF TextBytes
<1>2. NatInductiveDefHypothesis(upto, 0, LAMBDA v, n : v + Len(texts[n]) + 1)
  BY DEF NatInductiveDefHypothesis
<1> HIDE DEF upto
<1>3. NatInductiveDefConclusion(upto, 0, LAMBDA v, n : v + Len(texts[n]) + 1)
  BY <1>2, NatInductiveDef
<1>4. upto = [n \in Nat |-> IF n = 0 THEN 0 ELSE upto[n - 1] + Len(texts[n]) + 1]
  BY <1>3 DEF NatInductiveDefConclusion
<1>5. upto[0] = 0 /\ upto[1] = upto[0] + Len(texts[1]) + 1 /\ upto[2] = upto[1] + Len(texts[2]) + 1
  BY <1>4
<1>6. \A i \in 1 .. Len(texts) : Len(texts[i]) \in Nat
  <2>1. \A i \in 1 .. Len(texts) : texts[i] \in Texts
    OBVIOUS
  <2> QED
    BY <2>1, TextsAssumption DEF MaxText
<1>7. CASE Len(texts) = 0
  BY <1>1, <1>5, <1>7
<1>8. CASE Len(texts) = 1
  <2> DEFINE l == Len(texts[1])
  <2>1. l \in Nat
    BY <1>6, <1>8
  <2>2. upto[1] = upto[0] + l + 1 /\ TextBytes(texts) = upto[1]
    BY <1>1, <1>5, <1>8
  <2> HIDE DEF l
  <2>3. TextBytes(texts) = l + 1
    BY <2>1, <2>2, <1>5
  <2> QED
    BY <2>3, <1>8 DEF l
<1>9. CASE Len(texts) = 2
  <2> DEFINE l == Len(texts[1])
             m == Len(texts[2])
  <2>1. l \in Nat /\ m \in Nat
    BY <1>6, <1>9
  <2>2. upto[1] = upto[0] + l + 1 /\ upto[2] = upto[1] + m + 1 /\ TextBytes(texts) = upto[2]
    BY <1>1, <1>5, <1>9
  <2> HIDE DEF l, m
  <2>3. TextBytes(texts) = l + 1 + m + 1
    BY <2>1, <2>2, <1>5
  <2> QED
    BY <2>3, <1>9 DEF l, m
<1> QED
  BY <1>7, <1>8, <1>9

\* The cells of texts.
LEMMA TextCellsOf ==
  ASSUME NEW texts \in Seq(Texts), Len(texts) <= 2
  PROVE  /\ TextBytes(texts) \in 0 .. 2 * (MaxText + 1)
         /\ TextCells(texts) \in Seq(Cell)
         /\ Len(TextCells(texts)) = CellsFor(TextBytes(texts))
         /\ CellsFor(TextBytes(texts)) \in 0 .. 32
         /\ Len(texts) = 1 => CellsFor(TextBytes(texts)) >= 1 /\ TextCells(texts)[1] = <<texts, 1>>
<1>1. \A i \in 1 .. Len(texts) : Len(texts[i]) \in 0 .. MaxText
  <2>1. \A i \in 1 .. Len(texts) : texts[i] \in Texts
    OBVIOUS
  <2> QED
    BY <2>1, TextsAssumption
<1>2. TextBytes(texts) \in 0 .. 2 * (MaxText + 1) /\ (Len(texts) = 1 => TextBytes(texts) >= 1)
  <2> DEFINE bytes == TextBytes(texts)
             l == Len(texts[1])
             m == Len(texts[2])
  <2>1. /\ Len(texts) = 0 => bytes = 0
        /\ Len(texts) = 1 => bytes = l + 1
        /\ Len(texts) = 2 => bytes = l + 1 + m + 1
    BY TextBytesOf
  <2>2. /\ Len(texts) \in {0, 1, 2}
        /\ Len(texts) >= 1 => l \in 0 .. 63
        /\ Len(texts) >= 2 => m \in 0 .. 63
    <3>0. Len(texts) \in Nat
      OBVIOUS
    <3>1. Len(texts) \in {0, 1, 2}
      <4> DEFINE k == Len(texts)
      <4>1. k \in Nat /\ k <= 2
        BY <3>0
      <4> HIDE DEF k
      <4>2. k \in {0, 1, 2}
        BY <4>1
      <4> QED
        BY <4>2 DEF k
    <3>2. Len(texts) >= 1 => 1 \in 1 .. Len(texts)
      BY <3>1
    <3>3. Len(texts) >= 2 => 2 \in 1 .. Len(texts)
      BY <3>1
    <3>4. 0 .. MaxText = 0 .. 63
      BY DEF MaxText
    <3> QED
      BY <1>1, <3>1, <3>2, <3>3, <3>4
  <2> DEFINE k == Len(texts)
  <2> HIDE DEF bytes, l, m, k
  <2>3. bytes \in 0 .. 128 /\ (k = 1 => bytes >= 1)
    <3>1. k \in {0, 1, 2}
      BY <2>2 DEF k
    <3>2. CASE k = 0
      BY <2>1, <3>2 DEF k
    <3>3. CASE k = 1
      <4>1. bytes = l + 1 /\ l \in 0 .. 63
        BY <2>1, <2>2, <3>3 DEF k
      <4> QED
        BY <4>1, <3>3
    <3>4. CASE k = 2
      <4>1. bytes = l + 1 + m + 1 /\ l \in 0 .. 63 /\ m \in 0 .. 63
        BY <2>1, <2>2, <3>4 DEF k
      <4> QED
        BY <4>1, <3>4
    <3> QED
      BY <3>1, <3>2, <3>3, <3>4
  <2> QED
    BY <2>3 DEF bytes, k, MaxText
<1> DEFINE n == CellsFor(TextBytes(texts))
<1>3. n \in 0 .. 32 /\ (Len(texts) = 1 => n >= 1)
  <2> DEFINE bytes == TextBytes(texts)
  <2>1. bytes \in 0 .. 128 /\ (Len(texts) = 1 => bytes >= 1) /\ n = (bytes + 3) \div 4
    BY <1>2 DEF CellsFor, WORD_SIZE, MaxText
  <2> HIDE DEF bytes, n
  <2> QED
    BY <2>1
<1>4. \A i \in 1 .. n : <<texts, i>> \in Cell
  BY <1>3 DEF Cell
<1> HIDE DEF n
<1>5. TextCells(texts) = [i \in 1 .. n |-> <<texts, i>>]
  BY DEF TextCells, n
<1>6. TextCells(texts) \in Seq(Cell) /\ Len(TextCells(texts)) = n
  BY <1>3, <1>4, <1>5
<1>7. n >= 1 => TextCells(texts)[1] = <<texts, 1>>
  BY <1>3, <1>5
<1> QED
  BY <1>2, <1>3, <1>6, <1>7 DEF n

\* realloc leaves room for what is to come.
LEMMA GrownEnough ==
  ASSUME NEW size \in Int, NEW len \in Int
  PROVE  Grown(size, len) \in Int /\ Grown(size, len) >= len
<1>1. CASE len <= size
  BY <1>1 DEF Grown
<1>2. CASE ~(len <= size)
  <2> DEFINE more == (size * 3) \div 2
  <2>1. more \in Int
    OBVIOUS
  <2> HIDE DEF more
  <2>2. \E x \in {len, more} : \A y \in {len, more} : x >= y
    BY <2>1
  <2>3. Max({len, more}) \in {len, more} /\ Max({len, more}) >= len
    BY <2>1, <2>2 DEF Max
  <2>4. Grown(size, len) = Max({len, more})
    BY <1>2 DEF Grown, more
  <2> QED
    BY <2>1, <2>3, <2>4
<1> QED
  BY <1>1, <1>2

\* fdt_put_data adds cells and changes nothing else but the room.
LEMMA PutData ==
  ASSUME NEW st \in Builder, NEW cells \in Seq(Cell)
  PROVE  LET after == fdt_put_data(st, cells)
         IN  /\ after \in Builder
             /\ after.tab = st.tab \o cells
             /\ Len(after.tab) <= after.tab_size
             /\ after.open_node_count = st.open_node_count
             /\ after.string_table = st.string_table
             /\ after.string_table_len = st.string_table_len
             /\ after.string_table_size = st.string_table_size
<1> DEFINE size == Grown(st.tab_size, Len(st.tab) + Len(cells))
           tab == st.tab \o cells
<1>1. st.tab \in Seq(Cell) /\ st.tab_size \in Int
  BY DEF Builder
<1>2. size \in Int /\ size >= Len(st.tab) + Len(cells)
  <2> DEFINE len == Len(st.tab) + Len(cells)
  <2>1. len \in Int
    BY <1>1
  <2> HIDE DEF len
  <2>2. Grown(st.tab_size, len) \in Int /\ Grown(st.tab_size, len) >= len
    BY <1>1, <2>1, GrownEnough
  <2> QED
    BY <2>2 DEF len
<1>3. tab \in Seq(Cell) /\ Len(tab) = Len(st.tab) + Len(cells)
  BY <1>1
<1>4. fdt_put_data(st, cells) = [st EXCEPT !.tab_size = size, !.tab = tab]
  BY DEF fdt_put_data, Builder
<1> HIDE DEF size, tab
<1>5. fdt_put_data(st, cells) \in Builder
  BY <1>2, <1>3, <1>4 DEF Builder
<1> QED
  BY <1>2, <1>3, <1>4, <1>5 DEF Builder, tab

\* One cell.
LEMMA PutOne ==
  ASSUME NEW st \in Builder, NEW n \in Int
  PROVE  LET after == fdt_put32(st, n)
         IN  /\ after \in Builder
             /\ after.tab = st.tab \o <<Number(n)>>
             /\ Len(after.tab) <= after.tab_size
             /\ after.open_node_count = st.open_node_count
             /\ after.string_table = st.string_table
             /\ after.string_table_len = st.string_table_len
             /\ after.string_table_size = st.string_table_size
<1>1. Number(n) \in Cell
  BY DEF Number, Cell
<1>2. <<Number(n)>> \in Seq(Cell)
  BY <1>1
<1> QED
  BY <1>2, PutData DEF fdt_put32

-----------------------------------------------------------------------------
\* The names and the texts that are written out.
LEMMA PlainTextsAreTexts == PlainTexts \subseteq Texts
BY DEF Texts

\* After a name is looked for it is in the string table once, the reader finds
\* it at its offset, and every other text is where it was.
LEMMA StringKept ==
  ASSUME NEW st \in Builder, StringsApart(st), st.string_table_len <= st.string_table_size,
         NEW name \in Texts
  PROVE  LET after  == WithString(st, name)
             offset == fdt_get_string_offset(st, name)
         IN  /\ after \in Builder
             /\ StringsApart(after)
             /\ after.tab = st.tab /\ after.tab_size = st.tab_size
             /\ after.open_node_count = st.open_node_count
             /\ after.string_table_len <= after.string_table_size
             /\ after.string_table_len \in st.string_table_len .. st.string_table_len + MaxText + 1
             /\ offset \in Nat
             /\ StringAt(after.string_table, offset) = name
             /\ \A o : StringAt(st.string_table, o) \in Texts =>
                       StringAt(after.string_table, o) = StringAt(st.string_table, o)
<1> DEFINE strings == st.string_table
           len == st.string_table_len
           size == st.string_table_size
           after == WithString(st, name)
           offset == fdt_get_string_offset(st, name)
<1>1. /\ strings \in Seq(StringEntry) /\ len \in Nat /\ size \in Int
      /\ \A i \in DOMAIN strings : strings[i] \in StringEntry /\ strings[i].pos < len
      /\ \A i, j \in DOMAIN strings :
           strings[i].text = strings[j].text \/ strings[i].pos = strings[j].pos => i = j
  BY DEF Builder, StringsApart
<1>2. Known(st, name) = {entry \in {strings[i] : i \in DOMAIN strings} : entry.text = name}
  BY DEF Known, ToSet
<1>3. CASE \E i \in DOMAIN strings : strings[i].text = name
  <2>1. PICK i \in DOMAIN strings : strings[i].text = name
    BY <1>3
  <2>2. Known(st, name) = {strings[i]}
    BY <1>1, <1>2, <2>1
  <2>3. after = st
    BY <2>2 DEF WithString
  <2>4. offset = strings[i].pos
    <3> DEFINE p == strings[i].pos
    <3>1. {entry.pos : entry \in Known(st, name)} = {p}
      BY <2>2
    <3>2. p \in Nat
      BY <1>1 DEF StringEntry
    <3> HIDE DEF p
    <3>3. Min({p}) = p
      BY <3>2 DEF Min
    <3>4. offset = Min({entry.pos : entry \in Known(st, name)})
      BY <2>2 DEF fdt_get_string_offset
    <3> QED
      BY <3>1, <3>3, <3>4 DEF p
  <2>5. offset \in Nat /\ StringAt(strings, offset) = name
    <3>1. strings[i].pos \in Nat
      BY <1>1 DEF StringEntry
    <3>2. \A j \in DOMAIN strings : strings[j].pos = offset => j = i
      BY <1>1, <2>1, <2>4
    <3>3. (CHOOSE j \in DOMAIN strings : strings[j].pos = offset) = i
      BY <2>1, <2>4, <3>2
    <3> QED
      BY <2>1, <2>4, <3>1, <3>3 DEF StringAt
  <2> QED
    BY <1>1, <2>3, <2>5 DEF MaxText
<1>4. CASE ~\E i \in DOMAIN strings : strings[i].text = name
  <2> DEFINE new == [text |-> name, pos |-> len]
             more == Append(strings, new)
             l == Len(name)
             to == len + l + 1
             room == Grown(size, to)
  <2>1. Known(st, name) = {}
    BY <1>2, <1>4
  <2>2. offset = len
    BY <2>1 DEF fdt_get_string_offset
  <2>3. after = [st EXCEPT !.string_table = more,
                           !.string_table_len = to, !.string_table_size = room]
    BY <2>1 DEF WithString, Builder
  <2>4. l \in 0 .. MaxText /\ l \in 0 .. 63
    BY TextsAssumption DEF MaxText
  <2>5. to \in Nat /\ to > len /\ to <= len + MaxText + 1
    <3> HIDE DEF l, len
    <3> QED
      BY <1>1, <2>4 DEF MaxText
  <2>6. room \in Int /\ room >= to
    <3>1. to \in Int /\ size \in Int
      BY <1>1, <2>5
    <3> HIDE DEF to, size
    <3>2. Grown(size, to) \in Int /\ Grown(size, to) >= to
      BY <3>1, GrownEnough
    <3> QED
      BY <3>2 DEF room
  <2>7. /\ more \in Seq(StringEntry) /\ Len(more) = Len(strings) + 1
        /\ \A i \in DOMAIN strings : more[i] = strings[i]
        /\ more[Len(strings) + 1] = new
        /\ DOMAIN more = DOMAIN strings \cup {Len(strings) + 1}
        /\ Len(strings) + 1 \notin DOMAIN strings
    <3>1. new \in StringEntry
      BY <1>1 DEF StringEntry
    <3> HIDE DEF new, strings
    <3> QED
      BY <1>1, <3>1
  <2>8. /\ after \in Builder /\ after.string_table = more /\ after.string_table_len = to
        /\ after.string_table_size = room
        /\ after.tab = st.tab /\ after.tab_size = st.tab_size
        /\ after.open_node_count = st.open_node_count
    <3> HIDE DEF more, to, room, after
    <3> QED
      BY <2>3, <2>5, <2>6, <2>7 DEF Builder
  <2>9. \A i \in DOMAIN more : more[i].pos < to
    <3> HIDE DEF to, more, len, strings
    <3> QED
      BY <1>1, <2>5, <2>7 DEF StringEntry
  <2>10. \A i, j \in DOMAIN more : more[i].text = more[j].text \/ more[i].pos = more[j].pos => i = j
    <3>1. \A i \in DOMAIN strings : strings[i].text # new.text /\ strings[i].pos # new.pos
      BY <1>1, <1>4 DEF StringEntry
    <3> HIDE DEF more, new, strings
    <3> QED
      BY <1>1, <2>7, <3>1
  <2>11. StringsApart(after)
    <3> HIDE DEF more, to, after
    <3> QED
      BY <2>8, <2>9, <2>10 DEF StringsApart
  <2>12. StringAt(more, len) = name
    <3> DEFINE k == Len(strings) + 1
    <3>1. more[k].pos = len /\ more[k].text = name /\ k \in DOMAIN more
      BY <2>7
    <3> HIDE DEF more, len, k
    <3>2. (CHOOSE j \in DOMAIN more : more[j].pos = len) = k
      BY <2>10, <3>1
    <3> QED
      BY <3>1, <3>2 DEF StringAt
  <2>13. ASSUME NEW o, StringAt(strings, o) \in Texts
         PROVE  StringAt(more, o) = StringAt(strings, o)
    <3>1. "garbage" \notin Texts
      BY TextsAssumption
    <3>2. PICK i \in DOMAIN strings : strings[i].pos = o
      BY <2>13, <3>1 DEF StringAt
    <3> HIDE DEF more, strings
    <3>3. i \in DOMAIN more /\ more[i] = strings[i]
      BY <2>7, <3>2
    <3>4. (CHOOSE j \in DOMAIN more : more[j].pos = o) = i
      BY <2>10, <3>2, <3>3
    <3>5. (CHOOSE j \in DOMAIN strings : strings[j].pos = o) = i
      BY <1>1, <3>2
    <3> QED
      BY <3>2, <3>3, <3>4, <3>5 DEF StringAt
  <2> QED
    <3>1. /\ after.string_table_len <= after.string_table_size
          /\ after.string_table_len \in len .. len + MaxText + 1
          /\ offset \in Nat
      <4> HIDE DEF to, room, after, offset, len
      <4> QED
        BY <1>1, <2>2, <2>5, <2>6, <2>8 DEF MaxText
    <3>2. /\ StringAt(after.string_table, offset) = name
          /\ \A o : StringAt(strings, o) \in Texts =>
                    StringAt(after.string_table, o) = StringAt(strings, o)
      <4> HIDE DEF after, offset, len, strings, more
      <4> QED
        BY <2>2, <2>8, <2>12, <2>13
    <3> HIDE DEF more, to, room
    <3> QED
      BY <2>8, <2>11, <3>1, <3>2
<1> QED
  BY <1>3, <1>4

-----------------------------------------------------------------------------
\* Induction, as a fact about sets: what holds of 0 and of every successor
\* holds of every number.
LEMMA SetInduction ==
  ASSUME NEW S \in SUBSET Nat, 0 \in S, \A n \in S : n + 1 \in S
  PROVE  S = Nat
<1> DEFINE T == {n \in Nat : \A k \in 0 .. n : k \in S}
           f == [i \in Nat |-> IF i \in T THEN 1 ELSE 0]
           g == [i \in Nat |-> 1]
<1>1. 0 \in T
  OBVIOUS
<1>2. ASSUME NEW n \in Nat, n # 0 PROVE n \in T <=> n - 1 \in T
  <2>1. n - 1 \in Nat /\ (n - 1) + 1 = n /\ 0 .. n = (0 .. n - 1) \cup {n}
    BY <1>2
  <2>2. n - 1 \in T => n - 1 \in S
    BY <2>1
  <2>3. n - 1 \in T => n \in S
    BY <2>1, <2>2
  <2> QED
    BY <2>1, <2>3
<1>t. \A n \in T : n \in S
  OBVIOUS
<1> HIDE DEF T
<1>3. NatInductiveDefConclusion(f, 1, LAMBDA v, n : v)
  BY <1>1, <1>2 DEF NatInductiveDefConclusion
<1>4. NatInductiveDefConclusion(g, 1, LAMBDA v, n : v)
  BY DEF NatInductiveDefConclusion
<1>5. f = g
  <2> HIDE DEF f, g
  <2> QED
    BY <1>3, <1>4, NatInductiveUnique
<1>6. ASSUME NEW i \in Nat PROVE i \in S
  <2>1. f[i] = g[i]
    BY <1>5
  <2> QED
    BY <2>1, <1>t
<1> QED
  BY <1>6


Token == [kind : {"begin", "end", "prop"}, name : Texts, value : Seq(Cell), path : Seq(Texts)]

\* A reader takes the first k tokens of told one after the other, at these cells
\* and inside the nodes of these paths, and is at the end of the table.
ReadsAs(tab, strings, k, at, path, told) ==
  /\ told \in Seq(Token) /\ Len(told) = k
  /\ at[0] = 1 /\ path[0] = <<>> /\ at[k] = Len(tab) + 1
  /\ \A j \in 0 .. k : path[j] \in Seq(Texts)
  /\ \A j \in 1 .. k :
       /\ at[j - 1] \in 1 .. Len(tab)
       /\ TokenCells(tab, at[j - 1]) \in Nat \ {0}
       /\ told[j] = TokenAt(tab, strings, at[j - 1], path[j - 1])
       /\ told[j].path = path[j]
       /\ at[j] = at[j - 1] + TokenCells(tab, at[j - 1])

\* A token of a tree is not what a reader gives up at.
LEMMA GarbageIsNoToken == Garbage \notin Token
  BY DEF Garbage, Said, Token

\* A sequence over a set is one over every larger set.
LEMMA LargerSet ==
  ASSUME NEW S, NEW T, S \subseteq T, NEW u \in Seq(S)
  PROVE  u \in Seq(T)
<1>1. \A i \in 1 .. Len(u) : u[i] \in T
  OBVIOUS
<1> QED
  BY <1>1

\* The first token of a sequence and the rest.
LEMMA FirstAndRest ==
  ASSUME NEW T, NEW told \in Seq(T), NEW j \in 1 .. Len(told)
  PROVE  <<told[j]>> \o SubSeq(told, j + 1, Len(told)) = SubSeq(told, j, Len(told))
<1> DEFINE k == Len(told)
           rest == SubSeq(told, j + 1, k)
           all == SubSeq(told, j, k)
<1>1. k \in Nat /\ j \in 1 .. k
  OBVIOUS
<1>2. rest \in Seq(T) /\ Len(rest) = k - j /\ \A i \in 1 .. k - j : rest[i] = told[j + i]
  OBVIOUS
<1>3. all \in Seq(T) /\ Len(all) = k - j + 1 /\ \A i \in 1 .. k - j + 1 : all[i] = told[j + i - 1]
  OBVIOUS
<1>4. told[j] \in T
  OBVIOUS
<1> HIDE DEF rest, all, k
<1>5. \A i \in 1 .. k - j + 1 : (<<told[j]>> \o rest)[i] = all[i]
  <2> SUFFICES ASSUME NEW i \in 1 .. k - j + 1 PROVE (<<told[j]>> \o rest)[i] = all[i]
    OBVIOUS
  <2>1. CASE i = 1
    BY <1>1, <1>2, <1>3, <1>4, <2>1
  <2>2. CASE i # 1
    <3>1. i - 1 \in 1 .. k - j /\ j + (i - 1) = j + i - 1
      BY <1>1, <2>2
    <3>2. (<<told[j]>> \o rest)[i] = rest[i - 1]
      BY <1>1, <1>2, <1>4, <3>1
    <3> QED
      BY <1>2, <1>3, <3>1, <3>2
  <2> QED
    BY <2>1, <2>2
<1>6. <<told[j]>> \o rest \in Seq(T) /\ Len(<<told[j]>> \o rest) = k - j + 1
  BY <1>1, <1>2, <1>4
<1>7. <<told[j]>> \o rest = all
  BY <1>3, <1>5, <1>6
<1> QED
  BY <1>7 DEF rest, all, k

\* A reader that takes tokens to the end of a table has been told what Tokens
\* says.
LEMMA ToldBy ==
  ASSUME NEW tab \in Seq(Cell), NEW strings, NEW k \in Nat, k <= Len(tab),
         NEW at, NEW path, NEW told, ReadsAs(tab, strings, k, at, path, told)
  PROVE  Tokens(tab, strings) = told
<1> DEFINE l == Len(tab)
           cells == 1 .. l + 1
           nothing == [pos \in cells |-> [p \in Seq(STRING) |-> <<>>]]
           Onward(v) ==
             [pos \in cells |-> [p \in Seq(STRING) |->
                IF pos = l + 1 THEN <<>>
                ELSE IF TokenAt(tab, strings, pos, p) = Garbage THEN <<Garbage>>
                ELSE <<TokenAt(tab, strings, pos, p)>>
                     \o v[pos + TokenCells(tab, pos)][TokenAt(tab, strings, pos, p).path]]]
           from == CHOOSE f :
             f = [most \in Nat |-> IF most = 0 THEN nothing ELSE Onward(f[most - 1])]
<1>1. Tokens(tab, strings) = from[l][1][<<>>]
  BY DEF Tokens
<1>2. from = [most \in Nat |-> IF most = 0 THEN nothing ELSE Onward(from[most - 1])]
  <2>1. NatInductiveDefHypothesis(from, nothing, LAMBDA v, n : Onward(v))
    BY DEF NatInductiveDefHypothesis
  <2> HIDE DEF from, nothing
  <2>2. NatInductiveDefConclusion(from, nothing, LAMBDA v, n : Onward(v))
    BY <2>1, NatInductiveDef
  <2> QED
    BY <2>2 DEF NatInductiveDefConclusion
<1>3. /\ k \in Nat /\ told \in Seq(Token) /\ Len(told) = k
      /\ at[0] = 1 /\ path[0] = <<>> /\ at[k] = l + 1
      /\ \A j \in 1 .. k :
           /\ at[j - 1] \in 1 .. l
           /\ told[j] = TokenAt(tab, strings, at[j - 1], path[j - 1])
           /\ told[j].path = path[j]
           /\ at[j] = at[j - 1] + TokenCells(tab, at[j - 1])
  BY DEF ReadsAs
<1>4. \A j \in 0 .. k : path[j] \in Seq(STRING)
  <2>1. Texts \subseteq STRING
    BY TextsAssumption
  <2>2. \A j \in 0 .. k : path[j] \in Seq(Texts)
    BY DEF ReadsAs
  <2> QED
    BY <2>1, <2>2, LargerSet
<1>5. l \in Nat /\ k <= l
  OBVIOUS
<1> HIDE DEF from, l
<1>6. ASSUME NEW most \in Nat PROVE from[most][at[k]][path[k]] = <<>>
  <2>1. at[k] \in cells /\ path[k] \in Seq(STRING) /\ at[k] = l + 1
    BY <1>3, <1>4, <1>5
  <2>2. CASE most = 0
    <3>1. from[most] = nothing
      BY <1>2, <2>2
    <3> QED
      BY <2>1, <3>1
  <2>3. CASE most # 0
    <3>1. from[most] = Onward(from[most - 1])
      BY <1>2, <2>3
    <3> QED
      BY <2>1, <3>1
  <2> QED
    BY <2>2, <2>3
<1>7. ASSUME NEW most \in Nat \ {0}, NEW j \in 1 .. k
      PROVE  from[most][at[j - 1]][path[j - 1]] = <<told[j]>> \o from[most - 1][at[j]][path[j]]
  <2> DEFINE pos == at[j - 1]
             p == path[j - 1]
  <2>1. pos \in cells /\ pos # l + 1 /\ p \in Seq(STRING)
    <3>1. pos \in 1 .. l
      BY <1>3
    <3>2. j - 1 \in 0 .. k
      OBVIOUS
    <3>3. p \in Seq(STRING)
      BY <1>4, <3>2
    <3> HIDE DEF pos, p
    <3> QED
      BY <1>5, <3>1, <3>3
  <2>2. /\ TokenAt(tab, strings, pos, p) = told[j] /\ told[j].path = path[j]
        /\ pos + TokenCells(tab, pos) = at[j]
    BY <1>3
  <2>3. told[j] # Garbage
    BY <1>3, GarbageIsNoToken
  <2>4. from[most] = Onward(from[most - 1])
    BY <1>2
  <2> DEFINE before == from[most - 1]
  <2> HIDE DEF pos, p, before
  <2>5. from[most][pos][p] = Onward(before)[pos][p]
    BY <2>4 DEF before
  <2>6. Onward(before)[pos][p]
          = IF pos = l + 1 THEN <<>>
            ELSE IF TokenAt(tab, strings, pos, p) = Garbage THEN <<Garbage>>
            ELSE <<TokenAt(tab, strings, pos, p)>>
                 \o before[pos + TokenCells(tab, pos)][TokenAt(tab, strings, pos, p).path]
    BY <2>1
  <2> HIDE DEF Onward
  <2>7. from[most][pos][p] = <<told[j]>> \o before[at[j]][path[j]]
    BY <2>1, <2>2, <2>3, <2>5, <2>6
  <2> QED
    BY <2>7 DEF pos, p, before
<1> HIDE DEF nothing, Onward
<1> DEFINE S == {i \in Nat : i <= k =>
                   \A most \in Nat : most >= i =>
                     from[most][at[k - i]][path[k - i]] = SubSeq(told, k - i + 1, k)}
<1>8. 0 \in S
  <2>1. SubSeq(told, k + 1, k) = <<>>
    BY <1>3
  <2>2. k - 0 = k /\ k - 0 + 1 = k + 1
    BY <1>3
  <2>3. \A most \in Nat : from[most][at[k - 0]][path[k - 0]] = SubSeq(told, k - 0 + 1, k)
    BY <1>6, <2>1, <2>2
  <2> QED
    BY <2>3
<1>9. ASSUME NEW i \in S PROVE i + 1 \in S
  <2>i. i \in Nat /\ i + 1 \in Nat
    OBVIOUS
  <2> SUFFICES ASSUME i + 1 <= k, NEW most \in Nat, most >= i + 1
               PROVE  from[most][at[k - (i + 1)]][path[k - (i + 1)]]
                        = SubSeq(told, k - (i + 1) + 1, k)
    BY <2>i
  <2> DEFINE j == k - i
  <2>1. /\ j \in 1 .. k /\ k - (i + 1) = j - 1 /\ k - (i + 1) + 1 = j /\ k - i + 1 = j + 1
        /\ most \in Nat \ {0} /\ most - 1 \in Nat /\ most - 1 >= i /\ i <= k /\ i \in Nat
    BY <1>3
  <2>2. from[most - 1][at[j]][path[j]] = SubSeq(told, j + 1, k)
    BY <2>1
  <2> HIDE DEF j
  <2>3. from[most][at[j - 1]][path[j - 1]] = <<told[j]>> \o SubSeq(told, j + 1, k)
    BY <1>7, <2>1, <2>2
  <2>4. <<told[j]>> \o SubSeq(told, j + 1, k) = SubSeq(told, j, k)
    BY <1>3, <2>1, FirstAndRest
  <2> QED
    BY <2>1, <2>3, <2>4
<1>10. k \in S
  <2> HIDE DEF S
  <2>1. \A n \in S : n + 1 \in S
    BY <1>9
  <2>2. S \in SUBSET Nat
    BY DEF S
  <2>3. S = Nat
    BY <1>8, <2>1, <2>2, SetInduction
  <2> QED
    BY <2>3
<1>11. from[l][at[k - k]][path[k - k]] = SubSeq(told, k - k + 1, k)
  BY <1>5, <1>10
<1>12. SubSeq(told, 1, k) = told
  BY <1>3
<1> QED
  BY <1>1, <1>3, <1>11, <1>12

\* A token stays what it is when cells are added after it and names to the
\* string table.
LEMMA TokenStable ==
  ASSUME NEW tab \in Seq(Cell), NEW cells \in Seq(Cell), NEW strings, NEW more,
         \A o : StringAt(strings, o) \in Texts => StringAt(more, o) = StringAt(strings, o),
         NEW pos \in 1 .. Len(tab), NEW path,
         TokenCells(tab, pos) \in Nat \ {0}, TokenAt(tab, strings, pos, path) \in Token
  PROVE  /\ TokenCells(tab \o cells, pos) = TokenCells(tab, pos)
         /\ TokenAt(tab \o cells, more, pos, path) = TokenAt(tab, strings, pos, path)
<1> DEFINE both == tab \o cells
           n == TokenCells(tab, pos)
           l == Len(tab)
<1>1. /\ l \in Nat /\ Len(both) \in Nat /\ Len(both) >= l
      /\ \A i \in 1 .. l : both[i] = tab[i]
      /\ pos \in 1 .. l
  OBVIOUS
<1>2. n \in Nat \ {0}
  OBVIOUS
<1>3. TokenAt(tab, strings, pos, path) # Garbage
  BY GarbageIsNoToken
<1>4. Fits(tab, pos, n)
  BY <1>3 DEF TokenAt
<1>5. pos + n <= l + 1 /\ Fits(both, pos, n)
  <2> HIDE DEF n, both
  <2> QED
    BY <1>1, <1>2, <1>4 DEF Fits, n
<1>6. /\ Number(FDT_BEGIN_NODE) # Number(FDT_END_NODE)
      /\ Number(FDT_BEGIN_NODE) # Number(FDT_PROP)
      /\ Number(FDT_PROP) # Number(FDT_END_NODE)
  BY DEF Number, FDT_BEGIN_NODE, FDT_END_NODE, FDT_PROP
<1>7. both[pos] = tab[pos]
  BY <1>1
<1>8. CASE tab[pos] = Number(FDT_BEGIN_NODE) /\ Fits(tab, pos, 2)
  <2>1. pos + 1 \in 1 .. l /\ Fits(both, pos, 2)
    <3> HIDE DEF both
    <3> QED
      BY <1>1, <1>8 DEF Fits
  <2>2. both[pos + 1] = tab[pos + 1]
    BY <1>1, <2>1
  <2> HIDE DEF both, l
  <2>3. n = 1 + CellsFor(TextBytes(tab[pos + 1][1]))
    BY <1>6, <1>8 DEF TokenCells
  <2>4. TokenCells(both, pos) = n
    BY <1>6, <1>7, <1>8, <2>1, <2>2, <2>3 DEF TokenCells
  <2> HIDE DEF n
  <2>5. TokenAt(tab, strings, pos, path)
          = Said("begin", tab[pos + 1][1][1], <<>>, Append(path, tab[pos + 1][1][1]))
    BY <1>4, <1>6, <1>8 DEF TokenAt, n
  <2>6. TokenAt(both, more, pos, path)
          = Said("begin", both[pos + 1][1][1], <<>>, Append(path, both[pos + 1][1][1]))
    BY <1>5, <1>6, <1>7, <1>8, <2>1, <2>4 DEF TokenAt
  <2> QED
    BY <2>2, <2>4, <2>5, <2>6 DEF n, both
<1>9. CASE tab[pos] = Number(FDT_END_NODE) /\ path # <<>>
  <2> HIDE DEF both, l
  <2>1. n = 1 /\ TokenCells(both, pos) = 1
    BY <1>6, <1>7, <1>9 DEF TokenCells
  <2> HIDE DEF n
  <2>2. TokenAt(tab, strings, pos, path) = Said("end", "", <<>>, Front(path))
    BY <1>4, <1>6, <1>9 DEF TokenAt, n
  <2>3. TokenAt(both, more, pos, path) = Said("end", "", <<>>, Front(path))
    BY <1>5, <1>6, <1>7, <1>9, <2>1 DEF TokenAt
  <2> QED
    BY <2>1, <2>2, <2>3 DEF n, both
<1>10. CASE tab[pos] = Number(FDT_PROP) /\ Fits(tab, pos, 3)
  <2>1. pos + 1 \in 1 .. l /\ pos + 2 \in 1 .. l /\ Fits(both, pos, 3)
    <3> HIDE DEF both
    <3> QED
      BY <1>1, <1>10 DEF Fits
  <2>2. both[pos + 1] = tab[pos + 1] /\ both[pos + 2] = tab[pos + 2]
    BY <1>1, <2>1
  <2>3. SubSeq(both, pos + 3, pos + n - 1) = SubSeq(tab, pos + 3, pos + n - 1)
    <3> DEFINE from == pos + 3
               to == pos + n - 1
    <3>1. from \in Nat /\ to \in Nat /\ from >= 1 /\ to <= l
      <4> HIDE DEF n
      <4> QED
        BY <1>1, <1>2, <1>5
    <3>2. both \in Seq(Cell)
      OBVIOUS
    <3> HIDE DEF both, from, to
    <3>3. /\ SubSeq(both, from, to) \in Seq(Cell) /\ SubSeq(tab, from, to) \in Seq(Cell)
          /\ Len(SubSeq(both, from, to)) = Len(SubSeq(tab, from, to))
          /\ \A i \in 1 .. Len(SubSeq(tab, from, to)) :
               SubSeq(both, from, to)[i] = SubSeq(tab, from, to)[i]
      BY <1>1, <3>1, <3>2
    <3> QED
      BY <3>3 DEF from, to
  <2> HIDE DEF both, l
  <2>4. n = 3 + CellsFor(tab[pos + 1][2])
    BY <1>6, <1>10 DEF TokenCells
  <2>5. TokenCells(both, pos) = n
    BY <1>6, <1>7, <1>10, <2>1, <2>2, <2>4 DEF TokenCells
  <2> HIDE DEF n
  <2>6. TokenAt(tab, strings, pos, path)
          = Said("prop", StringAt(strings, tab[pos + 2][2]),
                 SubSeq(tab, pos + 3, pos + n - 1), path)
    BY <1>4, <1>6, <1>10 DEF TokenAt, n
  <2>7. StringAt(strings, tab[pos + 2][2]) \in Texts
    BY <2>6 DEF Token, Said
  <2>8. TokenAt(both, more, pos, path)
          = Said("prop", StringAt(more, both[pos + 2][2]), SubSeq(both, pos + 3, pos + n - 1), path)
    BY <1>5, <1>6, <1>7, <1>10, <2>1, <2>5 DEF TokenAt
  <2>9. StringAt(more, both[pos + 2][2]) = StringAt(strings, tab[pos + 2][2])
    BY <2>2, <2>7
  <2> QED
    BY <2>3, <2>5, <2>6, <2>8, <2>9 DEF n, both
<1> QED
  BY <1>3, <1>4, <1>8, <1>9, <1>10 DEF TokenAt

\* A reader that has taken the tokens of a table takes one more when the cells of
\* one more are added.
LEMMA ReadOn ==
  ASSUME NEW tab \in Seq(Cell), NEW cells \in Seq(Cell), Len(cells) >= 1, NEW strings, NEW more,
         \A o : StringAt(strings, o) \in Texts => StringAt(more, o) = StringAt(strings, o),
         NEW k \in Nat, NEW at, NEW path, NEW told, ReadsAs(tab, strings, k, at, path, told),
         TokenCells(tab \o cells, Len(tab) + 1) = Len(cells),
         TokenAt(tab \o cells, more, Len(tab) + 1, path[k]) \in Token,
         TokenAt(tab \o cells, more, Len(tab) + 1, path[k]).path = path[k + 1]
  PROVE  \E next : ReadsAs(tab \o cells, more, k + 1, next, path,
                           Append(told, TokenAt(tab \o cells, more, Len(tab) + 1, path[k])))
<1> DEFINE both == tab \o cells
           token == TokenAt(both, more, Len(tab) + 1, path[k])
           next == [j \in 0 .. k + 1 |-> IF j <= k THEN at[j] ELSE Len(both) + 1]
           all == Append(told, token)
<1>1. Len(tab) \in Nat /\ Len(cells) \in Nat /\ Len(both) = Len(tab) + Len(cells)
  OBVIOUS
<1>2. /\ told \in Seq(Token) /\ Len(told) = k
      /\ at[0] = 1 /\ path[0] = <<>> /\ at[k] = Len(tab) + 1
      /\ \A j \in 0 .. k : path[j] \in Seq(Texts)
      /\ \A j \in 1 .. k :
           /\ at[j - 1] \in 1 .. Len(tab)
           /\ TokenCells(tab, at[j - 1]) \in Nat \ {0}
           /\ told[j] = TokenAt(tab, strings, at[j - 1], path[j - 1])
           /\ told[j].path = path[j]
           /\ at[j] = at[j - 1] + TokenCells(tab, at[j - 1])
  BY DEF ReadsAs
<1>3. token \in Token /\ token.path = path[k + 1] /\ TokenCells(both, Len(tab) + 1) = Len(cells)
  OBVIOUS
<1>4. /\ all \in Seq(Token) /\ Len(all) = k + 1 /\ all[k + 1] = token
      /\ \A j \in 1 .. k : all[j] = told[j]
  <2> HIDE DEF token
  <2> QED
    BY <1>2, <1>3
<1>5. path[k + 1] \in Seq(Texts)
  BY <1>3 DEF Token
<1>6. ASSUME NEW j \in 1 .. k
      PROVE  /\ TokenCells(both, at[j - 1]) = TokenCells(tab, at[j - 1])
             /\ TokenAt(both, more, at[j - 1], path[j - 1]) = told[j]
  <2> DEFINE pos == at[j - 1]
             p == path[j - 1]
  <2>1. /\ pos \in 1 .. Len(tab) /\ TokenCells(tab, pos) \in Nat \ {0}
        /\ told[j] = TokenAt(tab, strings, pos, p) /\ told[j] \in Token
    <3>1. told[j] \in Token
      BY <1>2
    <3>2. /\ pos \in 1 .. Len(tab) /\ TokenCells(tab, pos) \in Nat \ {0}
          /\ told[j] = TokenAt(tab, strings, pos, p)
      BY <1>2
    <3> QED
      BY <3>1, <3>2
  <2> HIDE DEF pos, p
  <2>2. /\ TokenCells(both, pos) = TokenCells(tab, pos)
        /\ TokenAt(both, more, pos, p) = TokenAt(tab, strings, pos, p)
    BY <2>1, TokenStable
  <2> QED
    BY <2>1, <2>2 DEF pos, p
<1> HIDE DEF both, token, all
<1>7. /\ next[k + 1] = Len(both) + 1 /\ next[0] = 1
      /\ \A j \in 0 .. k : next[j] = at[j]
  BY <1>2
<1> HIDE DEF next
<1>8. ASSUME NEW j \in 1 .. k + 1
      PROVE  /\ next[j - 1] \in 1 .. Len(both)
             /\ TokenCells(both, next[j - 1]) \in Nat \ {0}
             /\ all[j] = TokenAt(both, more, next[j - 1], path[j - 1])
             /\ all[j].path = path[j]
             /\ next[j] = next[j - 1] + TokenCells(both, next[j - 1])
  <2>1. CASE j \in 1 .. k
    <3>1. j - 1 \in 0 .. k /\ j \in 0 .. k
      BY <2>1
    <3>2. next[j - 1] = at[j - 1] /\ next[j] = at[j] /\ all[j] = told[j]
      BY <1>4, <1>7, <2>1, <3>1
    <3>3. at[j - 1] \in 1 .. Len(both)
      <4> DEFINE pos == at[j - 1]
                 l == Len(tab)
                 m == Len(cells)
                 n == Len(both)
      <4>1. pos \in 1 .. l
        BY <1>2, <2>1
      <4>2. l \in Nat /\ m \in Nat /\ n = l + m
        BY <1>1
      <4> HIDE DEF pos, l, m, n
      <4>3. pos \in 1 .. n
        BY <4>1, <4>2
      <4> QED
        BY <4>3 DEF pos, n
    <3> QED
      BY <1>2, <1>6, <2>1, <3>2, <3>3
  <2>2. CASE j = k + 1
    <3>1. next[j - 1] = Len(tab) + 1 /\ next[j] = Len(both) + 1 /\ all[j] = token
      BY <1>2, <1>4, <1>7, <2>2
    <3>2. TokenCells(both, next[j - 1]) = Len(cells)
      BY <1>3, <3>1
    <3> QED
      BY <1>1, <1>3, <2>2, <3>1, <3>2, SMTT(30) DEF token
  <2> QED
    BY <2>1, <2>2
<1>9. \A j \in 0 .. k + 1 : path[j] \in Seq(Texts)
  <2> SUFFICES ASSUME NEW j \in 0 .. k + 1 PROVE path[j] \in Seq(Texts)
    OBVIOUS
  <2>1. j \in 0 .. k \/ j = k + 1
    OBVIOUS
  <2> QED
    BY <1>2, <1>5, <2>1
<1>10. ReadsAs(both, more, k + 1, next, path, all)
  BY <1>2, <1>4, <1>7, <1>8, <1>9 DEF ReadsAs
<1> QED
  BY <1>10 DEF both, token, all

-----------------------------------------------------------------------------
ACall ==
  [does : {"begin", "end", "texts", "cells"}, name : Texts, value : Seq(Texts) \cup Seq(Cell)]

\* A call leads from the open nodes p to the open nodes q.
Moves(call, p, q) ==
  \/ call.does = "begin" /\ q = Append(p, call.name)
  \/ call.does = "end" /\ p # <<>> /\ q = Front(p)
  \/ call.does = "texts" /\ call.value \in Seq(Texts) /\ Len(call.value) <= 2 /\ p # <<>> /\ q = p
  \/ call.does = "cells" /\ call.value \in Seq(Cell) /\ Len(call.value) <= 4 /\ p # <<>> /\ q = p

\* What the reader is told of the beginning of a node, of a property and of the
\* end of a node by a call inside the nodes of p.
Begun(name, p)            == Said("begin", name, <<>>, Append(p, name))
Property(name, value, p)  == Said("prop", name, value, p)
Ended(p)                  == Said("end", "", <<>>, Front(p))

Meant(call, p) ==
  CASE call.does = "begin" -> Begun(call.name, p)
    [] call.does = "end"   -> Ended(p)
    [] call.does = "texts" -> Property(call.name, TextCells(call.value), p)
    [] call.does = "cells" -> Property(call.name, call.value, p)

\* A token that says that a call has led from the nodes of p to other nodes.
SaysMove(token, p) ==
  \/ token.kind = "begin" /\ token.path = Append(p, token.name)
  \/ token.kind = "end" /\ p # <<>> /\ token.path = Front(p)
  \/ token.kind = "prop" /\ p # <<>> /\ token.path = p

MaxCells == 35

\* What k calls that go through these paths have built.
Built(st, k, path, told) ==
  /\ st \in Builder /\ StringsApart(st)
  /\ Len(st.tab) <= st.tab_size /\ st.string_table_len <= st.string_table_size
  /\ k <= Len(st.tab) /\ Len(st.tab) <= MaxCells * k
  /\ st.string_table_len <= (MaxText + 1) * k
  /\ st.open_node_count = Len(path[k])
  /\ \E at : ReadsAs(st.tab, st.string_table, k, at, path, told)

\* Adding the cells of one more token.
LEMMA BuiltOn ==
  ASSUME NEW st, NEW k \in Nat, NEW path, NEW told, Built(st, k, path, told),
         NEW after \in Builder, StringsApart(after),
         Len(after.tab) <= after.tab_size, after.string_table_len <= after.string_table_size,
         after.string_table_len <= st.string_table_len + MaxText + 1,
         NEW cells \in Seq(Cell), after.tab = st.tab \o cells, Len(cells) \in 1 .. MaxCells,
         \A o : StringAt(st.string_table, o) \in Texts =>
                  StringAt(after.string_table, o) = StringAt(st.string_table, o),
         after.open_node_count = Len(path[k + 1]),
         NEW token \in Token, token.path = path[k + 1],
         TokenCells(after.tab, Len(st.tab) + 1) = Len(cells),
         TokenAt(after.tab, after.string_table, Len(st.tab) + 1, path[k]) = token
  PROVE  Built(after, k + 1, path, Append(told, token))
<1>1. st.tab \in Seq(Cell) /\ Len(st.tab) \in Nat /\ st.string_table_len \in Nat
  BY DEF Built, Builder
<1>2. PICK at : ReadsAs(st.tab, st.string_table, k, at, path, told)
  BY DEF Built
<1> DEFINE tab == st.tab
           strings == st.string_table
           more == after.string_table
<1>3. tab \in Seq(Cell) /\ ReadsAs(tab, strings, k, at, path, told) /\ after.tab = tab \o cells
  BY <1>1, <1>2
<1>4. /\ \A o : StringAt(strings, o) \in Texts => StringAt(more, o) = StringAt(strings, o)
      /\ TokenCells(tab \o cells, Len(tab) + 1) = Len(cells)
      /\ TokenAt(tab \o cells, more, Len(tab) + 1, path[k]) = token
      /\ token \in Token /\ token.path = path[k + 1] /\ Len(cells) >= 1
  BY DEF MaxCells
<1>5. \E next : ReadsAs(tab \o cells, more, k + 1, next, path, Append(told, token))
  <2> HIDE DEF tab, strings, more
  <2> QED
    BY <1>3, <1>4, ReadOn
<1>6. Len(after.tab) = Len(st.tab) + Len(cells)
  BY <1>1
<1>7. k + 1 <= Len(after.tab) /\ Len(after.tab) <= MaxCells * (k + 1)
  <2> DEFINE l == Len(st.tab)
             m == Len(cells)
  <2>1. l \in Nat /\ k <= l /\ l <= 35 * k /\ m \in 1 .. 35 /\ Len(after.tab) = l + m
    BY <1>1, <1>6 DEF Built, MaxCells
  <2> HIDE DEF l, m
  <2>2. k + 1 <= l + m /\ l + m <= 35 * (k + 1)
    BY <2>1
  <2> QED
    BY <2>1, <2>2 DEF MaxCells
<1>8. after.string_table_len <= (MaxText + 1) * (k + 1)
  <2> DEFINE l == st.string_table_len
             m == after.string_table_len
  <2>1. l \in Nat /\ l <= (MaxText + 1) * k
    BY <1>1 DEF Built
  <2>3. m \in Nat /\ m <= l + MaxText + 1
    BY DEF Builder
  <2>4. MaxText = 63 /\ MaxText + 1 = 64
    BY DEF MaxText
  <2> HIDE DEF l, m
  <2>2. m <= 64 * (k + 1)
    BY <2>1, <2>3, <2>4
  <2> QED
    BY <2>2, <2>4 DEF m
<1> QED
  BY <1>3, <1>5, <1>7, <1>8 DEF Built, more

\* Cells that are added in two parts.
LEMMA AddedTwice ==
  ASSUME NEW tab \in Seq(Cell), NEW c \in Seq(Cell), NEW d \in Seq(Cell)
  PROVE  /\ (tab \o c) \o d = tab \o (c \o d)
         /\ c \o d \in Seq(Cell) /\ Len(c \o d) = Len(c) + Len(d)
         /\ Len(tab \o c) = Len(tab) + Len(c)
         /\ \A i \in 1 .. Len(c) : (tab \o c)[Len(tab) + i] = c[i]
OBVIOUS

\* The cells of a table with more cells after it.
LEMMA Joined ==
  ASSUME NEW tab \in Seq(Cell), NEW cells \in Seq(Cell)
  PROVE  /\ \A i \in 1 .. Len(tab) : (tab \o cells)[i] = tab[i]
         /\ \A i \in 1 .. Len(cells) : (tab \o cells)[Len(tab) + i] = cells[i]
         /\ Len(tab \o cells) = Len(tab) + Len(cells)
         /\ tab \o cells \in Seq(Cell)
OBVIOUS

\* Cells after one cell.
LEMMA AfterOne ==
  ASSUME NEW one \in Seq(Cell), Len(one) = 1, NEW data \in Seq(Cell), 1 \in 1 .. Len(data)
  PROVE  (one \o data)[1] = one[1] /\ (one \o data)[2] = data[1]
<1>1. \A i \in 1 .. Len(one) : (one \o data)[i] = one[i]
  BY Joined
<1>2. \A i \in 1 .. Len(data) : (one \o data)[Len(one) + i] = data[i]
  BY Joined
<1>3. (one \o data)[Len(one) + 1] = data[1]
  BY <1>2
<1>4. 1 \in 1 .. Len(one) /\ Len(one) + 1 = 2
  OBVIOUS
<1> QED
  BY <1>1, <1>3, <1>4

\* One cell after a table.
LEMMA OneMore ==
  ASSUME NEW tab \in Seq(Cell), NEW one \in Seq(Cell), Len(one) = 1
  PROVE  Len(tab \o one) = Len(tab) + 1 /\ (tab \o one)[Len(tab) + 1] = one[1]
<1>1. \A i \in 1 .. Len(one) : (tab \o one)[Len(tab) + i] = one[i]
  BY Joined
<1>2. 1 \in 1 .. Len(one) /\ Len(tab \o one) = Len(tab) + 1
  BY Joined
<1> QED
  BY <1>1, <1>2

\* The sequences of one cell.
OneCell == {one \in Seq(Cell) : Len(one) = 1}

\* Three cells, one after the other, and more.
Follow(tab, a, b, c, data) ==
  LET cells == ((a \o b) \o c) \o data
  IN  /\ (((tab \o a) \o b) \o c) \o data = tab \o cells
      /\ cells \in Seq(Cell) /\ Len(cells) = 3 + Len(data)
      /\ cells[1] = a[1] /\ cells[2] = b[1] /\ cells[3] = c[1]
      /\ \A i \in 1 .. Len(data) : cells[3 + i] = data[i]

\* Cells may be added one after the other.
LEMMA AfterThree ==
  ASSUME NEW tab \in Seq(Cell), NEW a \in OneCell, NEW b \in OneCell, NEW c \in OneCell,
         NEW data \in Seq(Cell)
  PROVE  Follow(tab, a, b, c, data)
<1> DEFINE two == a \o b
           three == two \o c
           cells == three \o data
<1>a. /\ a \in Seq(Cell) /\ b \in Seq(Cell) /\ c \in Seq(Cell)
      /\ Len(a) = 1 /\ Len(b) = 1 /\ Len(c) = 1
  BY DEF OneCell
<1>1. /\ two \in Seq(Cell) /\ (tab \o a) \o b = tab \o two /\ Len(two) = 2
      /\ two[1] = a[1] /\ two[2] = b[1]
  <2>1. two \in Seq(Cell) /\ (tab \o a) \o b = tab \o two
    BY <1>a, AddedTwice, SMTT(30)
  <2>2. Len(a \o b) = Len(a) + 1 /\ (a \o b)[Len(a) + 1] = b[1]
    BY <1>a, OneMore
  <2>3. \A i \in 1 .. Len(a) : two[i] = a[i]
    BY <1>a, Joined
  <2>4. 1 \in 1 .. Len(a)
    BY <1>a
  <2> QED
    BY <1>a, <2>1, <2>2, <2>3, <2>4
<1> HIDE DEF two
<1>2. /\ three \in Seq(Cell) /\ (tab \o two) \o c = tab \o three /\ Len(three) = 3
      /\ three[1] = a[1] /\ three[2] = b[1] /\ three[3] = c[1]
  <2>1. three \in Seq(Cell) /\ (tab \o two) \o c = tab \o three
    BY <1>a, <1>1, AddedTwice
  <2>2. Len(two \o c) = Len(two) + 1 /\ (two \o c)[Len(two) + 1] = c[1]
    BY <1>a, <1>1, OneMore
  <2>3. \A i \in 1 .. Len(two) : three[i] = two[i]
    BY <1>a, <1>1, Joined
  <2>4. 1 \in 1 .. Len(two) /\ 2 \in 1 .. Len(two) /\ Len(two) + 1 = 3
    BY <1>1
  <2> QED
    BY <1>1, <2>1, <2>2, <2>3, <2>4
<1> HIDE DEF three
<1>3. (tab \o three) \o data = tab \o cells /\ cells \in Seq(Cell)
  <2>1. three \in Seq(Cell)
    BY <1>2
  <2> QED
    BY <2>1, AddedTwice
<1>4. /\ \A i \in 1 .. Len(three) : cells[i] = three[i]
      /\ Len(cells) = Len(three) + Len(data)
  BY <1>2, Joined
<1>5. 1 \in 1 .. Len(three) /\ 2 \in 1 .. Len(three) /\ 3 \in 1 .. Len(three)
  BY <1>2
<1>6. Len(cells) = 3 + Len(data)
  BY <1>2, <1>4
<1>7. cells[1] = a[1] /\ cells[2] = b[1] /\ cells[3] = c[1]
  BY <1>2, <1>4, <1>5
<1>8. \A i \in 1 .. Len(data) : cells[3 + i] = data[i]
  <2>1. \A i \in 1 .. Len(data) : cells[Len(three) + i] = data[i]
    BY <1>2, Joined
  <2> HIDE DEF cells
  <2> QED
    BY <1>2, <2>1
<1> HIDE DEF cells
<1> QED
  BY <1>1, <1>2, <1>3, <1>6, <1>7, <1>8 DEF cells, three, two, Follow

\* What is left of cells that were added, after the first three.
LEMMA LastPart ==
  ASSUME NEW tab \in Seq(Cell), NEW cells \in Seq(Cell), NEW data \in Seq(Cell),
         NEW l \in Nat, NEW n \in Nat, l = Len(tab), n = Len(data), Len(cells) = 3 + n,
         \A i \in 1 .. n : cells[3 + i] = data[i]
  PROVE  SubSeq(tab \o cells, l + 4, l + 3 + n) = data
<1> DEFINE both == tab \o cells
           part == SubSeq(both, l + 4, l + 3 + n)
<1>1. both \in Seq(Cell) /\ Len(both) = l + (3 + n)
  OBVIOUS
<1>2. \A i \in 1 .. n : both[l + (3 + i)] = data[i]
  <2>1. \A i \in 1 .. 3 + n : both[l + i] = cells[i]
    BY Joined
  <2> HIDE DEF both
  <2>2. \A i \in 1 .. n : 3 + i \in 1 .. 3 + n
    OBVIOUS
  <2> QED
    BY <2>1, <2>2
<1> HIDE DEF both
<1>3. part \in Seq(Cell) /\ Len(part) = n /\ \A i \in 1 .. n : part[i] = both[l + (3 + i)]
  <2>1. l + 4 \in 1 .. Len(both) + 1 /\ l + 3 + n \in (l + 4) - 1 .. Len(both)
    BY <1>1
  <2>2. part \in Seq(Cell) /\ Len(part) = n
    BY <1>1, <2>1
  <2>3. ASSUME NEW i \in 1 .. n PROVE part[i] = both[l + (3 + i)]
    <3>1. part[i] = both[(l + 4) + i - 1] /\ (l + 4) + i - 1 = l + (3 + i)
      BY <1>1, <2>1
    <3> QED
      BY <3>1
  <2> QED
    BY <2>2, <2>3
<1> HIDE DEF part
<1>4. part = data
  BY <1>2, <1>3
<1> QED
  BY <1>4 DEF part, both

\* The count of open nodes changes nothing else.
LEMMA Counted ==
  ASSUME NEW st \in Builder, NEW n \in Int
  PROVE  LET after == [st EXCEPT !.open_node_count = n]
         IN  /\ after \in Builder /\ after.tab = st.tab /\ after.tab_size = st.tab_size
             /\ after.string_table = st.string_table
             /\ after.string_table_len = st.string_table_len
             /\ after.string_table_size = st.string_table_size
             /\ after.open_node_count = n
BY DEF Builder

\* fdt_begin_node adds a token that opens its node.
LEMMA BeginBuilds ==
  ASSUME NEW st, NEW k \in Nat, NEW path, NEW told, Built(st, k, path, told),
         NEW name \in Texts, path[k + 1] = Append(path[k], name)
  PROVE  LET token == Begun(name, path[k])
         IN  /\ token \in Token /\ SaysMove(token, path[k])
             /\ Built(fdt_begin_node(st, name), k + 1, path, Append(told, token))
<1> DEFINE texts == <<name>>
           data == TextCells(texts)
           begun == fdt_put32(st, FDT_BEGIN_NODE)
           put == fdt_put_data(begun, data)
           after == [put EXCEPT !.open_node_count = @ + 1]
           cells == <<Number(FDT_BEGIN_NODE)>> \o data
           l == Len(st.tab)
           token == Said("begin", name, <<>>, Append(path[k], name))
<1>1. /\ st \in Builder /\ st.tab \in Seq(Cell) /\ l \in Nat /\ StringsApart(st)
      /\ st.string_table_len <= st.string_table_size /\ st.string_table_len \in Nat
      /\ st.open_node_count = Len(path[k])
  BY DEF Built, Builder
<1>2. path[k] \in Seq(Texts)
  BY DEF Built, ReadsAs
<1>3. /\ data \in Seq(Cell) /\ Len(data) = CellsFor(TextBytes(texts)) /\ Len(data) \in 1 .. 32
      /\ data[1] = <<texts, 1>>
  <2>1. texts \in Seq(Texts) /\ Len(texts) = 1
    OBVIOUS
  <2> HIDE DEF texts
  <2>2. /\ data \in Seq(Cell) /\ Len(data) = CellsFor(TextBytes(texts))
        /\ CellsFor(TextBytes(texts)) \in 0 .. 32 /\ CellsFor(TextBytes(texts)) >= 1
        /\ data[1] = <<texts, 1>>
    <3>1. Len(texts) <= 2
      BY <2>1
    <3> QED
      BY <2>1, <3>1, TextCellsOf
  <2> DEFINE n == CellsFor(TextBytes(texts))
  <2> HIDE DEF n
  <2>3. n \in 0 .. 32 /\ n >= 1 => n \in 1 .. 32
    OBVIOUS
  <2> QED
    BY <2>2, <2>3 DEF n
<1>4. <<Number(FDT_BEGIN_NODE)>> \in Seq(Cell) /\ Len(<<Number(FDT_BEGIN_NODE)>>) = 1
  <2>1. Number(FDT_BEGIN_NODE) \in Cell
    BY DEF Number, Cell, FDT_BEGIN_NODE
  <2> QED
    BY <2>1
<1>5. /\ begun \in Builder /\ begun.tab = st.tab \o <<Number(FDT_BEGIN_NODE)>>
      /\ begun.open_node_count = st.open_node_count
      /\ begun.string_table = st.string_table
      /\ begun.string_table_len = st.string_table_len
      /\ begun.string_table_size = st.string_table_size
  <2>1. FDT_BEGIN_NODE \in Int
    BY DEF FDT_BEGIN_NODE
  <2> QED
    BY <1>1, <2>1, PutOne
<1> HIDE DEF data, begun
<1>6. /\ put \in Builder /\ put.tab = begun.tab \o data
      /\ Len(put.tab) <= put.tab_size
      /\ put.open_node_count = begun.open_node_count
      /\ put.string_table = begun.string_table
      /\ put.string_table_len = begun.string_table_len
      /\ put.string_table_size = begun.string_table_size
  BY <1>3, <1>5, PutData
<1> HIDE DEF put, l
<1>7. /\ cells \in Seq(Cell) /\ Len(cells) = 1 + Len(data) /\ put.tab = st.tab \o cells
  <2> DEFINE one == <<Number(FDT_BEGIN_NODE)>>
  <2>1. one \in Seq(Cell) /\ Len(one) = 1 /\ put.tab = (st.tab \o one) \o data
    BY <1>4, <1>5, <1>6
  <2> HIDE DEF one
  <2>2. /\ (st.tab \o one) \o data = st.tab \o (one \o data)
        /\ one \o data \in Seq(Cell) /\ Len(one \o data) = Len(one) + Len(data)
    BY <1>1, <1>3, <2>1, AddedTwice
  <2> QED
    BY <2>1, <2>2 DEF one
<1>8. /\ after \in Builder /\ after.tab = put.tab /\ after.tab_size = put.tab_size
      /\ after.string_table = put.string_table /\ after.string_table_len = put.string_table_len
      /\ after.string_table_size = put.string_table_size
      /\ after.open_node_count = put.open_node_count + 1
  <2>1. put.open_node_count + 1 \in Int
    BY <1>6 DEF Builder
  <2> QED
    BY <1>6, <2>1, Counted
<1> HIDE DEF after
<1> DEFINE n == Len(data)
           m == Len(cells)
<1>m. n \in 1 .. 32 /\ m = n + 1 /\ m \in Nat /\ l \in Nat
  <2> HIDE DEF m
  <2>1. n \in 1 .. 32
    BY <1>3
  <2>2. m = 1 + n
    BY <1>7 DEF m
  <2> HIDE DEF n
  <2> QED
    BY <1>1, <2>1, <2>2
<1>9. StringsApart(after)
  BY <1>1, <1>5, <1>6, <1>8 DEF StringsApart
<1>10. /\ Len(after.tab) = l + m
       /\ after.tab[l + 1] = Number(FDT_BEGIN_NODE) /\ after.tab[l + 2] = <<texts, 1>>
       /\ (l + 1) + 1 = l + 2
  <2>1. cells[1] = Number(FDT_BEGIN_NODE) /\ cells[2] = data[1]
    <3> DEFINE one == <<Number(FDT_BEGIN_NODE)>>
    <3>1. one \in Seq(Cell) /\ Len(one) = 1 /\ one[1] = Number(FDT_BEGIN_NODE)
      BY <1>4
    <3>2. 1 \in 1 .. n
      <4> HIDE DEF n
      <4> QED
        BY <1>m
    <3> HIDE DEF one
    <3>3. (one \o data)[1] = one[1] /\ (one \o data)[2] = data[1]
      BY <1>3, <3>1, <3>2, AfterOne
    <3> QED
      BY <3>1, <3>3 DEF one
  <2> HIDE DEF cells
  <2>2. /\ Len(put.tab) = l + m
        /\ \A i \in 1 .. m : put.tab[l + i] = cells[i]
    <3> DEFINE tab == st.tab
               both == put.tab
    <3>1. tab \in Seq(Cell) /\ cells \in Seq(Cell) /\ both = tab \o cells
      BY <1>1, <1>7
    <3>2. l = Len(tab) /\ m = Len(cells)
      BY DEF l
    <3> HIDE DEF tab, both
    <3>3. /\ Len(tab \o cells) = Len(tab) + Len(cells)
          /\ \A i \in 1 .. Len(cells) : (tab \o cells)[Len(tab) + i] = cells[i]
      BY <3>1, Joined
    <3> QED
      BY <3>1, <3>2, <3>3 DEF both
  <2>3. 1 \in 1 .. m /\ 2 \in 1 .. m
    <3> HIDE DEF n, m
    <3> QED
      BY <1>m
  <2>4. (l + 1) + 1 = l + 2
    BY <1>m
  <2> QED
    BY <1>3, <1>7, <1>8, <2>1, <2>2, <2>3, <2>4 DEF l
<1> HIDE DEF cells, m, n
<1>11. Fits(after.tab, l + 1, 2)
  BY <1>m, <1>10 DEF Fits
<1>14. /\ Number(FDT_BEGIN_NODE) # Number(FDT_END_NODE)
       /\ Number(FDT_BEGIN_NODE) # Number(FDT_PROP)
  BY DEF Number, FDT_BEGIN_NODE, FDT_END_NODE, FDT_PROP
<1>12. TokenCells(after.tab, l + 1) = m
  <2> DEFINE pair == <<texts, 1>>
  <2>2. pair[1] = texts
    OBVIOUS
  <2>4. after.tab[(l + 1) + 1] = pair
    BY <1>10
  <2> HIDE DEF pair, texts
  <2>5. after.tab[l + 1] = Number(FDT_BEGIN_NODE)
    BY <1>10
  <2>1. TokenCells(after.tab, l + 1) = 1 + CellsFor(TextBytes(pair[1]))
    BY <1>11, <1>14, <2>4, <2>5 DEF TokenCells
  <2>3. n = CellsFor(TextBytes(texts))
    BY <1>3 DEF n
  <2> QED
    BY <1>m, <2>1, <2>2, <2>3
<1>13. Fits(after.tab, l + 1, m)
  BY <1>m, <1>10 DEF Fits
<1>15. TokenAt(after.tab, after.string_table, l + 1, path[k]) = token
  <2>1. <<texts, 1>>[1][1] = name
    OBVIOUS
  <2> DEFINE text == <<texts, 1>>[1][1]
  <2> HIDE DEF texts, text
  <2>2. after.tab[(l + 1) + 1][1][1] = name
    BY <1>10, <2>1 DEF text
  <2> QED
    BY <1>10, <1>11, <1>12, <1>13, <1>14, <2>2 DEF TokenAt
<1>16. /\ token \in Token /\ token.path = path[k + 1]
       /\ token.kind = "begin" /\ token.name = name
  BY <1>2 DEF token, Token, Said
<1> HIDE DEF token
<1>17. after.open_node_count = Len(path[k + 1])
  BY <1>1, <1>2, <1>5, <1>6, <1>8
<1>18. Built(after, k + 1, path, Append(told, token))
  <2>1. Len(cells) \in 1 .. MaxCells
    <3>1. m \in 1 .. MaxCells
      BY <1>m DEF MaxCells
    <3> QED
      BY <3>1 DEF m
  <2>2. /\ Len(after.tab) <= after.tab_size
        /\ after.string_table_len <= after.string_table_size
        /\ after.tab = st.tab \o cells /\ after.string_table = st.string_table
    BY <1>1, <1>5, <1>6, <1>7, <1>8
  <2>3. after.string_table_len <= st.string_table_len + MaxText + 1
    <3> DEFINE x == st.string_table_len
               y == after.string_table_len
    <3>1. x \in Nat /\ y = x
      BY <1>1, <1>5, <1>6, <1>8
    <3> HIDE DEF x, y
    <3>2. y <= x + MaxText + 1
      BY <3>1 DEF MaxText
    <3> QED
      BY <3>2 DEF x, y
  <2>4. /\ TokenCells(after.tab, Len(st.tab) + 1) = Len(cells)
        /\ TokenAt(after.tab, after.string_table, Len(st.tab) + 1, path[k]) = token
    BY <1>12, <1>15 DEF l, m
  <2>5. \A o : StringAt(st.string_table, o) \in Texts =>
                  StringAt(after.string_table, o) = StringAt(st.string_table, o)
    BY <2>2
  <2> QED
    BY <1>7, <1>8, <1>9, <1>16, <1>17, <2>1, <2>2, <2>3, <2>4, <2>5, BuiltOn
<1>19. fdt_begin_node(st, name) = after
  BY DEF fdt_begin_node, after, put, begun, data
<1>20. SaysMove(token, path[k])
  BY <1>16 DEF SaysMove
<1>21. token = Begun(name, path[k])
  BY DEF token, Begun
<1> QED
  BY <1>16, <1>18, <1>19, <1>20, <1>21

\* fdt_end_node adds a token that closes the node that was opened last.
LEMMA EndBuilds ==
  ASSUME NEW st, NEW k \in Nat, NEW path, NEW told, Built(st, k, path, told),
         path[k] # <<>>, path[k + 1] = Front(path[k])
  PROVE  LET token == Ended(path[k])
         IN  /\ token \in Token /\ SaysMove(token, path[k])
             /\ Built(fdt_end_node(st), k + 1, path, Append(told, token))
<1> DEFINE put == fdt_put32(st, FDT_END_NODE)
           after == [put EXCEPT !.open_node_count = @ - 1]
           cells == <<Number(FDT_END_NODE)>>
           l == Len(st.tab)
           token == Said("end", "", <<>>, Front(path[k]))
<1>1. /\ st \in Builder /\ st.tab \in Seq(Cell) /\ l \in Nat /\ StringsApart(st)
      /\ st.string_table_len <= st.string_table_size /\ st.string_table_len \in Nat
      /\ st.open_node_count = Len(path[k])
  BY DEF Built, Builder
<1>2. path[k] \in Seq(Texts)
  BY DEF Built, ReadsAs
<1>3. cells \in Seq(Cell) /\ Len(cells) = 1 /\ cells[1] = Number(FDT_END_NODE)
  <2>1. Number(FDT_END_NODE) \in Cell
    BY DEF Number, Cell, FDT_END_NODE
  <2> QED
    BY <2>1
<1>4. /\ put \in Builder /\ put.tab = st.tab \o cells
      /\ Len(put.tab) <= put.tab_size
      /\ put.open_node_count = st.open_node_count
      /\ put.string_table = st.string_table
      /\ put.string_table_len = st.string_table_len
      /\ put.string_table_size = st.string_table_size
  <2>1. FDT_END_NODE \in Int
    BY DEF FDT_END_NODE
  <2> QED
    BY <1>1, <2>1, PutOne
<1> HIDE DEF put, l
<1>5. /\ after \in Builder /\ after.tab = put.tab /\ after.tab_size = put.tab_size
      /\ after.string_table = put.string_table /\ after.string_table_len = put.string_table_len
      /\ after.string_table_size = put.string_table_size
      /\ after.open_node_count = put.open_node_count - 1
  <2> DEFINE n == put.open_node_count - 1
  <2>1. n \in Int
    BY <1>4 DEF Builder
  <2>2. after = [put EXCEPT !.open_node_count = n]
    BY <1>4 DEF Builder
  <2> HIDE DEF n
  <2>3. LET done == [put EXCEPT !.open_node_count = n]
        IN  /\ done \in Builder /\ done.tab = put.tab /\ done.tab_size = put.tab_size
            /\ done.string_table = put.string_table
            /\ done.string_table_len = put.string_table_len
            /\ done.string_table_size = put.string_table_size
            /\ done.open_node_count = n
    BY <1>4, <2>1, Counted
  <2> QED
    BY <2>2, <2>3 DEF n
<1> HIDE DEF after, cells
<1>6. StringsApart(after)
  BY <1>1, <1>4, <1>5 DEF StringsApart
<1>7. Len(after.tab) = l + 1 /\ after.tab[l + 1] = Number(FDT_END_NODE)
  <2> DEFINE tab == st.tab
  <2>1. tab \in Seq(Cell) /\ after.tab = tab \o cells /\ l = Len(tab)
    BY <1>1, <1>4, <1>5 DEF l
  <2> HIDE DEF tab
  <2>2. Len(tab \o cells) = Len(tab) + 1 /\ (tab \o cells)[Len(tab) + 1] = cells[1]
    BY <1>3, <2>1, OneMore
  <2> QED
    BY <1>3, <2>1, <2>2
<1>8. /\ Number(FDT_END_NODE) # Number(FDT_BEGIN_NODE)
      /\ Number(FDT_END_NODE) # Number(FDT_PROP)
  BY DEF Number, FDT_BEGIN_NODE, FDT_END_NODE, FDT_PROP
<1>9. TokenCells(after.tab, l + 1) = 1
  BY <1>7, <1>8 DEF TokenCells
<1>10. Fits(after.tab, l + 1, 1)
  BY <1>1, <1>7 DEF Fits
<1>11. TokenAt(after.tab, after.string_table, l + 1, path[k]) = token
  BY <1>7, <1>8, <1>9, <1>10 DEF TokenAt
<1>12. Front(path[k]) \in Seq(Texts) /\ Len(Front(path[k])) = Len(path[k]) - 1
  BY <1>2 DEF Front
<1>13. "" \in Texts
  BY PlainTextsAreTexts DEF PlainTexts
<1>14. /\ token \in Token /\ token.path = path[k + 1] /\ token.kind = "end"
  <2> DEFINE rest == Front(path[k])
  <2>1. rest \in Seq(Texts) /\ rest = path[k + 1]
    BY <1>12
  <2> HIDE DEF rest
  <2>4. <<>> \in Seq(Cell)
    OBVIOUS
  <2>2. Said("end", "", <<>>, rest) \in Token
    BY <1>13, <2>1, <2>4 DEF Said, Token
  <2>3. token = Said("end", "", <<>>, rest)
    BY DEF token, rest
  <2> HIDE DEF token
  <2> QED
    BY <2>1, <2>2, <2>3 DEF Said
<1> HIDE DEF token
<1>15. after.open_node_count = Len(path[k + 1])
  BY <1>1, <1>4, <1>5, <1>12
<1>16. Built(after, k + 1, path, Append(told, token))
  <2>1. Len(cells) \in 1 .. MaxCells
    BY <1>3 DEF MaxCells
  <2>2. /\ Len(after.tab) <= after.tab_size
        /\ after.string_table_len <= after.string_table_size
        /\ after.string_table_len <= st.string_table_len + MaxText + 1
        /\ after.tab = st.tab \o cells /\ after.string_table = st.string_table
    BY <1>1, <1>4, <1>5 DEF MaxText
  <2> QED
    BY <1>3, <1>5, <1>6, <1>9, <1>11, <1>14, <1>15, <2>1, <2>2, BuiltOn DEF l
<1>17. fdt_end_node(st) = after
  BY DEF fdt_end_node, after, put
<1>18. SaysMove(token, path[k])
  BY <1>14 DEF SaysMove
<1>19. token = Ended(path[k])
  BY DEF token, Ended
<1> QED
  BY <1>14, <1>16, <1>17, <1>18, <1>19

\* A property is FDT_PROP, its length, its name and its cells, and the reader
\* finds the name.
LEMMA PropertyBuilds ==
  ASSUME NEW st, NEW k \in Nat, NEW path, NEW told, Built(st, k, path, told),
         NEW name \in Texts, path[k] # <<>>, path[k + 1] = path[k],
         NEW data \in Seq(Cell), NEW bytes \in Int, CellsFor(bytes) = Len(data), Len(data) <= 32
  PROVE  LET token == Property(name, data, path[k])
         IN  /\ token \in Token /\ SaysMove(token, path[k])
             /\ Built(PutProperty(st, name, bytes, data), k + 1, path, Append(told, token))
<1> DEFINE first == fdt_put32(st, FDT_PROP)
           head == fdt_put32(first, bytes)
           known == WithString(head, name)
           offset == fdt_get_string_offset(head, name)
           named == fdt_put32(known, offset)
           after == fdt_put_data(named, data)
           cells == ((<<Number(FDT_PROP)>> \o <<Number(bytes)>>) \o <<Number(offset)>>) \o data
           l == Len(st.tab)
           token == Property(name, data, path[k])
<1>1. /\ st \in Builder /\ st.tab \in Seq(Cell) /\ l \in Nat /\ StringsApart(st)
      /\ st.string_table_len <= st.string_table_size /\ st.string_table_len \in Nat
      /\ st.open_node_count = Len(path[k])
  BY DEF Built, Builder
<1>2. path[k] \in Seq(Texts)
  BY DEF Built, ReadsAs
<1>3. /\ first \in Builder /\ first.tab = st.tab \o <<Number(FDT_PROP)>>
      /\ first.open_node_count = st.open_node_count
      /\ first.string_table = st.string_table
      /\ first.string_table_len = st.string_table_len
      /\ first.string_table_size = st.string_table_size
  <2>1. FDT_PROP \in Int
    BY DEF FDT_PROP
  <2> QED
    BY <1>1, <2>1, PutOne
<1> HIDE DEF first
<1>4. /\ head \in Builder /\ head.tab = first.tab \o <<Number(bytes)>>
      /\ head.open_node_count = st.open_node_count
      /\ head.string_table = st.string_table
      /\ head.string_table_len = st.string_table_len
      /\ head.string_table_size = st.string_table_size
  BY <1>3, PutOne
<1>5. fdt_get_string_offset(st, name) = offset
  <2> HIDE DEF head
  <2> QED
    BY <1>4 DEF fdt_get_string_offset, Known
<1> HIDE DEF head
<1>6. StringsApart(head)
  BY <1>1, <1>4 DEF StringsApart
<1>7. /\ known \in Builder /\ StringsApart(known)
      /\ known.tab = head.tab /\ known.tab_size = head.tab_size
      /\ known.open_node_count = st.open_node_count
      /\ known.string_table_len <= known.string_table_size
      /\ known.string_table_len \in st.string_table_len .. st.string_table_len + MaxText + 1
      /\ offset \in Nat
      /\ StringAt(known.string_table, offset) = name
      /\ \A o : StringAt(st.string_table, o) \in Texts =>
                  StringAt(known.string_table, o) = StringAt(st.string_table, o)
  <2>1. head.string_table_len <= head.string_table_size
    BY <1>1, <1>4
  <2>2. LET later == WithString(head, name)
            at    == fdt_get_string_offset(head, name)
        IN  /\ later \in Builder
            /\ StringsApart(later)
            /\ later.tab = head.tab /\ later.tab_size = head.tab_size
            /\ later.open_node_count = head.open_node_count
            /\ later.string_table_len <= later.string_table_size
            /\ later.string_table_len \in head.string_table_len ..
                                            head.string_table_len + MaxText + 1
            /\ at \in Nat
            /\ StringAt(later.string_table, at) = name
            /\ \A o : StringAt(head.string_table, o) \in Texts =>
                         StringAt(later.string_table, o) = StringAt(head.string_table, o)
    BY <1>4, <1>6, <2>1, StringKept
  <2> QED
    BY <1>4, <2>2
<1> HIDE DEF known, offset
<1>8. /\ named \in Builder /\ named.tab = known.tab \o <<Number(offset)>>
      /\ named.open_node_count = known.open_node_count
      /\ named.string_table = known.string_table
      /\ named.string_table_len = known.string_table_len
      /\ named.string_table_size = known.string_table_size
  <2>1. offset \in Int /\ known \in Builder
    BY <1>7
  <2> QED
    BY <2>1, PutOne
<1> HIDE DEF named
<1>9. /\ after \in Builder /\ after.tab = named.tab \o data
      /\ Len(after.tab) <= after.tab_size
      /\ after.open_node_count = named.open_node_count
      /\ after.string_table = named.string_table
      /\ after.string_table_len = named.string_table_len
      /\ after.string_table_size = named.string_table_size
  BY <1>8, PutData
<1> HIDE DEF after
<1>10. Number(FDT_PROP) \in Cell /\ Number(bytes) \in Cell /\ Number(offset) \in Cell
  BY <1>7 DEF Number, Cell, FDT_PROP
<1> DEFINE a == Number(FDT_PROP)
           b == Number(bytes)
           c == Number(offset)
<1>11. /\ cells \in Seq(Cell) /\ Len(cells) = 3 + Len(data) /\ Len(data) \in Nat
       /\ cells[1] = a /\ cells[2] = b /\ cells[3] = c
       /\ \A i \in 1 .. Len(data) : cells[3 + i] = data[i]
       /\ after.tab = st.tab \o cells
  <2> DEFINE tab == st.tab
             one == <<a>>
             two == <<b>>
             three == <<c>>
  <2>1. one \in OneCell /\ two \in OneCell /\ three \in OneCell
    BY <1>10 DEF OneCell
  <2>7. one[1] = a /\ two[1] = b /\ three[1] = c
    OBVIOUS
  <2>2. after.tab = (((tab \o one) \o two) \o three) \o data
    BY <1>3, <1>4, <1>7, <1>8, <1>9
  <2>3. tab \in Seq(Cell)
    BY <1>1
  <2>4. cells = ((one \o two) \o three) \o data
    OBVIOUS
  <2>5. Len(data) \in Nat
    OBVIOUS
  <2> HIDE DEF tab, one, two, three, cells
  <2>6. Follow(tab, one, two, three, data)
    BY <2>1, <2>3, AfterThree
  <2> HIDE DEF a, b, c
  <2> QED
    BY <2>2, <2>4, <2>5, <2>6, <2>7 DEF tab, Follow
<1> DEFINE n == Len(data)
           m == Len(cells)
<1>m. n \in 0 .. 32 /\ m = 3 + n /\ m \in 3 .. 35 /\ l \in Nat
  <2> HIDE DEF m
  <2>1. n \in Nat /\ n <= 32
    OBVIOUS
  <2>2. m = 3 + n
    BY <1>11 DEF m
  <2> HIDE DEF n
  <2> QED
    BY <1>1, <2>1, <2>2
<1>12. /\ Len(after.tab) = l + m
       /\ after.tab[l + 1] = a /\ after.tab[l + 2] = b /\ after.tab[l + 3] = c
  <2> DEFINE tab == st.tab
  <2>1. 1 \in 1 .. m /\ 2 \in 1 .. m /\ 3 \in 1 .. m
    <3> HIDE DEF m
    <3> QED
      BY <1>m
  <2>2. tab \in Seq(Cell) /\ l = Len(tab) /\ after.tab = tab \o cells
    BY <1>1, <1>11 DEF l
  <2> HIDE DEF cells, a, b, c, tab
  <2>3. /\ \A i \in 1 .. Len(cells) : (tab \o cells)[Len(tab) + i] = cells[i]
        /\ Len(tab \o cells) = Len(tab) + Len(cells)
    BY <1>11, <2>2, Joined
  <2> QED
    BY <1>11, <2>1, <2>2, <2>3 DEF m
<1>13. b[2] = bytes /\ c[2] = offset /\ a = Number(FDT_PROP) /\ a # Number(FDT_BEGIN_NODE)
       /\ a # Number(FDT_END_NODE)
  BY DEF Number, FDT_BEGIN_NODE, FDT_END_NODE, FDT_PROP
<1> HIDE DEF cells, a, b, c, l, m
<1>14. /\ Fits(after.tab, l + 1, 3) /\ Fits(after.tab, l + 1, m)
       /\ (l + 1) + 1 = l + 2 /\ (l + 1) + 2 = l + 3 /\ (l + 1) + 3 = l + 4
       /\ (l + 1) + m - 1 = l + 3 + n
  <2> HIDE DEF n
  <2> QED
    BY <1>m, <1>12 DEF Fits
<1>15. TokenCells(after.tab, l + 1) = m
  <2>1. TokenCells(after.tab, l + 1) = 3 + CellsFor(bytes)
    BY <1>12, <1>13, <1>14 DEF TokenCells
  <2>2. CellsFor(bytes) = n
    OBVIOUS
  <2> HIDE DEF n
  <2> QED
    BY <1>m, <2>1, <2>2
<1>16. SubSeq(after.tab, l + 4, l + 3 + n) = data
  <2>1. st.tab \in Seq(Cell) /\ l = Len(st.tab) /\ after.tab = st.tab \o cells
    BY <1>1, <1>11 DEF l
  <2>2. \A i \in 1 .. n : cells[3 + i] = data[i]
    BY <1>11
  <2>3. cells \in Seq(Cell) /\ Len(cells) = 3 + n
    BY <1>11
  <2> HIDE DEF n
  <2>4. data \in Seq(Cell) /\ Len(data) = n
    BY DEF n
  <2> DEFINE tab == st.tab
  <2>5. tab \in Seq(Cell) /\ l = Len(tab) /\ after.tab = tab \o cells /\ n \in Nat /\ l \in Nat
    BY <1>m, <2>1
  <2> HIDE DEF tab
  <2>6. SubSeq(tab \o cells, l + 4, l + 3 + n) = data
    BY <2>2, <2>3, <2>4, <2>5, LastPart, SMTT(30)
  <2> QED
    BY <2>5, <2>6
<1>17. TokenAt(after.tab, after.string_table, l + 1, path[k]) = token
  <2>1. (l + 1) + 3 = l + 4 /\ (l + 1) + m - 1 = l + 3 + n
    BY <1>14
  <2>2. StringAt(after.string_table, after.tab[(l + 1) + 2][2]) = name
    BY <1>7, <1>8, <1>9, <1>12, <1>13, <1>14
  <2>3. token = Said("prop", name, SubSeq(after.tab, l + 4, l + 3 + n), path[k])
    BY <1>16 DEF Property
  <2> HIDE DEF token, n
  <2> QED
    BY <1>12, <1>13, <1>14, <1>15, <2>1, <2>2, <2>3 DEF TokenAt
<1>19. /\ token \in Token /\ token.path = path[k + 1] /\ token.kind = "prop"
  BY <1>2 DEF token, Token, Property, Said
<1> HIDE DEF token
<1>20. after.open_node_count = Len(path[k + 1])
  BY <1>1, <1>7, <1>8, <1>9
<1>21. StringsApart(after)
  BY <1>7, <1>8, <1>9 DEF StringsApart
<1>22. Built(after, k + 1, path, Append(told, token))
  <2>1. Len(cells) \in 1 .. MaxCells
    <3>1. m \in 1 .. MaxCells
      BY <1>m DEF MaxCells
    <3> QED
      BY <3>1 DEF m
  <2>2. /\ Len(after.tab) <= after.tab_size
        /\ after.string_table_len <= after.string_table_size
        /\ after.tab = st.tab \o cells /\ after.string_table = known.string_table
    BY <1>7, <1>8, <1>9, <1>11
  <2>3. after.string_table_len <= st.string_table_len + MaxText + 1
    <3> DEFINE x == st.string_table_len
               y == after.string_table_len
    <3>1. x \in Nat /\ y \in x .. x + MaxText + 1
      BY <1>1, <1>7, <1>8, <1>9
    <3> HIDE DEF x, y
    <3>2. y <= x + MaxText + 1
      BY <3>1 DEF MaxText
    <3> QED
      BY <3>2 DEF x, y
  <2>4. /\ TokenCells(after.tab, Len(st.tab) + 1) = Len(cells)
        /\ TokenAt(after.tab, after.string_table, Len(st.tab) + 1, path[k]) = token
    BY <1>15, <1>17 DEF l, m
  <2>5. \A o : StringAt(st.string_table, o) \in Texts =>
                  StringAt(after.string_table, o) = StringAt(st.string_table, o)
    BY <1>7, <2>2
  <2> QED
    BY <1>9, <1>11, <1>19, <1>20, <1>21, <2>1, <2>2, <2>3, <2>4, <2>5, BuiltOn
<1>23. PutProperty(st, name, bytes, data) = after
  BY <1>5 DEF PutProperty, after, named, known, head, first
<1>24. SaysMove(token, path[k])
  BY <1>19 DEF SaysMove
<1>25. token = Property(name, data, path[k])
  BY DEF token
<1> QED
  BY <1>19, <1>22, <1>23, <1>24, <1>25

\* Every call adds the token it stands for.
LEMMA CallBuilds ==
  ASSUME NEW st, NEW k \in Nat, NEW path, NEW told, Built(st, k, path, told),
         NEW call \in ACall, Moves(call, path[k], path[k + 1])
  PROVE  LET token == Meant(call, path[k])
         IN  /\ token \in Token /\ SaysMove(token, path[k])
             /\ Built(Performed(st, call), k + 1, path, Append(told, token))
<1>1. call.name \in Texts
  BY DEF ACall
<1>2. CASE call.does = "begin" /\ path[k + 1] = Append(path[k], call.name)
  <2>1. /\ Performed(st, call) = fdt_begin_node(st, call.name)
        /\ Meant(call, path[k]) = Begun(call.name, path[k])
    BY <1>2 DEF Performed, Meant
  <2> QED
    BY <1>1, <1>2, <2>1, BeginBuilds
<1>3. CASE call.does = "end" /\ path[k] # <<>> /\ path[k + 1] = Front(path[k])
  <2>1. Performed(st, call) = fdt_end_node(st) /\ Meant(call, path[k]) = Ended(path[k])
    BY <1>3 DEF Performed, Meant
  <2> QED
    BY <1>3, <2>1, EndBuilds
<1>4. CASE /\ call.does = "texts" /\ call.value \in Seq(Texts) /\ Len(call.value) <= 2
           /\ path[k] # <<>> /\ path[k + 1] = path[k]
  <2> DEFINE bytes == TextBytes(call.value)
             data == TextCells(call.value)
  <2>1. /\ Performed(st, call) = PutProperty(st, call.name, bytes, data)
        /\ Meant(call, path[k]) = Property(call.name, data, path[k])
    BY <1>4 DEF Performed, fdt_prop, Meant
  <2>2. bytes \in Int /\ data \in Seq(Cell) /\ CellsFor(bytes) = Len(data) /\ Len(data) <= 32
    <3>1. bytes \in 0 .. 2 * (MaxText + 1)
      BY <1>4, TextCellsOf
    <3>2. data \in Seq(Cell) /\ Len(data) = CellsFor(bytes) /\ CellsFor(bytes) \in 0 .. 32
      BY <1>4, TextCellsOf
    <3> DEFINE n == CellsFor(bytes)
    <3>3. n \in 0 .. 32 => n <= 32
      OBVIOUS
    <3>4. bytes \in Int
      <4> HIDE DEF bytes
      <4> QED
        BY <3>1 DEF MaxText
    <3> HIDE DEF bytes, data
    <3> QED
      BY <3>2, <3>3, <3>4
  <2> HIDE DEF bytes, data
  <2> QED
    BY <1>1, <1>4, <2>1, <2>2, PropertyBuilds
<1>5. CASE /\ call.does = "cells" /\ call.value \in Seq(Cell) /\ Len(call.value) <= 4
           /\ path[k] # <<>> /\ path[k + 1] = path[k]
  <2> DEFINE data == call.value
             n == Len(data)
             bytes == WORD_SIZE * n
  <2>1. /\ Performed(st, call) = PutProperty(st, call.name, bytes, data)
        /\ Meant(call, path[k]) = Property(call.name, data, path[k])
    BY <1>5 DEF Performed, fdt_prop_tab_u32, Meant
  <2>2. data \in Seq(Cell) /\ n \in Nat /\ n <= 4
    BY <1>5
  <2>3. bytes \in Int /\ CellsFor(bytes) = n /\ Len(data) <= 32
    <3>1. n <= 32
      <4> HIDE DEF n
      <4> QED
        BY <2>2
    <3>2. bytes \in Int /\ CellsFor(bytes) = n
      <4> HIDE DEF n
      <4> QED
        BY <2>2 DEF CellsFor, WORD_SIZE
    <3> QED
      BY <3>1, <3>2
  <2> HIDE DEF bytes, data
  <2> QED
    BY <1>1, <1>5, <2>1, <2>2, <2>3, PropertyBuilds DEF data
<1> QED
  BY <1>2, <1>3, <1>4, <1>5 DEF Moves

-----------------------------------------------------------------------------
\* The tokens that calls stand for on their way through these open nodes.
Written(calls, path) == {Meant(calls[k], path[k - 1]) : k \in 1 .. Len(calls)}

\* A sequence of at most n calls leads from the open nodes p to the open nodes q,
\* there is always a node open in between, and the calls write these tokens.
Runs(calls, n, p, q, tokens) ==
  /\ calls \in Seq(ACall) /\ n \in Nat /\ Len(calls) <= n
  /\ \E path :
       /\ path[0] = p /\ path[Len(calls)] = q
       /\ \A k \in 1 .. Len(calls) : Moves(calls[k], path[k - 1], path[k])
       /\ \A k \in 1 .. Len(calls) - 1 : path[k] # <<>>
       /\ Written(calls, path) = tokens

\* Calls after calls.
LEMMA RunsThen ==
  ASSUME NEW a, NEW b, NEW few, NEW more, NEW p, NEW q, NEW r, NEW P, NEW Q,
         Runs(a, few, p, q, P), Runs(b, more, q, r, Q), q # <<>>
  PROVE  Runs(a \o b, few + more, p, r, P \cup Q)
<1>1. /\ a \in Seq(ACall) /\ b \in Seq(ACall)
      /\ few \in Nat /\ more \in Nat /\ Len(a) <= few /\ Len(b) <= more
  BY DEF Runs
<1> DEFINE m == Len(a)
           n == Len(b)
           both == a \o b
<1>2. PICK one : /\ one[0] = p /\ one[m] = q
                 /\ \A k \in 1 .. m : Moves(a[k], one[k - 1], one[k])
                 /\ \A k \in 1 .. m - 1 : one[k] # <<>>
                 /\ P = {Meant(a[k], one[k - 1]) : k \in 1 .. m}
  BY DEF Runs, Written
<1>3. PICK two : /\ two[0] = q /\ two[n] = r
                 /\ \A k \in 1 .. n : Moves(b[k], two[k - 1], two[k])
                 /\ \A k \in 1 .. n - 1 : two[k] # <<>>
                 /\ Q = {Meant(b[k], two[k - 1]) : k \in 1 .. n}
  BY DEF Runs, Written
<1> DEFINE path == [k \in 0 .. m + n |-> IF k <= m THEN one[k] ELSE two[k - m]]
<1>4. /\ both \in Seq(ACall) /\ m \in Nat /\ n \in Nat /\ Len(both) = m + n
      /\ \A k \in 1 .. m : both[k] = a[k]
      /\ \A k \in 1 .. n : both[m + k] = b[k]
  BY <1>1
<1> HIDE DEF m, n, both
<1>5. /\ \A k \in 0 .. m : path[k] = one[k]
      /\ \A k \in 0 .. n : path[m + k] = two[k]
  <2>1. \A k \in 0 .. m : path[k] = one[k]
    BY <1>4
  <2>2. ASSUME NEW k \in 0 .. n PROVE path[m + k] = two[k]
    <3>1. CASE k = 0
      <4>1. m + k = m
        BY <1>4, <3>1
      <4> QED
        BY <1>2, <1>3, <1>4, <2>1, <3>1, <4>1
    <3>2. CASE k # 0
      <4>1. m + k \in 0 .. m + n /\ ~(m + k <= m) /\ (m + k) - m = k
        BY <1>4, <3>2
      <4> QED
        BY <4>1
    <3> QED
      BY <3>1, <3>2
  <2> QED
    BY <2>1, <2>2
<1> HIDE DEF path
<1>6. path[0] = p /\ path[m + n] = r
  BY <1>2, <1>3, <1>4, <1>5
<1>7. ASSUME NEW k \in 1 .. m + n PROVE Moves(both[k], path[k - 1], path[k])
  <2>1. CASE k <= m
    <3>1. k \in 1 .. m /\ k \in 0 .. m /\ k - 1 \in 0 .. m
      BY <1>4, <2>1
    <3> QED
      BY <1>2, <1>4, <1>5, <3>1
  <2>2. CASE ~(k <= m)
    <3> DEFINE j == k - m
    <3>1. j \in 1 .. n /\ j \in 0 .. n /\ j - 1 \in 0 .. n /\ k = m + j /\ k - 1 = m + (j - 1)
      BY <1>4, <2>2
    <3> HIDE DEF j
    <3> QED
      BY <1>3, <1>4, <1>5, <3>1
  <2> QED
    BY <2>1, <2>2
<1>8. ASSUME NEW k \in 1 .. m + n - 1 PROVE path[k] # <<>>
  <2>1. CASE k < m
    <3>1. k \in 1 .. m - 1 /\ k \in 0 .. m
      BY <1>4, <2>1
    <3> QED
      BY <1>2, <1>5, <3>1
  <2>2. CASE k = m
    <3>1. m \in 0 .. m
      BY <1>4
    <3> QED
      BY <1>2, <1>5, <2>2, <3>1
  <2>3. CASE k > m
    <3> DEFINE j == k - m
    <3>1. j \in 1 .. n - 1 /\ j \in 0 .. n /\ k = m + j
      BY <1>4, <2>3
    <3> HIDE DEF j
    <3> QED
      BY <1>3, <1>5, <3>1
  <2> QED
    BY <1>4, <2>1, <2>2, <2>3
<1>9. few + more \in Nat /\ m + n <= few + more
  <2>1. few \in Nat /\ more \in Nat /\ m <= few /\ n <= more
    BY <1>1 DEF m, n
  <2> QED
    BY <1>4, <2>1
<1>10. Len(both) = m + n /\ both \in Seq(ACall)
  BY <1>4
<1>11. \E walk : /\ walk[0] = p /\ walk[Len(both)] = r
                 /\ \A k \in 1 .. Len(both) : Moves(both[k], walk[k - 1], walk[k])
                 /\ \A k \in 1 .. Len(both) - 1 : walk[k] # <<>>
                 /\ Written(both, walk) = P \cup Q
  <2>1. path[0] = p /\ path[Len(both)] = r
    BY <1>6, <1>10
  <2>2. \A k \in 1 .. Len(both) : Moves(both[k], path[k - 1], path[k])
    BY <1>7, <1>10
  <2>3. \A k \in 1 .. Len(both) - 1 : path[k] # <<>>
    <3>1. \A k \in 1 .. m + n - 1 : path[k] # <<>>
      BY <1>8
    <3> DEFINE l == Len(both)
    <3>2. l = m + n
      BY <1>10
    <3> HIDE DEF l
    <3>3. l - 1 = m + n - 1
      BY <1>4, <3>2
    <3> QED
      BY <3>1, <3>3 DEF l
  <2>4. Written(both, path) = P \cup Q
    <3>1. ASSUME NEW k \in 1 .. m
          PROVE  Meant(both[k], path[k - 1]) = Meant(a[k], one[k - 1])
      <4>1. k - 1 \in 0 .. m
        BY <1>4
      <4> QED
        BY <1>4, <1>5, <4>1
    <3>2. ASSUME NEW k \in 1 .. n
          PROVE  Meant(both[m + k], path[(m + k) - 1]) = Meant(b[k], two[k - 1])
      <4>1. k - 1 \in 0 .. n /\ (m + k) - 1 = m + (k - 1)
        BY <1>4
      <4> QED
        BY <1>4, <1>5, <4>1
    <3>3. /\ 1 .. m \subseteq 1 .. m + n /\ \A k \in 1 .. n : m + k \in 1 .. m + n
          /\ \A k \in 1 .. m + n : k \in 1 .. m \/ (k - m \in 1 .. n /\ k = m + (k - m))
      BY <1>4
    <3> DEFINE all == {Meant(both[k], path[k - 1]) : k \in 1 .. m + n}
    <3>4. P \subseteq all
      BY <1>2, <3>1, <3>3
    <3>5. Q \subseteq all
      <4> SUFFICES ASSUME NEW k \in 1 .. n PROVE Meant(b[k], two[k - 1]) \in all
        BY <1>3
      <4> QED
        BY <3>2, <3>3
    <3>6. all \subseteq P \cup Q
      <4> SUFFICES ASSUME NEW k \in 1 .. m + n PROVE Meant(both[k], path[k - 1]) \in P \cup Q
        OBVIOUS
      <4>1. CASE k \in 1 .. m
        BY <1>2, <3>1, <4>1
      <4>2. CASE k - m \in 1 .. n /\ k = m + (k - m)
        <5> PICK j \in 1 .. n : k = m + j
          BY <4>2
        <5> QED
          BY <1>3, <3>2
      <4> QED
        BY <3>3, <4>1, <4>2
    <3>7. Written(both, path) = all
      BY <1>10 DEF Written
    <3> QED
      BY <3>4, <3>5, <3>6, <3>7
  <2> QED
    BY <2>1, <2>2, <2>3, <2>4
<1>12. Runs(both, few + more, p, r, P \cup Q)
  BY <1>9, <1>10, <1>11 DEF Runs
<1> QED
  BY <1>12 DEF both

\* One call.
LEMMA RunsOne ==
  ASSUME NEW call \in ACall, NEW p, NEW q, Moves(call, p, q)
  PROVE  Runs(<<call>>, 1, p, q, {Meant(call, p)})
<1> DEFINE path == [k \in 0 .. 1 |-> IF k = 0 THEN p ELSE q]
           calls == <<call>>
<1>1. calls \in Seq(ACall) /\ Len(calls) = 1 /\ calls[1] = call
  OBVIOUS
<1>2. path[0] = p /\ path[1] = q
  OBVIOUS
<1> HIDE DEF path, calls
<1>3. \E walk : /\ walk[0] = p /\ walk[Len(calls)] = q
                /\ \A k \in 1 .. Len(calls) : Moves(calls[k], walk[k - 1], walk[k])
                /\ \A k \in 1 .. Len(calls) - 1 : walk[k] # <<>>
                /\ Written(calls, walk) = {Meant(call, p)}
  <2>1. path[0] = p /\ path[Len(calls)] = q
    BY <1>1, <1>2
  <2>2. \A k \in 1 .. Len(calls) : k = 1 /\ k - 1 = 0
    BY <1>1
  <2>3. \A k \in 1 .. Len(calls) : Moves(calls[k], path[k - 1], path[k])
    BY <1>1, <1>2, <2>2
  <2>4. \A k \in 1 .. Len(calls) - 1 : path[k] # <<>>
    BY <1>1
  <2>5. Written(calls, path) = {Meant(call, p)}
    <3>1. 1 \in 1 .. Len(calls) /\ 1 - 1 = 0
      BY <1>1
    <3> QED
      BY <1>1, <1>2, <2>2, <3>1 DEF Written
  <2> QED
    BY <2>1, <2>3, <2>4, <2>5
<1>4. Runs(calls, 1, p, q, {Meant(call, p)})
  <2>1. 1 \in Nat /\ Len(calls) <= 1
    BY <1>1
  <2> QED
    BY <1>1, <1>3, <2>1 DEF Runs
<1> QED
  BY <1>4 DEF calls

\* begin_node opens a node.
LEMMA RunsBegin ==
  ASSUME NEW name \in Texts, NEW p
  PROVE  Runs(begin_node(name), 1, p, Append(p, name), {Begun(name, p)})
<1> DEFINE call == Call("begin", name, <<>>)
<1>1. call \in ACall
  <2>1. <<>> \in Seq(Cell)
    OBVIOUS
  <2> QED
    BY <2>1 DEF Call, ACall
<1>2. Moves(call, p, Append(p, name)) /\ Meant(call, p) = Begun(name, p)
  BY DEF Call, Moves, Meant
<1> HIDE DEF call
<1>3. Runs(<<call>>, 1, p, Append(p, name), {Begun(name, p)})
  BY <1>1, <1>2, RunsOne
<1> QED
  BY <1>3 DEF begin_node, call

\* A node that is open below others is none of the empty path.
LEMMA Opened ==
  ASSUME NEW p \in Seq(Texts), NEW name \in Texts
  PROVE  /\ Append(p, name) \in Seq(Texts) /\ Append(p, name) # <<>>
         /\ Front(Append(p, name)) = p
<1>1. Append(p, name) \in Seq(Texts) /\ Append(p, name) # <<>>
  OBVIOUS
<1>2. SubSeq(Append(p, name), 1, Len(Append(p, name)) - 1) = p
  OBVIOUS
<1> QED
  BY <1>1, <1>2 DEF Front

\* end_node closes the node that was opened last.
LEMMA RunsEnd ==
  ASSUME NEW name \in Texts, NEW p \in Seq(Texts)
  PROVE  Runs(end_node, 1, Append(p, name), p, {Ended(Append(p, name))})
<1> DEFINE call == Call("end", "", <<>>)
           q == Append(p, name)
<1>1. call \in ACall
  <2>1. "" \in Texts
    BY PlainTextsAreTexts DEF PlainTexts
  <2>2. <<>> \in Seq(Cell)
    OBVIOUS
  <2> QED
    BY <2>1, <2>2 DEF Call, ACall
<1>2. q # <<>> /\ Front(q) = p
  BY Opened
<1> HIDE DEF q
<1>3. Moves(call, q, p) /\ Meant(call, q) = Ended(q)
  BY <1>2 DEF Call, Moves, Meant
<1> HIDE DEF call
<1>4. Runs(<<call>>, 1, q, p, {Ended(q)})
  BY <1>1, <1>3, RunsOne
<1> QED
  BY <1>4 DEF end_node, call, q

\* A property with texts.
LEMMA RunsTexts ==
  ASSUME NEW name \in Texts, NEW texts \in Seq(Texts), Len(texts) <= 2,
         NEW p, p # <<>>
  PROVE  Runs(prop_tab_str(name, texts), 1, p, p, {Property(name, TextCells(texts), p)})
<1> DEFINE call == Call("texts", name, texts)
<1>1. call \in ACall
  BY DEF Call, ACall
<1>2. Moves(call, p, p) /\ Meant(call, p) = Property(name, TextCells(texts), p)
  BY DEF Call, Moves, Meant
<1> HIDE DEF call
<1>3. Runs(<<call>>, 1, p, p, {Property(name, TextCells(texts), p)})
  BY <1>1, <1>2, RunsOne
<1> QED
  BY <1>3 DEF prop_tab_str, call

\* A property with cells.
LEMMA RunsCells ==
  ASSUME NEW name \in Texts, NEW cells \in Seq(Cell), Len(cells) <= 4,
         NEW p, p # <<>>
  PROVE  Runs(prop_tab_u32(name, cells), 1, p, p, {Property(name, cells, p)})
<1> DEFINE call == Call("cells", name, cells)
<1>1. call \in ACall
  BY DEF Call, ACall
<1>2. Moves(call, p, p) /\ Meant(call, p) = Property(name, cells, p)
  BY DEF Call, Moves, Meant
<1> HIDE DEF call
<1>3. Runs(<<call>>, 1, p, p, {Property(name, cells, p)})
  BY <1>1, <1>2, RunsOne
<1> QED
  BY <1>3 DEF prop_tab_u32, call

\* What the forms of a property say.
OneNumber(n)      == <<Number(n)>>
OneText(text)     == TextCells(<<text>>)
NoText            == TextCells(<<>>)
LongNumbers(v, w) == <<Number(0), v, Number(0), w>>

\* The forms with one number, one text, none and two long numbers.
LEMMA RunsForms ==
  ASSUME NEW name \in Texts, NEW p, p # <<>>
  PROVE  /\ \A n \in Int : Runs(prop_u32(name, n), 1, p, p, {Property(name, OneNumber(n), p)})
         /\ \A text \in Texts :
              Runs(prop_str(name, text), 1, p, p, {Property(name, OneText(text), p)})
         /\ Runs(prop_empty(name), 1, p, p, {Property(name, NoText, p)})
         /\ \A v, w \in Cell :
              Runs(prop_tab_u64_2(name, v, w), 1, p, p, {Property(name, LongNumbers(v, w), p)})
<1>1. ASSUME NEW n \in Int
      PROVE  Runs(prop_u32(name, n), 1, p, p, {Property(name, OneNumber(n), p)})
  <2> DEFINE cells == <<Number(n)>>
  <2>1. Number(n) \in Cell
    BY DEF Number, Cell
  <2>2. cells \in Seq(Cell) /\ Len(cells) <= 4
    BY <2>1
  <2> HIDE DEF cells
  <2>3. Runs(prop_tab_u32(name, cells), 1, p, p, {Property(name, cells, p)})
    BY <2>2, RunsCells
  <2> QED
    BY <2>3 DEF prop_u32, cells, OneNumber
<1>2. ASSUME NEW text \in Texts
      PROVE  Runs(prop_str(name, text), 1, p, p, {Property(name, OneText(text), p)})
  <2> DEFINE texts == <<text>>
  <2>1. texts \in Seq(Texts) /\ Len(texts) <= 2
    OBVIOUS
  <2> HIDE DEF texts
  <2>2. Runs(prop_tab_str(name, texts), 1, p, p, {Property(name, TextCells(texts), p)})
    BY <2>1, RunsTexts
  <2> QED
    BY <2>2 DEF prop_str, texts, OneText
<1>3. Runs(prop_empty(name), 1, p, p, {Property(name, NoText, p)})
  <2> DEFINE texts == <<>>
  <2>1. texts \in Seq(Texts) /\ Len(texts) <= 2
    OBVIOUS
  <2> HIDE DEF texts
  <2>2. Runs(prop_tab_str(name, texts), 1, p, p, {Property(name, TextCells(texts), p)})
    BY <2>1, RunsTexts
  <2> QED
    BY <2>2 DEF prop_empty, texts, NoText
<1>4. ASSUME NEW v \in Cell, NEW w \in Cell
      PROVE  Runs(prop_tab_u64_2(name, v, w), 1, p, p, {Property(name, LongNumbers(v, w), p)})
  <2> DEFINE z == Number(0)
             cells == <<z, v, z, w>>
  <2>1. z \in Cell
    BY DEF Number, Cell
  <2> HIDE DEF z
  <2>2. cells \in Seq(Cell) /\ Len(cells) <= 4
    BY <2>1
  <2> HIDE DEF cells
  <2>3. Runs(prop_tab_u32(name, cells), 1, p, p, {Property(name, cells, p)})
    BY <2>2, RunsCells
  <2> QED
    BY <2>3 DEF prop_tab_u64_2, z, cells, LongNumbers
<1> QED
  BY <1>1, <1>2, <1>3, <1>4

NodeName(name, word) == name \o "@" \o Hex(word)

\* What the reader is told of the interrupt controller of the hart, inside the
\* nodes of p.
InterruptControllerTold(p) ==
  LET q == Append(p, "interrupt-controller")
  IN  { Begun("interrupt-controller", p), Property("#interrupt-cells", OneNumber(1), q),
        Property("interrupt-controller", NoText, q),
        Property("compatible", OneText("riscv,cpu-intc"), q),
        Property("phandle", OneNumber(intc_phandle), q), Ended(q) }

\* The calls for the interrupt controller of the hart, in its node.
LEMMA RunsInterruptController ==
  ASSUME NEW p \in Seq(Texts), p # <<>>
  PROVE  Runs(InterruptController, 6, p, p, InterruptControllerTold(p))
<1> DEFINE q == Append(p, "interrupt-controller")
           a == Begun("interrupt-controller", p)
           b == Property("#interrupt-cells", OneNumber(1), q)
           c == Property("interrupt-controller", NoText, q)
           d == Property("compatible", OneText("riscv,cpu-intc"), q)
           e == Property("phandle", OneNumber(intc_phandle), q)
           f == Ended(q)
<1>1. {"interrupt-controller", "#interrupt-cells", "compatible", "riscv,cpu-intc", "phandle"}
        \subseteq PlainTexts
  BY DEF PlainTexts
<1>2. /\ "interrupt-controller" \in Texts /\ "#interrupt-cells" \in Texts
      /\ "compatible" \in Texts /\ "riscv,cpu-intc" \in Texts /\ "phandle" \in Texts
  BY <1>1, PlainTextsAreTexts
<1>3. /\ Runs(begin_node("interrupt-controller"), 1, p, q, {a})
      /\ Runs(end_node, 1, q, p, {f}) /\ q # <<>>
  BY <1>2, RunsBegin, RunsEnd, Opened
<1>4. 1 \in Int /\ intc_phandle \in Int
  BY DEF intc_phandle
<1> HIDE DEF q
<1>5. /\ Runs(prop_u32("#interrupt-cells", 1), 1, q, q, {b})
      /\ Runs(prop_empty("interrupt-controller"), 1, q, q, {c})
      /\ Runs(prop_str("compatible", "riscv,cpu-intc"), 1, q, q, {d})
      /\ Runs(prop_u32("phandle", intc_phandle), 1, q, q, {e})
  BY <1>2, <1>3, <1>4, RunsForms, Zenon
<1> HIDE DEF a, b, c, d, e, f
<1>6. Runs(InterruptController, 1 + 1 + 1 + 1 + 1 + 1, p, p,
           {a} \cup {b} \cup {c} \cup {d} \cup {e} \cup {f})
  BY <1>3, <1>5, RunsThen, Zenon DEF InterruptController
<1>7. 1 + 1 + 1 + 1 + 1 + 1 = 6
  OBVIOUS
<1>8. {a} \cup {b} \cup {c} \cup {d} \cup {e} \cup {f} = {a, b, c, d, e, f}
  OBVIOUS
<1>9. InterruptControllerTold(p) = {a, b, c, d, e, f}
  BY DEF InterruptControllerTold, a, b, c, d, e, f, q
<1> QED
  BY <1>6, <1>7, <1>8, <1>9

\* A node with an address in its name.
LEMMA RunsBeginNum ==
  ASSUME NEW name \in {"cpu", "memory", "clint", "uart"},
         NEW word \in {0, RAM_BASE_ADDR, CLINT_BASE_ADDR, UART_BASE_ADDR},
         NEW p \in Seq(Texts)
  PROVE  LET q == Append(p, NodeName(name, word))
         IN  /\ q \in Seq(Texts) /\ q # <<>>
             /\ Runs(begin_node_num(name, word), 1, p, q, {Begun(NodeName(name, word), p)})
             /\ Runs(end_node, 1, q, p, {Ended(q)})
<1> DEFINE text == NodeName(name, word)
<1>1. text \in Texts
  <2>1. text \in NodeTexts(name)
    BY Zenon DEF NodeTexts, NodeName
  <2> QED
    BY <2>1, Zenon DEF Texts
<1>2. begin_node_num(name, word) = begin_node(text)
  BY DEF begin_node_num, NodeName
<1> HIDE DEF text
<1>3. LET q == Append(p, text)
      IN  /\ q \in Seq(Texts) /\ q # <<>>
          /\ Runs(begin_node_num(name, word), 1, p, q, {Begun(text, p)})
          /\ Runs(end_node, 1, q, p, {Ended(q)})
  BY <1>1, <1>2, RunsBegin, RunsEnd, Opened
<1> QED
  BY <1>3 DEF text

\* What the reader is told of the hart.
CpuTold(p) ==
  LET q == Append(p, NodeName("cpu", 0))
  IN  { Begun(NodeName("cpu", 0), p), Property("device_type", OneText("cpu"), q),
        Property("reg", OneNumber(0), q), Property("status", OneText("okay"), q),
        Property("compatible", OneText("riscv"), q), Property("riscv,isa", OneText("rv32i"), q),
        Property("mmu-type", OneText("riscv,sv32"), q),
        Property("clock-frequency", OneNumber(RTC_FREQ), q), Ended(q) }
      \cup InterruptControllerTold(q)

CpusTold(p) ==
  LET q == Append(p, "cpus")
  IN  { Begun("cpus", p), Property("#address-cells", OneNumber(1), q),
        Property("#size-cells", OneNumber(0), q),
        Property("timebase-frequency", OneNumber(RTC_FREQ), q), Ended(q) }
      \cup CpuTold(q)

\* The calls for the hart.
LEMMA RunsCpus ==
  ASSUME NEW p \in Seq(Texts), p # <<>>
  PROVE  Runs(Cpus, 20, p, p, CpusTold(p))
<1> DEFINE q == Append(p, "cpus")
           r == Append(q, NodeName("cpu", 0))
           u1 == Begun("cpus", p)
           u2 == Property("#address-cells", OneNumber(1), q)
           u3 == Property("#size-cells", OneNumber(0), q)
           u4 == Property("timebase-frequency", OneNumber(RTC_FREQ), q)
           u5 == Begun(NodeName("cpu", 0), q)
           v1 == Property("device_type", OneText("cpu"), r)
           v2 == Property("reg", OneNumber(0), r)
           v3 == Property("status", OneText("okay"), r)
           v4 == Property("compatible", OneText("riscv"), r)
           v5 == Property("riscv,isa", OneText("rv32i"), r)
           v6 == Property("mmu-type", OneText("riscv,sv32"), r)
           v7 == Property("clock-frequency", OneNumber(RTC_FREQ), r)
           w1 == InterruptControllerTold(r)
           w2 == Ended(r)
           w3 == Ended(q)
<1>1. {"cpus", "#address-cells", "#size-cells", "timebase-frequency", "device_type", "cpu", "reg",
       "status", "okay", "compatible", "riscv", "riscv,isa", "rv32i", "mmu-type", "riscv,sv32",
       "clock-frequency"} \subseteq PlainTexts
  BY DEF PlainTexts
<1>2. /\ "cpus" \in Texts /\ "#address-cells" \in Texts /\ "#size-cells" \in Texts
      /\ "timebase-frequency" \in Texts /\ "device_type" \in Texts /\ "cpu" \in Texts
      /\ "reg" \in Texts /\ "status" \in Texts /\ "okay" \in Texts /\ "compatible" \in Texts
      /\ "riscv" \in Texts /\ "riscv,isa" \in Texts /\ "rv32i" \in Texts
      /\ "mmu-type" \in Texts /\ "riscv,sv32" \in Texts /\ "clock-frequency" \in Texts
  BY <1>1, PlainTextsAreTexts
<1>3. /\ Runs(begin_node("cpus"), 1, p, q, {u1})
      /\ Runs(end_node, 1, q, p, {w3}) /\ q # <<>> /\ q \in Seq(Texts)
  BY <1>2, RunsBegin, RunsEnd, Opened
<1> HIDE DEF q
<1>4. 0 \in Int /\ 1 \in Int /\ RTC_FREQ \in Int
  BY SMT DEF RTC_FREQ
<1>5. /\ Runs(prop_u32("#address-cells", 1), 1, q, q, {u2})
      /\ Runs(prop_u32("#size-cells", 0), 1, q, q, {u3})
      /\ Runs(prop_u32("timebase-frequency", RTC_FREQ), 1, q, q, {u4})
  BY <1>2, <1>3, <1>4, RunsForms, Zenon
<1>6. /\ r # <<>> /\ r \in Seq(Texts)
      /\ Runs(begin_node_num("cpu", 0), 1, q, r, {u5})
      /\ Runs(end_node, 1, r, q, {w2})
  BY <1>3, RunsBeginNum, Zenon
<1> HIDE DEF r
<1>7. /\ Runs(prop_str("device_type", "cpu"), 1, r, r, {v1})
      /\ Runs(prop_u32("reg", 0), 1, r, r, {v2})
      /\ Runs(prop_str("status", "okay"), 1, r, r, {v3})
      /\ Runs(prop_str("compatible", "riscv"), 1, r, r, {v4})
      /\ Runs(prop_str("riscv,isa", "rv32i"), 1, r, r, {v5})
      /\ Runs(prop_str("mmu-type", "riscv,sv32"), 1, r, r, {v6})
      /\ Runs(prop_u32("clock-frequency", RTC_FREQ), 1, r, r, {v7})
  BY <1>2, <1>4, <1>6, RunsForms, Zenon
<1>8. Runs(InterruptController, 6, r, r, w1)
  BY <1>6, RunsInterruptController
<1> HIDE DEF u1, u2, u3, u4, u5, v1, v2, v3, v4, v5, v6, v7, w1, w2, w3
<1> DEFINE first ==
             begin_node("cpus") \o prop_u32("#address-cells", 1) \o prop_u32("#size-cells", 0)
             \o prop_u32("timebase-frequency", RTC_FREQ) \o begin_node_num("cpu", 0)
           second ==
             first \o prop_str("device_type", "cpu") \o prop_u32("reg", 0)
             \o prop_str("status", "okay") \o prop_str("compatible", "riscv")
           third ==
             second \o prop_str("riscv,isa", "rv32i") \o prop_str("mmu-type", "riscv,sv32")
             \o prop_u32("clock-frequency", RTC_FREQ) \o InterruptController
           firstTold == {u1} \cup {u2} \cup {u3} \cup {u4} \cup {u5}
           secondTold == firstTold \cup {v1} \cup {v2} \cup {v3} \cup {v4}
           thirdTold == secondTold \cup {v5} \cup {v6} \cup {v7} \cup w1
<1>a. Runs(first, 1 + 1 + 1 + 1 + 1, p, r, firstTold)
  BY <1>3, <1>5, <1>6, RunsThen, Zenon
<1> HIDE DEF first, firstTold
<1>b. Runs(second, 1 + 1 + 1 + 1 + 1 + 1 + 1 + 1 + 1, p, r, secondTold)
  BY <1>a, <1>6, <1>7, RunsThen, Zenon
<1> HIDE DEF second, secondTold
<1>c. Runs(third, 1 + 1 + 1 + 1 + 1 + 1 + 1 + 1 + 1 + 1 + 1 + 1 + 6, p, r, thirdTold)
  BY <1>b, <1>6, <1>7, <1>8, RunsThen, Zenon
<1> HIDE DEF third, thirdTold
<1>d. Runs(third \o end_node \o end_node,
           1 + 1 + 1 + 1 + 1 + 1 + 1 + 1 + 1 + 1 + 1 + 1 + 6 + 1 + 1, p, p,
           thirdTold \cup {w2} \cup {w3})
  BY <1>c, <1>3, <1>6, RunsThen, Zenon
<1>9. Runs(Cpus, 1 + 1 + 1 + 1 + 1 + 1 + 1 + 1 + 1 + 1 + 1 + 1 + 6 + 1 + 1, p, p,
           thirdTold \cup {w2} \cup {w3})
  BY <1>d DEF Cpus, first, second, third
<1>10. 1 + 1 + 1 + 1 + 1 + 1 + 1 + 1 + 1 + 1 + 1 + 1 + 6 + 1 + 1 = 20
  OBVIOUS
<1>11. thirdTold \cup {w2} \cup {w3}
         = {u1, u2, u3, u4, w3} \cup ({u5, v1, v2, v3, v4, v5, v6, v7, w2} \cup w1)
  BY DEF thirdTold, secondTold, firstTold
<1>12. CpusTold(p)
         = {u1, u2, u3, u4, w3} \cup ({u5, v1, v2, v3, v4, v5, v6, v7, w2} \cup w1)
  BY Zenon DEF CpusTold, CpuTold, q, r, u1, u2, u3, u4, u5, v1, v2, v3, v4, v5, v6, v7,
               w1, w2, w3
<1> QED
  BY <1>9, <1>10, <1>11, <1>12

\* Addresses are cells of the tree.
LEMMA AddressCells ==
  ASSUME NEW word \in Int
  PROVE  Address(word) \in Cell /\ Number(word) \in Cell /\ Ram(word) \in Cell
  BY SMT DEF Address, Number, Ram, Cell, RAM_BASE_ADDR

\* What the reader is told of RAM.
MemoryTold(p) ==
  LET name == NodeName("memory", RAM_BASE_ADDR)
      q    == Append(p, name)
  IN  { Begun(name, p), Property("device_type", OneText("memory"), q),
        Property("reg", LongNumbers(Address(RAM_BASE_ADDR), Number(4 * ram_size)), q), Ended(q) }

\* The calls for RAM.
LEMMA RunsMemory ==
  ASSUME NEW p \in Seq(Texts), p # <<>>
  PROVE  Runs(Memory, 4, p, p, MemoryTold(p))
<1> DEFINE base == Address(RAM_BASE_ADDR)
           size == Number(4 * ram_size)
           z == Number(0)
           cells == <<z, base, z, size>>
           q == Append(p, NodeName("memory", RAM_BASE_ADDR))
           u1 == Begun(NodeName("memory", RAM_BASE_ADDR), p)
           u2 == Property("device_type", OneText("memory"), q)
           u3 == Property("reg", cells, q)
           u4 == Ended(q)
<1>1. {"memory", "device_type", "reg"} \subseteq PlainTexts
  BY DEF PlainTexts
<1>2. "memory" \in Texts /\ "device_type" \in Texts /\ "reg" \in Texts
  BY <1>1, PlainTextsAreTexts
<1>3. base \in Cell /\ size \in Cell /\ z \in Cell
  <2>1. RAM_BASE_ADDR \in Int /\ 4 * ram_size \in Int /\ 0 \in Int
    BY SMT DEF RAM_BASE_ADDR, ram_size
  <2> QED
    BY <2>1, AddressCells, Zenon
<1> HIDE DEF base, size, z
<1>4. cells \in Seq(Cell) /\ Len(cells) <= 4
  BY <1>3
<1> HIDE DEF cells
<1>5. /\ q \in Seq(Texts) /\ q # <<>>
      /\ Runs(begin_node_num("memory", RAM_BASE_ADDR), 1, p, q, {u1})
      /\ Runs(end_node, 1, q, p, {u4})
  BY RunsBeginNum, Zenon
<1> HIDE DEF q
<1>6. /\ Runs(prop_str("device_type", "memory"), 1, q, q, {u2})
      /\ Runs(prop_tab_u32("reg", cells), 1, q, q, {u3})
  BY <1>2, <1>4, <1>5, RunsForms, RunsCells, Zenon
<1> HIDE DEF u1, u2, u3, u4
<1>7. Runs(begin_node_num("memory", RAM_BASE_ADDR) \o prop_str("device_type", "memory")
             \o prop_tab_u32("reg", cells) \o end_node, 1 + 1 + 1 + 1, p, p,
           {u1} \cup {u2} \cup {u3} \cup {u4})
  BY <1>5, <1>6, RunsThen, Zenon
<1>8. Runs(Memory, 1 + 1 + 1 + 1, p, p, {u1} \cup {u2} \cup {u3} \cup {u4})
  BY <1>7 DEF Memory, cells, base, size, z
<1>9. 1 + 1 + 1 + 1 = 4 /\ {u1} \cup {u2} \cup {u3} \cup {u4} = {u1, u2, u3, u4}
  OBVIOUS
<1>10. MemoryTold(p) = {u1, u2, u3, u4}
  BY Zenon DEF MemoryTold, LongNumbers, q, u1, u2, u3, u4, cells, base, size, z
<1> QED
  BY <1>8, <1>9, <1>10

\* What the reader is told of the CLINT.
Interrupts == <<Number(intc_phandle), Number(3), Number(intc_phandle), Number(7)>>

ClintTold(p) ==
  LET name == NodeName("clint", CLINT_BASE_ADDR)
      q    == Append(p, name)
  IN  { Begun(name, p), Property("compatible", OneText("riscv,clint0"), q),
        Property("interrupts-extended", Interrupts, q),
        Property("reg", LongNumbers(Address(CLINT_BASE_ADDR), Number(4 * CLINT_SIZE)), q),
        Ended(q) }

\* The calls for the CLINT.
LEMMA RunsClint ==
  ASSUME NEW p \in Seq(Texts), p # <<>>
  PROVE  Runs(Clint, 5, p, p, ClintTold(p))
<1> DEFINE base == Address(CLINT_BASE_ADDR)
           size == Number(4 * CLINT_SIZE)
           i == Number(intc_phandle)
           m == Number(3)
           n == Number(7)
           cells == <<i, m, i, n>>
           q == Append(p, NodeName("clint", CLINT_BASE_ADDR))
           u1 == Begun(NodeName("clint", CLINT_BASE_ADDR), p)
           u2 == Property("compatible", OneText("riscv,clint0"), q)
           u3 == Property("interrupts-extended", cells, q)
           u4 == Property("reg", LongNumbers(base, size), q)
           u5 == Ended(q)
<1>1. {"compatible", "riscv,clint0", "interrupts-extended", "reg"} \subseteq PlainTexts
  BY DEF PlainTexts
<1>2. /\ "compatible" \in Texts /\ "riscv,clint0" \in Texts /\ "interrupts-extended" \in Texts
      /\ "reg" \in Texts
  BY <1>1, PlainTextsAreTexts
<1>3. base \in Cell /\ size \in Cell /\ i \in Cell /\ m \in Cell /\ n \in Cell
  <2>1. /\ CLINT_BASE_ADDR \in Int /\ 4 * CLINT_SIZE \in Int /\ intc_phandle \in Int
        /\ 3 \in Int /\ 7 \in Int
    BY SMT DEF CLINT_BASE_ADDR, CLINT_SIZE, intc_phandle
  <2> QED
    BY <2>1, AddressCells, Zenon
<1> HIDE DEF base, size, i, m, n
<1>4. cells \in Seq(Cell) /\ Len(cells) <= 4
  BY <1>3
<1> HIDE DEF cells
<1>5. /\ q \in Seq(Texts) /\ q # <<>>
      /\ Runs(begin_node_num("clint", CLINT_BASE_ADDR), 1, p, q, {u1})
      /\ Runs(end_node, 1, q, p, {u5})
  BY RunsBeginNum, Zenon
<1> HIDE DEF q
<1>6. /\ Runs(prop_str("compatible", "riscv,clint0"), 1, q, q, {u2})
      /\ Runs(prop_tab_u32("interrupts-extended", cells), 1, q, q, {u3})
      /\ Runs(prop_tab_u64_2("reg", base, size), 1, q, q, {u4})
  BY <1>2, <1>3, <1>4, <1>5, RunsForms, RunsCells, Zenon
<1> HIDE DEF u1, u2, u3, u4, u5
<1>7. Runs(begin_node_num("clint", CLINT_BASE_ADDR) \o prop_str("compatible", "riscv,clint0")
             \o prop_tab_u32("interrupts-extended", cells)
             \o prop_tab_u64_2("reg", base, size) \o end_node, 1 + 1 + 1 + 1 + 1, p, p,
           {u1} \cup {u2} \cup {u3} \cup {u4} \cup {u5})
  BY <1>5, <1>6, RunsThen, Zenon
<1>8. Runs(Clint, 1 + 1 + 1 + 1 + 1, p, p, {u1} \cup {u2} \cup {u3} \cup {u4} \cup {u5})
  BY <1>7 DEF Clint, cells, base, size, i, m, n
<1>9. 1 + 1 + 1 + 1 + 1 = 5 /\ {u1} \cup {u2} \cup {u3} \cup {u4} \cup {u5} = {u1, u2, u3, u4, u5}
  OBVIOUS
<1>10. ClintTold(p) = {u1, u2, u3, u4, u5}
  BY Zenon DEF ClintTold, Interrupts, q, u1, u2, u3, u4, u5, cells, base, size, i, m, n
<1> QED
  BY <1>8, <1>9, <1>10

\* What the reader is told of the UART.
UartTold(p) ==
  LET name == NodeName("uart", UART_BASE_ADDR)
      q    == Append(p, name)
  IN  { Begun(name, p), Property("compatible", OneText("sifive,uart0"), q),
        Property("reg", LongNumbers(Address(UART_BASE_ADDR), Number(4 * UART_SIZE)), q),
        Ended(q) }

\* The calls for the UART.
LEMMA RunsUart ==
  ASSUME NEW p \in Seq(Texts), p # <<>>
  PROVE  Runs(Uart, 4, p, p, UartTold(p))
<1> DEFINE base == Address(UART_BASE_ADDR)
           size == Number(4 * UART_SIZE)
           q == Append(p, NodeName("uart", UART_BASE_ADDR))
           u1 == Begun(NodeName("uart", UART_BASE_ADDR), p)
           u2 == Property("compatible", OneText("sifive,uart0"), q)
           u3 == Property("reg", LongNumbers(base, size), q)
           u4 == Ended(q)
<1>1. {"compatible", "sifive,uart0", "reg"} \subseteq PlainTexts
  BY DEF PlainTexts
<1>2. "compatible" \in Texts /\ "sifive,uart0" \in Texts /\ "reg" \in Texts
  BY <1>1, PlainTextsAreTexts
<1>3. base \in Cell /\ size \in Cell
  <2>1. UART_BASE_ADDR \in Int /\ 4 * UART_SIZE \in Int
    BY SMT DEF UART_BASE_ADDR, UART_SIZE
  <2> QED
    BY <2>1, AddressCells, Zenon
<1> HIDE DEF base, size
<1>4. /\ q \in Seq(Texts) /\ q # <<>>
      /\ Runs(begin_node_num("uart", UART_BASE_ADDR), 1, p, q, {u1})
      /\ Runs(end_node, 1, q, p, {u4})
  BY RunsBeginNum, Zenon
<1> HIDE DEF q
<1>5. /\ Runs(prop_str("compatible", "sifive,uart0"), 1, q, q, {u2})
      /\ Runs(prop_tab_u64_2("reg", base, size), 1, q, q, {u3})
  BY <1>2, <1>3, <1>4, RunsForms, Zenon
<1> HIDE DEF u1, u2, u3, u4
<1>6. Runs(begin_node_num("uart", UART_BASE_ADDR) \o prop_str("compatible", "sifive,uart0")
             \o prop_tab_u64_2("reg", base, size) \o end_node, 1 + 1 + 1 + 1, p, p,
           {u1} \cup {u2} \cup {u3} \cup {u4})
  BY <1>4, <1>5, RunsThen, Zenon
<1>7. Runs(Uart, 1 + 1 + 1 + 1, p, p, {u1} \cup {u2} \cup {u3} \cup {u4})
  BY <1>6 DEF Uart, base, size
<1>8. 1 + 1 + 1 + 1 = 4 /\ {u1} \cup {u2} \cup {u3} \cup {u4} = {u1, u2, u3, u4}
  OBVIOUS
<1>9. UartTold(p) = {u1, u2, u3, u4}
  BY Zenon DEF UartTold, q, u1, u2, u3, u4, base, size
<1> QED
  BY <1>7, <1>8, <1>9

\* What the reader is told of the bus and of what is on it.
SocTold(p) ==
  LET q == Append(p, "soc")
  IN  { Begun("soc", p), Property("#address-cells", OneNumber(2), q),
        Property("#size-cells", OneNumber(2), q),
        Property("compatible", TextCells(<<"ucbbar,riscvemu-bar-soc", "simple-bus">>), q),
        Property("ranges", NoText, q), Ended(q) }
      \cup ClintTold(q) \cup UartTold(q)

\* The calls for the bus and what is on it.
LEMMA RunsSoc ==
  ASSUME NEW p \in Seq(Texts), p # <<>>
  PROVE  Runs(Soc, 15, p, p, SocTold(p))
<1> DEFINE q == Append(p, "soc")
           texts == <<"ucbbar,riscvemu-bar-soc", "simple-bus">>
           u1 == Begun("soc", p)
           u2 == Property("#address-cells", OneNumber(2), q)
           u3 == Property("#size-cells", OneNumber(2), q)
           u4 == Property("compatible", TextCells(texts), q)
           u5 == Property("ranges", NoText, q)
           u6 == Ended(q)
           v1 == ClintTold(q)
           v2 == UartTold(q)
<1>1. {"soc", "#address-cells", "#size-cells", "compatible", "ranges", "ucbbar,riscvemu-bar-soc",
       "simple-bus"} \subseteq PlainTexts
  BY DEF PlainTexts
<1>2. /\ "soc" \in Texts /\ "#address-cells" \in Texts /\ "#size-cells" \in Texts
      /\ "compatible" \in Texts /\ "ranges" \in Texts /\ "ucbbar,riscvemu-bar-soc" \in Texts
      /\ "simple-bus" \in Texts
  BY <1>1, PlainTextsAreTexts
<1>3. /\ Runs(begin_node("soc"), 1, p, q, {u1})
      /\ Runs(end_node, 1, q, p, {u6}) /\ q # <<>> /\ q \in Seq(Texts)
  BY <1>2, RunsBegin, RunsEnd, Opened
<1>4. texts \in Seq(Texts) /\ Len(texts) <= 2
  <2> DEFINE board == "ucbbar,riscvemu-bar-soc"
             bus == "simple-bus"
  <2>1. board \in Texts /\ bus \in Texts
    BY <1>2
  <2>2. texts = <<board, bus>>
    OBVIOUS
  <2> HIDE DEF board, bus, texts
  <2> QED
    BY <2>1, <2>2
<1> HIDE DEF q, texts
<1>5. 2 \in Int
  OBVIOUS
<1>6. /\ Runs(prop_u32("#address-cells", 2), 1, q, q, {u2})
      /\ Runs(prop_u32("#size-cells", 2), 1, q, q, {u3})
      /\ Runs(prop_tab_str("compatible", texts), 1, q, q, {u4})
      /\ Runs(prop_empty("ranges"), 1, q, q, {u5})
  BY <1>2, <1>3, <1>4, <1>5, RunsForms, RunsTexts, Zenon
<1>7. Runs(Clint, 5, q, q, v1) /\ Runs(Uart, 4, q, q, v2)
  BY <1>3, RunsClint, RunsUart
<1> HIDE DEF u1, u2, u3, u4, u5, u6, v1, v2
<1> DEFINE told == {u1} \cup {u2} \cup {u3} \cup {u4} \cup {u5} \cup v1 \cup v2 \cup {u6}
<1>8. Runs(begin_node("soc") \o prop_u32("#address-cells", 2) \o prop_u32("#size-cells", 2)
             \o prop_tab_str("compatible", texts) \o prop_empty("ranges") \o Clint \o Uart
             \o end_node, 1 + 1 + 1 + 1 + 1 + 5 + 4 + 1, p, p, told)
  BY <1>3, <1>6, <1>7, RunsThen, ZenonT(60)
<1>9. Runs(Soc, 1 + 1 + 1 + 1 + 1 + 5 + 4 + 1, p, p, told)
  BY <1>8 DEF Soc, texts
<1>10. /\ 1 + 1 + 1 + 1 + 1 + 5 + 4 + 1 = 15
       /\ told = {u1, u2, u3, u4, u5, u6} \cup v1 \cup v2
  OBVIOUS
<1>11. SocTold(p) = {u1, u2, u3, u4, u5, u6} \cup v1 \cup v2
  BY Zenon DEF SocTold, q, texts, u1, u2, u3, u4, u5, u6, v1, v2
<1> QED
  BY <1>9, <1>10, <1>11

\* What the reader is told of the kernel, inside the nodes of p.
KernelRangeTold(p, start, size) ==
  IF size = 0 THEN {}
  ELSE { Property("riscv,kernel-start", <<Number(0), Ram(start)>>, p),
         Property("riscv,kernel-end", <<Number(0), Ram(start + size)>>, p) }

\* The kernel's range is two properties or nothing.
LEMMA RunsKernelRange ==
  ASSUME NEW p, p # <<>>, NEW start \in Nat, NEW size \in Nat
  PROVE  Runs(KernelRange(start, size), 2, p, p, KernelRangeTold(p, start, size))
<1>1. CASE size = 0
  <2> DEFINE calls == <<>>
             path == [k \in 0 .. 0 |-> p]
  <2>1. calls \in Seq(ACall) /\ Len(calls) = 0
    OBVIOUS
  <2>2. path[0] = p
    OBVIOUS
  <2> HIDE DEF calls, path
  <2>3. \E walk : /\ walk[0] = p /\ walk[Len(calls)] = p
                  /\ \A k \in 1 .. Len(calls) : Moves(calls[k], walk[k - 1], walk[k])
                  /\ \A k \in 1 .. Len(calls) - 1 : walk[k] # <<>>
                  /\ Written(calls, walk) = {}
    <3>1. path[0] = p /\ path[Len(calls)] = p
      BY <2>1, <2>2
    <3>2. \A k \in 1 .. Len(calls) : Moves(calls[k], path[k - 1], path[k])
      BY <2>1
    <3>3. \A k \in 1 .. Len(calls) - 1 : path[k] # <<>>
      BY <2>1
    <3>4. Written(calls, path) = {}
      <4>1. 1 .. Len(calls) = {}
        BY <2>1
      <4> QED
        BY <4>1 DEF Written
    <3> QED
      BY <3>1, <3>2, <3>3, <3>4
  <2>4. 2 \in Nat /\ Len(calls) <= 2
    BY <2>1
  <2>5. Runs(calls, 2, p, p, {})
    BY <2>1, <2>3, <2>4 DEF Runs
  <2> QED
    BY <1>1, <2>5 DEF KernelRange, KernelRangeTold, calls
<1>2. CASE size # 0
  <2> DEFINE z == Number(0)
             from == Ram(start)
             to == Ram(start + size)
             at == <<z, from>>
             end == <<z, to>>
             u1 == Property("riscv,kernel-start", at, p)
             u2 == Property("riscv,kernel-end", end, p)
  <2>1. {"riscv,kernel-start", "riscv,kernel-end"} \subseteq PlainTexts
    BY DEF PlainTexts
  <2>2. "riscv,kernel-start" \in Texts /\ "riscv,kernel-end" \in Texts
    BY <2>1, PlainTextsAreTexts
  <2>3. z \in Cell /\ from \in Cell /\ to \in Cell
    <3>1. 0 \in Int /\ start \in Int /\ start + size \in Int
      OBVIOUS
    <3> QED
      BY <3>1, AddressCells, Zenon
  <2> HIDE DEF z, from, to
  <2>4. at \in Seq(Cell) /\ Len(at) <= 4 /\ end \in Seq(Cell) /\ Len(end) <= 4
    BY <2>3
  <2> HIDE DEF at, end
  <2>5. /\ Runs(prop_tab_u32("riscv,kernel-start", at), 1, p, p, {u1})
        /\ Runs(prop_tab_u32("riscv,kernel-end", end), 1, p, p, {u2})
    BY <2>2, <2>4, RunsCells, Zenon
  <2> HIDE DEF u1, u2
  <2>6. Runs(prop_tab_u32("riscv,kernel-start", at) \o prop_tab_u32("riscv,kernel-end", end),
             1 + 1, p, p, {u1} \cup {u2})
    BY <2>5, RunsThen, Zenon
  <2>7. Runs(KernelRange(start, size), 1 + 1, p, p, {u1} \cup {u2})
    BY <1>2, <2>6 DEF KernelRange, at, end, z, from, to
  <2>8. 1 + 1 = 2 /\ {u1} \cup {u2} = {u1, u2}
    OBVIOUS
  <2>9. KernelRangeTold(p, start, size) = {u1, u2}
    BY <1>2 DEF KernelRangeTold, u1, u2, at, end, z, from, to
  <2> QED
    BY <2>7, <2>8, <2>9
<1> QED
  BY <1>1, <1>2

\* What the reader is told of what the kernel is told.
ChosenTold(p, start, size) ==
  LET q == Append(p, "chosen")
  IN  { Begun("chosen", p),
        Property("bootargs", OneText("debug keep_bootcon bootmem_debug earlycon=sbi"), q),
        Property("stdout-path", OneText("/soc/uart@10000000"), q), Ended(q) }
      \cup KernelRangeTold(q, start, size)

\* The calls for what the kernel is told.
LEMMA RunsChosen ==
  ASSUME NEW p \in Seq(Texts), p # <<>>, NEW start \in Nat, NEW size \in Nat
  PROVE  Runs(Chosen(start, size), 6, p, p, ChosenTold(p, start, size))
<1> DEFINE q == Append(p, "chosen")
           bootargs == prop_str("bootargs", "debug keep_bootcon bootmem_debug earlycon=sbi")
           stdout == prop_str("stdout-path", "/soc/uart@10000000")
           u1 == Begun("chosen", p)
           u2 == Property("bootargs", OneText("debug keep_bootcon bootmem_debug earlycon=sbi"), q)
           u3 == Property("stdout-path", OneText("/soc/uart@10000000"), q)
           u4 == Ended(q)
           v1 == KernelRangeTold(q, start, size)
<1>1. {"chosen", "bootargs", "debug keep_bootcon bootmem_debug earlycon=sbi", "stdout-path",
       "/soc/uart@10000000"} \subseteq PlainTexts
  BY DEF PlainTexts
<1>2. /\ "chosen" \in Texts /\ "bootargs" \in Texts
      /\ "debug keep_bootcon bootmem_debug earlycon=sbi" \in Texts
      /\ "stdout-path" \in Texts /\ "/soc/uart@10000000" \in Texts
  BY <1>1, PlainTextsAreTexts
<1>3. /\ Runs(begin_node("chosen"), 1, p, q, {u1})
      /\ Runs(end_node, 1, q, p, {u4}) /\ q # <<>> /\ q \in Seq(Texts)
  BY <1>2, RunsBegin, RunsEnd, Opened
<1> HIDE DEF q
<1>4. Runs(bootargs, 1, q, q, {u2}) /\ Runs(stdout, 1, q, q, {u3})
  BY <1>2, <1>3, RunsForms, Zenon
<1> HIDE DEF bootargs, stdout
<1>5. Runs(KernelRange(start, size), 2, q, q, v1)
  BY <1>3, RunsKernelRange
<1> HIDE DEF u1, u2, u3, u4, v1
<1> DEFINE told == {u1} \cup {u2} \cup v1 \cup {u3} \cup {u4}
<1>6. Runs(begin_node("chosen") \o bootargs \o KernelRange(start, size) \o stdout \o end_node,
           1 + 1 + 2 + 1 + 1, p, p, told)
  BY <1>3, <1>4, <1>5, RunsThen, Zenon
<1>7. Runs(Chosen(start, size), 1 + 1 + 2 + 1 + 1, p, p, told)
  BY <1>6 DEF Chosen, bootargs, stdout
<1>8. 1 + 1 + 2 + 1 + 1 = 6 /\ told = {u1, u2, u3, u4} \cup v1
  OBVIOUS
<1>9. ChosenTold(p, start, size) = {u1, u2, u3, u4} \cup v1
  BY Zenon DEF ChosenTold, q, u1, u2, u3, u4, v1
<1> QED
  BY <1>7, <1>8, <1>9

MostCalls == 51

\* What the reader is told of the machine.
Root == <<"">>

MachineTold(start, size) ==
  { Begun("", <<>>), Property("#address-cells", OneNumber(2), Root),
    Property("#size-cells", OneNumber(2), Root),
    Property("compatible", OneText("ucbbar,riscvemu-bar"), Root),
    Property("model", OneText("emuriscv,emuriscv"), Root), Ended(Root) }
  \cup CpusTold(Root) \cup MemoryTold(Root) \cup SocTold(Root) \cup ChosenTold(Root, start, size)

\* The calls of riscv_build_fdt open the root first and close it last.
LEMMA RunsBuildCalls ==
  ASSUME NEW start \in Nat, NEW size \in Nat
  PROVE  Runs(BuildCalls(start, size), MostCalls, <<>>, <<>>, MachineTold(start, size))
<1> DEFINE none == <<>>
           q == Append(none, "")
           u1 == Begun("", none)
           u2 == Property("#address-cells", OneNumber(2), q)
           u3 == Property("#size-cells", OneNumber(2), q)
           u4 == Property("compatible", OneText("ucbbar,riscvemu-bar"), q)
           u5 == Property("model", OneText("emuriscv,emuriscv"), q)
           u6 == Ended(q)
           v1 == CpusTold(q)
           v2 == MemoryTold(q)
           v3 == SocTold(q)
           v4 == ChosenTold(q, start, size)
<1>1. {"", "#address-cells", "#size-cells", "compatible", "ucbbar,riscvemu-bar", "model",
       "emuriscv,emuriscv"} \subseteq PlainTexts
  BY DEF PlainTexts
<1>2. /\ "" \in Texts /\ "#address-cells" \in Texts /\ "#size-cells" \in Texts
      /\ "compatible" \in Texts /\ "ucbbar,riscvemu-bar" \in Texts /\ "model" \in Texts
      /\ "emuriscv,emuriscv" \in Texts
  BY <1>1, PlainTextsAreTexts
<1>3. none \in Seq(Texts) /\ Root = q
  BY DEF Root
<1> HIDE DEF none
<1>4. /\ Runs(begin_node(""), 1, none, q, {u1})
      /\ Runs(end_node, 1, q, none, {u6}) /\ q # <<>> /\ q \in Seq(Texts)
  BY <1>2, <1>3, RunsBegin, RunsEnd, Opened
<1> HIDE DEF q
<1>5. 2 \in Int
  OBVIOUS
<1>6. /\ Runs(prop_u32("#address-cells", 2), 1, q, q, {u2})
      /\ Runs(prop_u32("#size-cells", 2), 1, q, q, {u3})
      /\ Runs(prop_str("compatible", "ucbbar,riscvemu-bar"), 1, q, q, {u4})
      /\ Runs(prop_str("model", "emuriscv,emuriscv"), 1, q, q, {u5})
  BY <1>2, <1>4, <1>5, RunsForms, Zenon
<1>7. Runs(Cpus, 20, q, q, v1) /\ Runs(Memory, 4, q, q, v2) /\ Runs(Soc, 15, q, q, v3)
  BY <1>4, RunsCpus, RunsMemory, RunsSoc
<1>8. Runs(Chosen(start, size), 6, q, q, v4)
  BY <1>4, RunsChosen
<1> HIDE DEF u1, u2, u3, u4, u5, u6, v1, v2, v3, v4
<1> DEFINE first ==
             begin_node("") \o prop_u32("#address-cells", 2) \o prop_u32("#size-cells", 2)
             \o prop_str("compatible", "ucbbar,riscvemu-bar")
             \o prop_str("model", "emuriscv,emuriscv")
           firstTold == {u1} \cup {u2} \cup {u3} \cup {u4} \cup {u5}
           told == firstTold \cup v1 \cup v2 \cup v3 \cup v4 \cup {u6}
<1>a. Runs(first, 1 + 1 + 1 + 1 + 1, none, q, firstTold)
  BY <1>4, <1>6, RunsThen, Zenon
<1> HIDE DEF first, firstTold
<1>9. Runs(first \o Cpus \o Memory \o Soc \o Chosen(start, size) \o end_node,
           1 + 1 + 1 + 1 + 1 + 20 + 4 + 15 + 6 + 1, none, none, told)
  BY <1>a, <1>4, <1>7, <1>8, RunsThen, ZenonT(60)
<1>10. Runs(BuildCalls(start, size), 1 + 1 + 1 + 1 + 1 + 20 + 4 + 15 + 6 + 1, none, none,
            told)
  BY <1>9 DEF BuildCalls, first
<1>11. 1 + 1 + 1 + 1 + 1 + 20 + 4 + 15 + 6 + 1 = MostCalls
  BY DEF MostCalls
<1>12. told = {u1, u2, u3, u4, u5, u6} \cup v1 \cup v2 \cup v3 \cup v4
  BY DEF firstTold
<1>13. MachineTold(start, size) = {u1, u2, u3, u4, u5, u6} \cup v1 \cup v2 \cup v3 \cup v4
  BY <1>3, Zenon DEF MachineTold, none, u1, u2, u3, u4, u5, u6, v1, v2, v3, v4
<1> QED
  BY <1>10, <1>11, <1>12, <1>13 DEF none

-----------------------------------------------------------------------------
\* The calls, one by one, lead through these open nodes.
Leads(calls, path) ==
  /\ path[0] = <<>> /\ path[Len(calls)] = <<>>
  /\ \A k \in 1 .. Len(calls) : Moves(calls[k], path[k - 1], path[k])
  /\ \A k \in 1 .. Len(calls) - 1 : path[k] # <<>>

\* The tokens so far are those of the calls so far.
Says(calls, path, told) == \A j \in 1 .. Len(told) : told[j] = Meant(calls[j], path[j - 1])

\* The tree as far as it is built: the calls lead through some nodes, on this way
\* they tell the reader of the machine, and so far the reader has been told what
\* the calls so far mean.
TreeInv ==
  /\ KernelPlaced
  /\ called \in 0 .. Len(Calls)
  /\ phase \in {"firmware", "kernel"} => called = 0
  /\ called = 0 => s = EmptyState
  /\ \E path, told :
       /\ Leads(Calls, path) /\ Written(Calls, path) = MachineTold(kernel_base, kernel_len)
       /\ Built(s, called, path, told) /\ Says(Calls, path, told)
  /\ phase \in {"firmware", "kernel", "tree"} => tree = <<>>
  /\ tree # <<>> \/ phase \in {"file", "stub"} => called = Len(Calls) /\ tree = fdt_output(s)

\* What riscv_build_fdt will call leads through some nodes.
LEMMA CallsLead ==
  ASSUME NEW start \in Nat, NEW size \in Nat
  PROVE  LET calls == BuildCalls(start, size)
         IN  /\ calls \in Seq(ACall) /\ Len(calls) <= MostCalls
             /\ \E path : Leads(calls, path) /\ Written(calls, path) = MachineTold(start, size)
<1> DEFINE calls == BuildCalls(start, size)
<1>1. Runs(calls, MostCalls, <<>>, <<>>, MachineTold(start, size))
  BY RunsBuildCalls
<1> HIDE DEF calls
<1>2. calls \in Seq(ACall) /\ Len(calls) <= MostCalls
  BY <1>1 DEF Runs
<1>3. \E path : Leads(calls, path) /\ Written(calls, path) = MachineTold(start, size)
  BY <1>1 DEF Runs, Leads
<1> QED
  BY <1>2, <1>3 DEF calls

\* Before the first call nothing is built.
LEMMA NothingBuilt ==
  ASSUME NEW path, path[0] = <<>>
  PROVE  Built(EmptyState, 0, path, <<>>)
<1> DEFINE at == [k \in 0 .. 0 |-> 1]
           none == <<>>
<1>1. none \in Seq(Cell) /\ none \in Seq(StringEntry) /\ none \in Seq(Token) /\ none \in Seq(Texts)
      /\ Len(none) = 0
  OBVIOUS
<1> HIDE DEF none
<1>2. /\ EmptyState.tab = none /\ EmptyState.tab_size = 0 /\ EmptyState.open_node_count = 0
      /\ EmptyState.string_table = none /\ EmptyState.string_table_len = 0
      /\ EmptyState.string_table_size = 0
  BY DEF EmptyState, none
<1>3. EmptyState \in Builder
  <2>1. EmptyState = [tab |-> none, tab_size |-> 0, open_node_count |-> 0, string_table |-> none,
                      string_table_len |-> 0, string_table_size |-> 0]
    BY DEF EmptyState, none
  <2> QED
    BY <1>1, <2>1 DEF Builder
<1>4. StringsApart(EmptyState)
  <2>1. DOMAIN EmptyState.string_table = {}
    BY <1>2 DEF none
  <2> QED
    BY <2>1 DEF StringsApart
<1>5. ReadsAs(none, none, 0, at, path, none)
  <2>1. at[0] = 1 /\ path[0] = none
    BY DEF none
  <2>2. \A j \in 0 .. 0 : path[j] \in Seq(Texts)
    <3>1. \A j \in 0 .. 0 : j = 0
      OBVIOUS
    <3> QED
      BY <1>1, <2>1, <3>1
  <2> HIDE DEF at
  <2>3. 0 + 1 = 1 /\ 1 .. 0 = {}
    OBVIOUS
  <2> QED
    BY <1>1, <2>1, <2>2, <2>3 DEF ReadsAs, none
<1>6. Len(path[0]) = 0
  BY <1>1 DEF none
<1>7. 0 <= Len(EmptyState.tab) /\ Len(EmptyState.tab) <= MaxCells * 0
  BY <1>1, <1>2 DEF MaxCells
<1>8. 0 <= (MaxText + 1) * 0
  BY DEF MaxText
<1> QED
  BY <1>1, <1>2, <1>3, <1>4, <1>5, <1>6, <1>7, <1>8 DEF Built, none

\* Before the first call the calls lead through some nodes, wherever the kernel is.
LEMMA FirstCall ==
  ASSUME NEW f \in Nat, NEW k \in Nat
  PROVE  LET calls == BuildCalls(KernelBase(f, k), k)
         IN  /\ 0 \in 0 .. Len(calls)
             /\ \E path, told :
                  /\ Leads(calls, path) /\ Written(calls, path) = MachineTold(KernelBase(f, k), k)
                  /\ Built(EmptyState, 0, path, told) /\ Says(calls, path, told)
<1> DEFINE calls == BuildCalls(KernelBase(f, k), k)
           tokens == MachineTold(KernelBase(f, k), k)
<1>1. calls \in Seq(ACall) /\ \E path : Leads(calls, path) /\ Written(calls, path) = tokens
  BY RoundedUp, CallsLead
<1> HIDE DEF calls, tokens
<1>2. PICK path : Leads(calls, path) /\ Written(calls, path) = tokens
  BY <1>1
<1>3. Built(EmptyState, 0, path, <<>>) /\ Says(calls, path, <<>>)
  <2>1. Len(<<>>) = 0
    OBVIOUS
  <2> QED
    BY <1>2, <2>1, NothingBuilt DEF Leads, Says
<1>4. 0 \in 0 .. Len(calls)
  BY <1>1
<1> QED
  BY <1>2, <1>3, <1>4 DEF calls, tokens

\* One call of riscv_build_fdt adds the token it stands for.
LEMMA CallAddsToken ==
  ASSUME TreeInv, MakeCall
  PROVE  \E path, told : \E token \in Token :
           /\ Leads(Calls, path) /\ Written(Calls, path) = MachineTold(kernel_base, kernel_len)
           /\ Built(s, called, path, told)
           /\ SaysMove(token, path[called])
           /\ Built(s', called + 1, path, Append(told, token))
           /\ Says(Calls, path, Append(told, token))
<1>1. kernel_base \in Nat /\ kernel_len \in Nat
  BY RoundedUp DEF KernelPlaced, TreeInv
<1>2. Calls \in Seq(ACall)
  BY <1>1, CallsLead DEF Calls
<1>3. PICK path, told :
        /\ Leads(Calls, path) /\ Written(Calls, path) = MachineTold(kernel_base, kernel_len)
        /\ Built(s, called, path, told) /\ Says(Calls, path, told)
  BY DEF TreeInv
<1>4. called \in Nat /\ called + 1 \in 1 .. Len(Calls) /\ (called + 1) - 1 = called
  <2> DEFINE l == Len(Calls)
  <2>1. l \in Nat /\ called \in 0 .. l /\ called < l
    BY <1>2 DEF TreeInv, MakeCall
  <2> HIDE DEF l
  <2>2. called \in Nat /\ called + 1 \in 1 .. l /\ (called + 1) - 1 = called
    BY <2>1
  <2> QED
    BY <2>2 DEF l
<1> DEFINE call == Calls[called + 1]
<1>5. call \in ACall
  BY <1>2, <1>4
<1>6. Moves(call, path[called], path[called + 1])
  BY <1>3, <1>4 DEF Leads
<1>7. s' = Performed(s, call)
  BY DEF MakeCall
<1> HIDE DEF call
<1> DEFINE token == Meant(call, path[called])
<1>8. /\ token \in Token /\ SaysMove(token, path[called])
      /\ Built(Performed(s, call), called + 1, path, Append(told, token))
  BY <1>3, <1>4, <1>5, <1>6, CallBuilds
<1>9. Says(Calls, path, Append(told, token))
  <2> DEFINE more == Append(told, token)
  <2>1. told \in Seq(Token) /\ Len(told) = called
    BY <1>3 DEF Built, ReadsAs
  <2>2. /\ \A j \in 1 .. called : more[j] = told[j]
        /\ more[called + 1] = token /\ Len(more) = called + 1
    BY <1>8, <2>1
  <2>3. token = Meant(Calls[called + 1], path[(called + 1) - 1])
    BY <1>4 DEF call
  <2> HIDE DEF more, token
  <2>4. \A j \in 1 .. called + 1 : j \in 1 .. called \/ j = called + 1
    BY <1>4
  <2>5. \A j \in 1 .. called : told[j] = Meant(Calls[j], path[j - 1])
    BY <1>3, <2>1 DEF Says
  <2>6. Says(Calls, path, more)
    BY <2>2, <2>3, <2>4, <2>5 DEF Says
  <2> QED
    BY <2>6 DEF more
<1> HIDE DEF token
<1> QED
  BY <1>3, <1>7, <1>8, <1>9

\* Every step keeps what is built a tree.
LEMMA TreeInvStep == TreeInv /\ [BootNext]_bootVars => TreeInv'
<1> SUFFICES ASSUME TreeInv, [BootNext]_bootVars PROVE TreeInv'
  OBVIOUS
<1>0. KernelPlaced'
  BY PlacedStep DEF TreeInv
<1>1. CASE FileMissing \/ LoadFirmware \/ LoadKernel
  <2>1. /\ called' = 0 /\ s' = EmptyState /\ tree' = <<>>
        /\ phase' \notin {"file", "stub"}
    BY <1>1 DEF FileMissing, LoadFirmware, LoadKernel, built, TreeInv
  <2>2. Calls' = BuildCalls(KernelBase(firmware_len', kernel_len'), kernel_len')
    BY <1>0 DEF KernelPlaced, Calls
  <2>3. /\ 0 \in 0 .. Len(Calls')
        /\ \E path, told :
             /\ Leads(Calls', path)
             /\ Written(Calls', path) = MachineTold(kernel_base', kernel_len')
             /\ Built(EmptyState, 0, path, told) /\ Says(Calls', path, told)
    BY <1>0, <2>2, FirstCall DEF KernelPlaced
  <2>4. \E path, told :
          /\ Leads(Calls', path)
          /\ Written(Calls', path) = MachineTold(kernel_base', kernel_len')
          /\ Built(s', called', path, told) /\ Says(Calls', path, told)
    BY <2>1, <2>3
  <2> QED
    BY <1>0, <2>1, <2>3, <2>4 DEF TreeInv
<1>2. CASE MakeCall
  <2>1. PICK path, told : \E token \in Token :
           /\ Leads(Calls, path) /\ Written(Calls, path) = MachineTold(kernel_base, kernel_len)
           /\ Built(s, called, path, told)
           /\ SaysMove(token, path[called])
           /\ Built(s', called + 1, path, Append(told, token))
           /\ Says(Calls, path, Append(told, token))
    BY <1>2, CallAddsToken
  <2>2. /\ Calls' = Calls /\ kernel_base' = kernel_base /\ kernel_len' = kernel_len
        /\ called' = called + 1 /\ phase' = "tree" /\ phase = "tree" /\ tree' = tree
    BY <1>2 DEF MakeCall, Calls, placed
  <2>3. called' \in 0 .. Len(Calls) /\ called' # 0
    <3> DEFINE l == Len(Calls)
    <3>1. l \in Int /\ called \in 0 .. l /\ called < l
      <4>1. kernel_base \in Nat /\ kernel_len \in Nat
        BY RoundedUp DEF KernelPlaced, TreeInv
      <4>2. Calls \in Seq(ACall)
        BY <4>1, CallsLead DEF Calls
      <4> QED
        BY <1>2, <4>2 DEF MakeCall, TreeInv
    <3> HIDE DEF l
    <3>2. called + 1 \in 0 .. l /\ called + 1 # 0
      BY <3>1
    <3> QED
      BY <2>2, <3>2 DEF l
  <2>4. tree' = <<>>
    BY <2>2 DEF TreeInv
  <2>5. \E way, said :
          /\ Leads(Calls', way) /\ Written(Calls', way) = MachineTold(kernel_base', kernel_len')
          /\ Built(s', called', way, said) /\ Says(Calls', way, said)
    BY <2>1, <2>2
  <2> QED
    BY <1>0, <2>2, <2>3, <2>4, <2>5 DEF TreeInv
<1>3. CASE OutputTree
  <2>1. /\ Calls' = Calls /\ kernel_base' = kernel_base /\ kernel_len' = kernel_len
        /\ called' = called /\ s' = s /\ phase' = "file"
        /\ called = Len(Calls) /\ tree' = fdt_output(s) /\ fdt_output(s') = fdt_output(s)
    BY <1>3 DEF OutputTree, Calls, placed
  <2> QED
    BY <1>0, <2>1 DEF TreeInv
<1>4. CASE WriteTreeFile \/ StubInstruction \/ UNCHANGED bootVars
  <2>1. /\ UNCHANGED placed /\ called' = called /\ s' = s /\ tree' = tree
        /\ phase' = phase \/ (phase = "file" /\ phase' \in {"crashed", "stub"})
    <3>1. CASE WriteTreeFile
      BY <3>1 DEF WriteTreeFile
    <3>2. CASE StubInstruction \/ UNCHANGED bootVars
      <4>1. UNCHANGED <<phase, placed, built>>
        BY <3>2 DEF StubInstruction, bootVars
      <4>2. UNCHANGED placed /\ phase' = phase
        BY <4>1
      <4>3. UNCHANGED <<s, called, tree, stub>>
        BY <4>1 DEF built
      <4> QED
        BY <4>2, <4>3
    <3> QED
      BY <1>4, <3>1, <3>2
  <2>2. /\ Calls' = Calls /\ fdt_output(s') = fdt_output(s)
        /\ kernel_base' = kernel_base /\ kernel_len' = kernel_len
    BY <2>1 DEF Calls, placed
  <2> QED
    BY <1>0, <2>1, <2>2 DEF TreeInv
<1> QED
  BY <1>1, <1>2, <1>3, <1>4 DEF BootNext

\* Before the first step nothing is built.
LEMMA TreeInvInit == BootInit => TreeInv
<1> SUFFICES ASSUME BootInit PROVE TreeInv
  OBVIOUS
<1>1. /\ KernelPlaced /\ called = 0 /\ s = EmptyState /\ tree = <<>>
      /\ phase \notin {"file", "stub"}
  BY DEF BootInit, KernelPlaced, KernelBase
<1>2. Calls = BuildCalls(KernelBase(firmware_len, kernel_len), kernel_len)
  BY <1>1 DEF KernelPlaced, Calls
<1>3. /\ 0 \in 0 .. Len(Calls)
      /\ \E path, told :
           /\ Leads(Calls, path) /\ Written(Calls, path) = MachineTold(kernel_base, kernel_len)
           /\ Built(EmptyState, 0, path, told) /\ Says(Calls, path, told)
  BY <1>1, <1>2, FirstCall DEF KernelPlaced
<1>4. \E path, told :
        /\ Leads(Calls, path) /\ Written(Calls, path) = MachineTold(kernel_base, kernel_len)
        /\ Built(s, called, path, told) /\ Says(Calls, path, told)
  BY <1>1, <1>3
<1> QED
  BY <1>1, <1>3, <1>4 DEF TreeInv

\* The tables of the device tree hold what the builder puts into them.
THEOREM TablesAreLargeEnough == BootSpec => []TablesHoldTheirContents
<1>1. TreeInv => TablesHoldTheirContents
  BY DEF TreeInv, Built, TablesHoldTheirContents
<1> QED
  BY <1>1, TreeInvInit, TreeInvStep, PTL DEF BootSpec

\* A state of the builder that all calls have built.
LEMMA AllBuilt ==
  ASSUME TreeInv, called = Len(Calls)
  PROVE  \E path, told : /\ Built(s, called, path, told) /\ path[called] = <<>>
                         /\ called \in 0 .. MostCalls
<1>1. kernel_base \in Nat /\ kernel_len \in Nat
  BY RoundedUp DEF KernelPlaced, TreeInv
<1>2. Calls \in Seq(ACall) /\ Len(Calls) <= MostCalls
  BY <1>1, CallsLead DEF Calls
<1>3. called \in 0 .. MostCalls
  <2> DEFINE l == Len(Calls)
  <2>1. l \in Nat /\ l <= MostCalls /\ called = l
    BY <1>2
  <2> HIDE DEF l
  <2> QED
    BY <2>1 DEF MostCalls
<1> QED
  BY <1>3 DEF TreeInv, Leads

\* What is written after all calls is as the format wants it.
LEMMA WrittenWell ==
  ASSUME NEW st \in Builder, StringsApart(st), NEW cells \in Nat, cells = Len(st.tab)
  PROVE  LET out == fdt_output(st)
         IN  /\ \A i, j \in DOMAIN out.string_table :
                  out.string_table[i].text = out.string_table[j].text => i = j
             /\ out.off_dt_struct = 40 /\ out.off_dt_struct >= HeaderSize
             /\ out.off_mem_rsvmap % 8 = 0 /\ out.off_dt_struct % 4 = 0
             /\ out.totalsize % 8 = 0
             /\ out.off_mem_rsvmap >= out.off_dt_struct + out.size_dt_struct
             /\ out.off_dt_strings >= out.off_mem_rsvmap + ReserveSize
             /\ out.totalsize >= out.off_dt_strings + out.size_dt_strings
             /\ out.totalsize \in 0 .. 4 * cells + st.string_table_len + 80
<1> DEFINE out == fdt_output(st)
           strings == st.string_table_len
           rsvmap == Aligned8(40 + 4 * (cells + 1))
           total == Aligned8(rsvmap + 16 + strings)
<1>1. strings \in Nat /\ out.string_table = st.string_table
  BY DEF Builder, fdt_output
<1>2. /\ out.off_dt_struct = 40 /\ out.size_dt_struct = 4 * (cells + 1)
      /\ out.off_mem_rsvmap = rsvmap /\ out.off_dt_strings = rsvmap + 16
      /\ out.size_dt_strings = strings /\ out.totalsize = total
  BY DEF fdt_output, HeaderSize, WORD_SIZE, ReserveSize
<1>3. /\ rsvmap \in Nat /\ (rsvmap % 8) = 0
      /\ rsvmap >= 40 + 4 * (cells + 1) /\ rsvmap <= 40 + 4 * (cells + 1) + 7
  <2> DEFINE n == 40 + 4 * (cells + 1)
  <2>1. n \in Nat
    OBVIOUS
  <2> HIDE DEF n
  <2>2. /\ Aligned8(n) \in Nat /\ (Aligned8(n) % 8) = 0
        /\ Aligned8(n) >= n /\ Aligned8(n) <= n + 7
    BY <2>1 DEF Aligned8
  <2> QED
    BY <2>2 DEF n
<1>4. /\ total \in Nat /\ (total % 8) = 0
      /\ total >= rsvmap + 16 + strings /\ total <= rsvmap + 16 + strings + 7
  <2> DEFINE n == rsvmap + 16 + strings
  <2>1. n \in Nat
    BY <1>1, <1>3
  <2> HIDE DEF n
  <2>2. /\ Aligned8(n) \in Nat /\ (Aligned8(n) % 8) = 0
        /\ Aligned8(n) >= n /\ Aligned8(n) <= n + 7
    BY <2>1 DEF Aligned8
  <2> QED
    BY <2>2 DEF n
<1> HIDE DEF out, strings, rsvmap, total
<1>5. /\ total \in 0 .. 4 * cells + strings + 80
      /\ rsvmap >= 40 + 4 * (cells + 1) /\ rsvmap + 16 >= rsvmap + 16
      /\ total >= rsvmap + 16 + strings
      /\ 40 >= 40 /\ (40 % 4) = 0
  BY <1>1, <1>3, <1>4
<1>6. \A i, j \in DOMAIN out.string_table :
        out.string_table[i].text = out.string_table[j].text => i = j
  BY <1>1 DEF StringsApart
<1> QED
  BY <1>2, <1>3, <1>4, <1>5, <1>6 DEF out, strings, HeaderSize, ReserveSize

\* The tree that fdt_output writes is closed, aligned and of blocks that lie
\* apart.
THEOREM TreeIsWellFormed == BootSpec => []OutputIsWellFormed
<1>1. TreeInv => OutputIsWellFormed
  <2> SUFFICES ASSUME TreeInv, tree # <<>> PROVE OutputIsWellFormed
    BY DEF OutputIsWellFormed
  <2>1. called = Len(Calls) /\ tree = fdt_output(s)
    BY DEF TreeInv
  <2>2. PICK path, told : Built(s, called, path, told) /\ path[called] = <<>>
    BY <2>1, AllBuilt
  <2>3. s \in Builder /\ StringsApart(s) /\ Len(s.tab) \in Nat
    BY <2>2 DEF Built, Builder
  <2>4. s.open_node_count = 0
    <3>1. s.open_node_count = Len(path[called])
      BY <2>2 DEF Built
    <3>2. Len(<<>>) = 0
      OBVIOUS
    <3> QED
      BY <2>2, <3>1, <3>2
  <2>5. LET out == fdt_output(s)
        IN  /\ \A i, j \in DOMAIN out.string_table :
                 out.string_table[i].text = out.string_table[j].text => i = j
            /\ out.off_dt_struct >= HeaderSize
            /\ out.off_mem_rsvmap % 8 = 0 /\ out.off_dt_struct % 4 = 0
            /\ out.totalsize % 8 = 0
            /\ out.off_mem_rsvmap >= out.off_dt_struct + out.size_dt_struct
            /\ out.off_dt_strings >= out.off_mem_rsvmap + ReserveSize
            /\ out.totalsize >= out.off_dt_strings + out.size_dt_strings
    BY <2>3, WrittenWell
  <2> QED
    BY <2>1, <2>4, <2>5 DEF OutputIsWellFormed
<1> QED
  BY <1>1, TreeInvInit, TreeInvStep, PTL DEF BootSpec

\* The tree is written apart from the stub and ends within low RAM.
THEOREM TreeStaysInLowRam == BootSpec => []TreeFitsLowRam
<1>1. TreeInv /\ StubInv => TreeFitsLowRam
  <2> SUFFICES ASSUME TreeInv, StubInv, phase = "stub" PROVE TreeFitsLowRam
    BY DEF TreeFitsLowRam
  <2>1. called = Len(Calls) /\ tree = fdt_output(s)
    BY DEF TreeInv
  <2>2. PICK path, told : /\ Built(s, called, path, told) /\ path[called] = <<>>
                          /\ called \in 0 .. MostCalls
    BY <2>1, AllBuilt
  <2>3. s \in Builder /\ StringsApart(s) /\ Len(s.tab) \in Nat /\ s.string_table_len \in Nat
    BY <2>2 DEF Built, Builder
  <2> DEFINE cells == Len(s.tab)
             strings == s.string_table_len
             size == tree.totalsize
  <2>4. size \in 0 .. 4 * cells + strings + 80
    <3>1. cells \in Nat /\ cells = Len(s.tab)
      BY <2>3
    <3> HIDE DEF cells
    <3>2. LET out == fdt_output(s)
          IN  out.totalsize \in 0 .. 4 * cells + s.string_table_len + 80
      BY <2>3, <3>1, WrittenWell
    <3> QED
      BY <2>1, <3>2
  <2>5. cells <= MaxCells * called /\ strings <= (MaxText + 1) * called
    BY <2>2 DEF Built
  <2>6. cells \in Nat /\ strings \in Nat
    BY <2>3
  <2> HIDE DEF cells, strings, size
  <2>7. size \in Nat /\ size <= 20000
    <3>1. called \in 0 .. 51 /\ cells <= 35 * called /\ strings <= 64 * called
      BY <2>2, <2>5 DEF MostCalls, MaxCells, MaxText
    <3>2. cells <= 1785 /\ strings <= 3264
      BY <2>6, <3>1
    <3> DEFINE most == 4 * cells + strings + 80
    <3>3. most \in Int /\ most <= 20000
      BY <2>6, <3>2, SMT
    <3>4. size \in 0 .. most
      BY <2>4
    <3> HIDE DEF most
    <3> QED
      BY <3>3, <3>4, SMT
  <2>8. Len(stub) = 5
    BY DEF StubInv, write_bootloader
  <2>9. /\ Apart(BOOTLOADER_ADDRESS, WORD_SIZE * 5, fdt_addr, size)
        /\ fdt_addr + size <= LowRamBytes
    BY <2>7, SMT DEF Apart, BOOTLOADER_ADDRESS, WORD_SIZE, fdt_addr, Page, LowRamBytes,
                     LOW_RAM_SIZE
  <2> QED
    BY <2>8, <2>9 DEF TreeFitsLowRam, size
<1>2. BootInit => StubInv
  BY DEF BootInit, StubInv
<1> QED
  BY <1>1, <1>2, TreeInvInit, TreeInvStep, StubInvStep, PTL DEF BootSpec

-----------------------------------------------------------------------------
\* A reader of the tables has been told what was built.
LEMMA ReadIsTold ==
  ASSUME NEW st, NEW k \in Nat, NEW path, NEW told, Built(st, k, path, told)
  PROVE  /\ Tokens(st.tab, st.string_table) = told
         /\ told \in Seq(Token) /\ Len(told) = k /\ path[k] \in Seq(Texts)
         /\ Reader!Open(told) = path[k]
<1> DEFINE tab == st.tab
           strings == st.string_table
<1>1. tab \in Seq(Cell) /\ k <= Len(tab)
  BY DEF Built, Builder
<1>2. PICK at : ReadsAs(tab, strings, k, at, path, told)
  BY DEF Built
<1> HIDE DEF tab, strings
<1>3. Tokens(tab, strings) = told
  BY <1>1, <1>2, ToldBy
<1>4. /\ told \in Seq(Token) /\ Len(told) = k /\ path[0] = <<>> /\ path[k] \in Seq(Texts)
      /\ k # 0 => told[k].path = path[k]
  BY <1>2 DEF ReadsAs
<1>5. Reader!Open(told) = path[k]
  <2>1. CASE k = 0
    <3>1. told = <<>>
      BY <1>4, <2>1
    <3> QED
      BY <1>4, <2>1, <3>1 DEF Reader!Open
  <2>2. CASE k # 0
    <3>1. told # <<>>
      BY <1>4, <2>2
    <3> QED
      BY <1>4, <2>2, <3>1 DEF Reader!Open
  <2> QED
    BY <2>1, <2>2
<1> QED
  BY <1>3, <1>4, <1>5 DEF tab, strings

\* Every call of riscv_build_fdt says one token of a tree to the reader, and no
\* other step changes what is read.
THEOREM BuildsReadableTree == BootSpec => BuildsATree
<1>1. BootInit => Reader!TreeInit
  <2> SUFFICES ASSUME BootInit PROVE Reader!TreeInit
    OBVIOUS
  <2>1. TreeInv /\ called = 0
    BY TreeInvInit DEF BootInit
  <2>2. PICK path, told : Built(s, called, path, told)
    BY <2>1 DEF TreeInv
  <2>3. Read = told /\ told \in Seq(Token) /\ Len(told) = 0
    BY <2>1, <2>2, ReadIsTold DEF Read
  <2> QED
    BY <2>3 DEF Reader!TreeInit
<1>2. TreeInv /\ [BootNext]_bootVars => [Reader!TreeNext]_Read
  <2> SUFFICES ASSUME TreeInv, [BootNext]_bootVars PROVE [Reader!TreeNext]_Read
    OBVIOUS
  <2>1. CASE MakeCall
    <3>1. PICK path, told : \E token \in Token :
             /\ Leads(Calls, path) /\ Built(s, called, path, told)
             /\ SaysMove(token, path[called])
             /\ Built(s', called + 1, path, Append(told, token))
      BY <2>1, CallAddsToken
    <3>2. PICK token \in Token :
             /\ Leads(Calls, path) /\ Built(s, called, path, told)
             /\ SaysMove(token, path[called])
             /\ Built(s', called + 1, path, Append(told, token))
      BY <3>1
    <3>3. called \in Nat /\ called + 1 \in Nat /\ called \in 0 .. Len(Calls) - 1
      <4> DEFINE l == Len(Calls)
      <4>1. kernel_base \in Nat /\ kernel_len \in Nat
        BY RoundedUp DEF KernelPlaced, TreeInv
      <4>2. Calls \in Seq(ACall)
        BY <4>1, CallsLead DEF Calls
      <4>3. l \in Nat /\ called \in 0 .. l /\ called < l
        BY <2>1, <4>2 DEF MakeCall, TreeInv
      <4> HIDE DEF l
      <4>4. called \in Nat /\ called + 1 \in Nat /\ called \in 0 .. l - 1
        BY <4>3
      <4> QED
        BY <4>4 DEF l
    <3> DEFINE more == Append(told, token)
               open == path[called]
    <3>4. /\ Read = told /\ told \in Seq(Token) /\ Len(told) = called
          /\ open \in Seq(Texts) /\ Reader!Open(told) = open
      BY <3>2, <3>3, ReadIsTold DEF Read
    <3>5. Read' = more
      <4> HIDE DEF more
      <4>1. Tokens(s'.tab, s'.string_table) = more
        BY <3>2, <3>3, ReadIsTold DEF more
      <4> QED
        BY <4>1 DEF Read
    <3>6. Len(more) = Len(told) + 1 /\ more[Len(more)] = token
      BY <3>4
    <3>7. open = <<>> => told = <<>>
      <4>1. called # 0 => open # <<>>
        <5>1. called # 0 => called \in 1 .. Len(Calls) - 1
          BY <3>3
        <5> QED
          BY <3>2, <5>1 DEF Leads
      <4>2. called = 0 => told = <<>>
        BY <3>4
      <4> QED
        BY <4>1, <4>2
    <3>8. Reader!Added = token
      BY <3>5, <3>6 DEF Reader!Added
    <3>9. Reader!Speak
      BY <3>4, <3>5, <3>6, <3>8 DEF Reader!Speak
    <3>10. SaysMove(token, open)
      BY <3>2
    <3> HIDE DEF more, open
    <3>11. Reader!Begin \/ Reader!Property \/ Reader!End
      <4>1. CASE token.kind = "begin" /\ token.path = Append(open, token.name)
        BY <3>4, <3>7, <3>8, <4>1 DEF Reader!Begin
      <4>2. CASE token.kind = "prop" /\ open # <<>> /\ token.path = open
        BY <3>4, <3>8, <4>2 DEF Reader!Property
      <4>3. CASE token.kind = "end" /\ open # <<>> /\ token.path = Front(open)
        BY <3>4, <3>8, <4>3 DEF Reader!End, Front
      <4> QED
        BY <3>10, <4>1, <4>2, <4>3 DEF SaysMove
    <3> QED
      BY <3>9, <3>11 DEF Reader!TreeNext
  <2>2. CASE s' = s
    BY <2>2 DEF Read
  <2>3. MakeCall \/ s' = s
    <3>1. CASE FileMissing \/ LoadFirmware \/ LoadKernel
      BY <3>1 DEF FileMissing, LoadFirmware, LoadKernel, built
    <3>2. CASE OutputTree \/ WriteTreeFile
      BY <3>2 DEF OutputTree, WriteTreeFile
    <3>3. CASE StubInstruction
      BY <3>3, Zenon DEF StubInstruction, built
    <3>4. CASE UNCHANGED bootVars
      BY <3>4, Zenon DEF bootVars, built
    <3> QED
      BY <3>1, <3>2, <3>3, <3>4 DEF BootNext
  <2> QED
    BY <2>1, <2>2, <2>3
<1> QED
  BY <1>1, <1>2, TreeInvInit, TreeInvStep, PTL DEF BootSpec, BuildsATree, Reader!TreeSpec

-----------------------------------------------------------------------------
\* What the reader has been told is, call by call, what riscv_build_fdt meant: the
\* calls lead through some nodes, and each token is that of its call inside them.
ReadsBack ==
  \E path : /\ Leads(Calls, path)
            /\ Len(Read) = called /\ Says(Calls, path, Read)

\* At every moment of riscv_build_fdt a reader of the tables finds the calls so far
\* in their order: each node under its name, each property in its node with the
\* name and the very cells or texts that were passed, each end where it was called.
THEOREM CallsReadBack == BootSpec => []ReadsBack
<1>1. TreeInv => ReadsBack
  <2> SUFFICES ASSUME TreeInv PROVE ReadsBack
    OBVIOUS
  <2>1. PICK path, told : /\ Leads(Calls, path) /\ Built(s, called, path, told)
                          /\ Says(Calls, path, told)
    BY DEF TreeInv
  <2>2. called \in Nat
    <3>1. kernel_base \in Nat /\ kernel_len \in Nat
      BY RoundedUp DEF KernelPlaced, TreeInv
    <3>2. Calls \in Seq(ACall)
      BY <3>1, CallsLead DEF Calls
    <3> QED
      BY <3>2 DEF TreeInv
  <2>3. Read = told /\ Len(told) = called
    BY <2>1, <2>2, ReadIsTold DEF Read
  <2> QED
    BY <2>1, <2>3 DEF ReadsBack
<1> QED
  BY <1>1, TreeInvInit, TreeInvStep, PTL DEF BootSpec

\* After all calls the reader has been told of the machine, and of nothing else.
LEMMA AllTold ==
  ASSUME TreeInv, called = Len(Calls)
  PROVE  /\ Read \in Seq(Token)
         /\ {Read[i] : i \in DOMAIN Read} = MachineTold(kernel_base, kernel_len)
<1>1. PICK path, told :
        /\ Written(Calls, path) = MachineTold(kernel_base, kernel_len)
        /\ Built(s, called, path, told) /\ Says(Calls, path, told)
  BY DEF TreeInv
<1>2. called \in Nat
  <2>1. called \in 0 .. MostCalls
    BY AllBuilt
  <2> QED
    BY <2>1
<1>3. Read = told /\ told \in Seq(Token) /\ Len(told) = Len(Calls)
  BY <1>1, <1>2, ReadIsTold DEF Read
<1>4. DOMAIN told = 1 .. Len(Calls)
  BY <1>3
<1>5. \A j \in 1 .. Len(Calls) : told[j] = Meant(Calls[j], path[j - 1])
  BY <1>1, <1>3 DEF Says
<1>6. {told[i] : i \in DOMAIN told} = {Meant(Calls[j], path[j - 1]) : j \in 1 .. Len(Calls)}
  BY <1>4, <1>5
<1> QED
  BY <1>1, <1>3, <1>6 DEF Written

\* The nodes of the machine by their paths.
Cpus_path   == Append(Root, "cpus")
Cpu_path    == Append(Cpus_path, NodeName("cpu", 0))
Intc_path   == Append(Cpu_path, "interrupt-controller")
Memory_path == Append(Root, NodeName("memory", RAM_BASE_ADDR))
Soc_path    == Append(Root, "soc")
Clint_path  == Append(Soc_path, NodeName("clint", CLINT_BASE_ADDR))
Uart_path   == Append(Soc_path, NodeName("uart", UART_BASE_ADDR))
Chosen_path == Append(Root, "chosen")

\* A path by its last name and the nodes around it.
LEMMA LastName ==
  ASSUME NEW S, NEW p \in Seq(S), NEW name \in S
  PROVE  Last(Append(p, name)) = name /\ Front(Append(p, name)) = p
<1> DEFINE q == Append(p, name)
<1>1. Len(q) = Len(p) + 1 /\ q[Len(p) + 1] = name
  OBVIOUS
<1>2. SubSeq(q, 1, Len(q) - 1) = p
  OBVIOUS
<1> HIDE DEF q
<1>3. Last(q) = name /\ Front(q) = p
  BY <1>1, <1>2 DEF Last, Front
<1> QED
  BY <1>3 DEF q

\* The names of the nodes.
LEMMA NodesAreNamed ==
  /\ NodeName("cpu", 0) = "cpu@0" /\ NodeName("memory", RAM_BASE_ADDR) = "memory@80000000"
  /\ NodeName("clint", CLINT_BASE_ADDR) = "clint@2000000"
  /\ NodeName("uart", UART_BASE_ADDR) = "uart@10000000"
  BY NamesAssumption, Zenon DEF NodeName

\* The names of the nodes are among the texts.
LEMMA NodeNamesAreTexts ==
  /\ "cpu@0" \in Texts /\ "memory@80000000" \in Texts /\ "clint@2000000" \in Texts
  /\ "uart@10000000" \in Texts
<1>1. ASSUME NEW name \in {"cpu", "memory", "clint", "uart"},
             NEW word \in {0, RAM_BASE_ADDR, CLINT_BASE_ADDR, UART_BASE_ADDR}
      PROVE  NodeName(name, word) \in Texts
  <2>1. NodeName(name, word) \in NodeTexts(name)
    BY Zenon DEF NodeTexts, NodeName
  <2> QED
    BY <2>1, Zenon DEF Texts
<1> QED
  BY <1>1, NodesAreNamed, Zenon

\* The last names of the nodes and their parents.
LEMMA NodePaths ==
  /\ Last(Root) = "" /\ Last(Cpus_path) = "cpus" /\ Last(Cpu_path) = "cpu@0"
  /\ Last(Intc_path) = "interrupt-controller" /\ Last(Memory_path) = "memory@80000000"
  /\ Last(Soc_path) = "soc" /\ Last(Clint_path) = "clint@2000000"
  /\ Last(Uart_path) = "uart@10000000" /\ Last(Chosen_path) = "chosen"
  /\ Front(Cpu_path) = Cpus_path /\ Front(Memory_path) = Root
  /\ Front(Clint_path) = Soc_path /\ Front(Uart_path) = Soc_path
<1>1. Root \in Seq(Texts) /\ Last(Root) = ""
  <2> DEFINE none == <<>>
             text == ""
  <2>1. none \in Seq(Texts)
    OBVIOUS
  <2>2. text \in Texts
    BY PlainTextsAreTexts, Zenon DEF PlainTexts
  <2>3. Root = Append(none, text)
    BY DEF Root
  <2> HIDE DEF none, text
  <2>4. Append(none, text) \in Seq(Texts) /\ Last(Append(none, text)) = text
    BY <2>1, <2>2, Opened, LastName
  <2> QED
    BY <2>3, <2>4 DEF text
<1>2. "cpus" \in Texts /\ "soc" \in Texts /\ "chosen" \in Texts /\ "interrupt-controller" \in Texts
  BY PlainTextsAreTexts, Zenon DEF PlainTexts
<1>3. /\ Cpus_path \in Seq(Texts) /\ Last(Cpus_path) = "cpus"
      /\ Soc_path \in Seq(Texts) /\ Last(Soc_path) = "soc"
      /\ Last(Chosen_path) = "chosen"
      /\ Last(Memory_path) = "memory@80000000" /\ Front(Memory_path) = Root
  BY <1>1, <1>2, NodesAreNamed, NodeNamesAreTexts, LastName, Opened, ZenonT(60)
     DEF Cpus_path, Soc_path, Chosen_path, Memory_path
<1>4. /\ Cpu_path \in Seq(Texts) /\ Last(Cpu_path) = "cpu@0" /\ Front(Cpu_path) = Cpus_path
      /\ Last(Clint_path) = "clint@2000000" /\ Front(Clint_path) = Soc_path
      /\ Last(Uart_path) = "uart@10000000" /\ Front(Uart_path) = Soc_path
  BY <1>3, NodesAreNamed, NodeNamesAreTexts, LastName, Opened, ZenonT(60)
     DEF Cpu_path, Clint_path, Uart_path
<1>5. Last(Intc_path) = "interrupt-controller"
  BY <1>2, <1>4, LastName, Zenon DEF Intc_path
<1> QED
  BY <1>1, <1>3, <1>4, <1>5, Zenon

\* The properties of the nodes.
RootSays ==
  { Property("#address-cells", OneNumber(2), Root), Property("#size-cells", OneNumber(2), Root),
    Property("compatible", OneText("ucbbar,riscvemu-bar"), Root),
    Property("model", OneText("emuriscv,emuriscv"), Root) }

CpusSays ==
  { Property("#address-cells", OneNumber(1), Cpus_path),
    Property("#size-cells", OneNumber(0), Cpus_path),
    Property("timebase-frequency", OneNumber(RTC_FREQ), Cpus_path) }

CpuSays ==
  { Property("device_type", OneText("cpu"), Cpu_path), Property("reg", OneNumber(0), Cpu_path),
    Property("status", OneText("okay"), Cpu_path),
    Property("compatible", OneText("riscv"), Cpu_path),
    Property("riscv,isa", OneText("rv32i"), Cpu_path),
    Property("mmu-type", OneText("riscv,sv32"), Cpu_path),
    Property("clock-frequency", OneNumber(RTC_FREQ), Cpu_path) }

IntcSays ==
  { Property("#interrupt-cells", OneNumber(1), Intc_path),
    Property("interrupt-controller", NoText, Intc_path),
    Property("compatible", OneText("riscv,cpu-intc"), Intc_path),
    Property("phandle", OneNumber(intc_phandle), Intc_path) }

MemorySays ==
  { Property("device_type", OneText("memory"), Memory_path),
    Property("reg", LongNumbers(Address(RAM_BASE_ADDR), Number(4 * ram_size)), Memory_path) }

SocSays ==
  { Property("#address-cells", OneNumber(2), Soc_path),
    Property("#size-cells", OneNumber(2), Soc_path),
    Property("compatible", TextCells(<<"ucbbar,riscvemu-bar-soc", "simple-bus">>), Soc_path),
    Property("ranges", NoText, Soc_path) }

ClintSays ==
  { Property("compatible", OneText("riscv,clint0"), Clint_path),
    Property("interrupts-extended", Interrupts, Clint_path),
    Property("reg", LongNumbers(Address(CLINT_BASE_ADDR), Number(4 * CLINT_SIZE)), Clint_path) }

UartSays ==
  { Property("compatible", OneText("sifive,uart0"), Uart_path),
    Property("reg", LongNumbers(Address(UART_BASE_ADDR), Number(4 * UART_SIZE)), Uart_path) }

ChosenSays(start, size) ==
  { Property("bootargs", OneText("debug keep_bootcon bootmem_debug earlycon=sbi"), Chosen_path),
    Property("stdout-path", OneText("/soc/uart@10000000"), Chosen_path) }
  \cup KernelRangeTold(Chosen_path, start, size)

MachineSays(start, size) ==
  RootSays \cup CpusSays \cup CpuSays \cup IntcSays \cup MemorySays \cup SocSays \cup ClintSays
  \cup UartSays \cup ChosenSays(start, size)

\* The kinds of the tokens.
LEMMA Kinds ==
  /\ \A name, p : Begun(name, p).kind = "begin" /\ Begun(name, p).path = Append(p, name)
  /\ \A p : Ended(p).kind = "end"
  /\ \A name, value, p : /\ Property(name, value, p).kind = "prop"
                         /\ Property(name, value, p).name = name
                         /\ Property(name, value, p).value = value
                         /\ Property(name, value, p).path = p
  BY DEF Begun, Ended, Property, Said

\* What is said among what is told.
SaidIn(told) == {t \in told : t.kind = "prop"}

IsProperty(t) == \E name, value, p : t = Property(name, value, p)

\* What the nodes say are properties.
LEMMA SaidByNodes ==
  /\ \A t \in RootSays : t.kind = "prop"
  /\ \A t \in CpusSays : t.kind = "prop"
  /\ \A t \in CpuSays : t.kind = "prop"
  /\ \A t \in IntcSays : t.kind = "prop"
  /\ \A t \in MemorySays : t.kind = "prop"
  /\ \A t \in SocSays : t.kind = "prop"
  /\ \A t \in ClintSays : t.kind = "prop"
  /\ \A t \in UartSays : t.kind = "prop"
  /\ \A start, size : \A t \in ChosenSays(start, size) : t.kind = "prop"
<1>0. \A t : IsProperty(t) => t.kind = "prop"
  BY Kinds DEF IsProperty
<1>1. \A t \in RootSays : IsProperty(t)
  BY Zenon DEF RootSays, IsProperty
<1>2. \A t \in CpusSays : IsProperty(t)
  BY Zenon DEF CpusSays, IsProperty
<1>3. \A t \in CpuSays : IsProperty(t)
  BY Zenon DEF CpuSays, IsProperty
<1>4. \A t \in IntcSays : IsProperty(t)
  BY Zenon DEF IntcSays, IsProperty
<1>5. \A t \in MemorySays : IsProperty(t)
  BY Zenon DEF MemorySays, IsProperty
<1>6. \A t \in SocSays : IsProperty(t)
  BY Zenon DEF SocSays, IsProperty
<1>7. \A t \in ClintSays : IsProperty(t)
  BY Zenon DEF ClintSays, IsProperty
<1>8. \A t \in UartSays : IsProperty(t)
  BY Zenon DEF UartSays, IsProperty
<1>9. ASSUME NEW start, NEW size PROVE \A t \in ChosenSays(start, size) : IsProperty(t)
  <2>1. CASE size = 0
    BY <2>1, Zenon DEF ChosenSays, KernelRangeTold, IsProperty
  <2>2. CASE size # 0
    BY <2>2, Zenon DEF ChosenSays, KernelRangeTold, IsProperty
  <2> QED
    BY <2>1, <2>2
<1> QED
  BY <1>0, <1>1, <1>2, <1>3, <1>4, <1>5, <1>6, <1>7, <1>8, <1>9, Zenon

\* Where nodes begin and end nothing is said of them.
LEMMA EndsAreNoProperties ==
  ASSUME NEW name, NEW p, NEW q
  PROVE  \A t \in {Begun(name, p), Ended(q)} : t.kind # "prop"
<1>1. Begun(name, p).kind # "prop"
  BY DEF Begun, Said
<1>2. Ended(q).kind # "prop"
  BY DEF Ended, Said
<1> QED
  BY <1>1, <1>2

\* What the reader is told of the machine are these properties, and where nodes
\* begin and end.
LEMMA ToldProperties ==
  ASSUME NEW start, NEW size
  PROVE  SaidIn(MachineTold(start, size)) = MachineSays(start, size)
<1>1. \A P, Q : SaidIn(P \cup Q) = SaidIn(P) \cup SaidIn(Q)
  BY DEF SaidIn
<1>2. SaidIn(InterruptControllerTold(Cpu_path)) = IntcSays
  <2> DEFINE ends == {Begun("interrupt-controller", Cpu_path), Ended(Intc_path)}
             says == IntcSays
             inside == {}
  <2>1. InterruptControllerTold(Cpu_path) = ends \cup says \cup inside
    BY Zenon DEF InterruptControllerTold, IntcSays, Intc_path
  <2>2. \A t \in ends : t.kind # "prop"
    BY EndsAreNoProperties, Zenon
  <2>3. \A t \in says : t.kind = "prop"
    BY SaidByNodes, Zenon
  <2> HIDE DEF ends, says, inside
  <2>4. SaidIn(ends \cup says \cup inside) = says \cup SaidIn(inside)
    BY <2>2, <2>3 DEF SaidIn
  <2>5. SaidIn(inside) = {}
    BY DEF SaidIn, inside
  <2> QED
    BY <2>1, <2>4, <2>5 DEF says
<1>3. SaidIn(CpuTold(Cpus_path)) = CpuSays \cup IntcSays
  <2> DEFINE ends == {Begun(NodeName("cpu", 0), Cpus_path), Ended(Cpu_path)}
             says == CpuSays
             inside == InterruptControllerTold(Cpu_path)
  <2>1. CpuTold(Cpus_path) = ends \cup says \cup inside
    BY Zenon DEF CpuTold, CpuSays, Cpu_path
  <2>2. \A t \in ends : t.kind # "prop"
    BY EndsAreNoProperties, Zenon
  <2>3. \A t \in says : t.kind = "prop"
    BY SaidByNodes, Zenon
  <2> HIDE DEF ends, says, inside
  <2>4. SaidIn(ends \cup says \cup inside) = says \cup SaidIn(inside)
    BY <2>2, <2>3 DEF SaidIn
  <2> QED
    BY <1>2, <2>1, <2>4 DEF says, inside
<1>4. SaidIn(CpusTold(Root)) = CpusSays \cup (CpuSays \cup IntcSays)
  <2> DEFINE ends == {Begun("cpus", Root), Ended(Cpus_path)}
             says == CpusSays
             inside == CpuTold(Cpus_path)
  <2>1. CpusTold(Root) = ends \cup says \cup inside
    BY Zenon DEF CpusTold, CpusSays, Cpus_path
  <2>2. \A t \in ends : t.kind # "prop"
    BY EndsAreNoProperties, Zenon
  <2>3. \A t \in says : t.kind = "prop"
    BY SaidByNodes, Zenon
  <2> HIDE DEF ends, says, inside
  <2>4. SaidIn(ends \cup says \cup inside) = says \cup SaidIn(inside)
    BY <2>2, <2>3 DEF SaidIn
  <2> QED
    BY <1>3, <2>1, <2>4 DEF says, inside
<1>5. SaidIn(MemoryTold(Root)) = MemorySays
  <2> DEFINE ends == {Begun(NodeName("memory", RAM_BASE_ADDR), Root), Ended(Memory_path)}
             says == MemorySays
             inside == {}
  <2>1. MemoryTold(Root) = ends \cup says \cup inside
    BY Zenon DEF MemoryTold, MemorySays, Memory_path
  <2>2. \A t \in ends : t.kind # "prop"
    BY EndsAreNoProperties, Zenon
  <2>3. \A t \in says : t.kind = "prop"
    BY SaidByNodes, Zenon
  <2> HIDE DEF ends, says, inside
  <2>4. SaidIn(ends \cup says \cup inside) = says \cup SaidIn(inside)
    BY <2>2, <2>3 DEF SaidIn
  <2>5. SaidIn(inside) = {}
    BY DEF SaidIn, inside
  <2> QED
    BY <2>1, <2>4, <2>5 DEF says
<1>6. SaidIn(ClintTold(Soc_path)) = ClintSays
  <2> DEFINE ends == {Begun(NodeName("clint", CLINT_BASE_ADDR), Soc_path), Ended(Clint_path)}
             says == ClintSays
             inside == {}
  <2>1. ClintTold(Soc_path) = ends \cup says \cup inside
    BY Zenon DEF ClintTold, ClintSays, Clint_path
  <2>2. \A t \in ends : t.kind # "prop"
    BY EndsAreNoProperties, Zenon
  <2>3. \A t \in says : t.kind = "prop"
    BY SaidByNodes, Zenon
  <2> HIDE DEF ends, says, inside
  <2>4. SaidIn(ends \cup says \cup inside) = says \cup SaidIn(inside)
    BY <2>2, <2>3 DEF SaidIn
  <2>5. SaidIn(inside) = {}
    BY DEF SaidIn, inside
  <2> QED
    BY <2>1, <2>4, <2>5 DEF says
<1>7. SaidIn(UartTold(Soc_path)) = UartSays
  <2> DEFINE ends == {Begun(NodeName("uart", UART_BASE_ADDR), Soc_path), Ended(Uart_path)}
             says == UartSays
             inside == {}
  <2>1. UartTold(Soc_path) = ends \cup says \cup inside
    BY Zenon DEF UartTold, UartSays, Uart_path
  <2>2. \A t \in ends : t.kind # "prop"
    BY EndsAreNoProperties, Zenon
  <2>3. \A t \in says : t.kind = "prop"
    BY SaidByNodes, Zenon
  <2> HIDE DEF ends, says, inside
  <2>4. SaidIn(ends \cup says \cup inside) = says \cup SaidIn(inside)
    BY <2>2, <2>3 DEF SaidIn
  <2>5. SaidIn(inside) = {}
    BY DEF SaidIn, inside
  <2> QED
    BY <2>1, <2>4, <2>5 DEF says
<1>8. SaidIn(SocTold(Root)) = SocSays \cup (ClintSays \cup UartSays)
  <2> DEFINE ends == {Begun("soc", Root), Ended(Soc_path)}
             says == SocSays
             inside == ClintTold(Soc_path) \cup UartTold(Soc_path)
  <2>1. SocTold(Root) = ends \cup says \cup inside
    BY Zenon DEF SocTold, SocSays, Soc_path
  <2>2. \A t \in ends : t.kind # "prop"
    BY EndsAreNoProperties, Zenon
  <2>3. \A t \in says : t.kind = "prop"
    BY SaidByNodes, Zenon
  <2> HIDE DEF ends, says, inside
  <2>4. SaidIn(ends \cup says \cup inside) = says \cup SaidIn(inside)
    BY <2>2, <2>3 DEF SaidIn
  <2> QED
    BY <1>1, <1>6, <1>7, <2>1, <2>4 DEF says, inside
<1>9. SaidIn(ChosenTold(Root, start, size)) = ChosenSays(start, size)
  <2> DEFINE ends == {Begun("chosen", Root), Ended(Chosen_path)}
             says == ChosenSays(start, size)
             inside == {}
  <2>1. ChosenTold(Root, start, size) = ends \cup says \cup inside
    BY Zenon DEF ChosenTold, ChosenSays, Chosen_path
  <2>2. \A t \in ends : t.kind # "prop"
    BY EndsAreNoProperties, Zenon
  <2>3. \A t \in says : t.kind = "prop"
    BY SaidByNodes, Zenon
  <2> HIDE DEF ends, says, inside
  <2>4. SaidIn(ends \cup says \cup inside) = says \cup SaidIn(inside)
    BY <2>2, <2>3 DEF SaidIn
  <2>5. SaidIn(inside) = {}
    BY DEF SaidIn, inside
  <2> QED
    BY <2>1, <2>4, <2>5 DEF says
<1>10. SaidIn(MachineTold(start, size))
         = RootSays \cup (CpusSays \cup (CpuSays \cup IntcSays) \cup MemorySays
                          \cup (SocSays \cup (ClintSays \cup UartSays))
                          \cup ChosenSays(start, size))
  <2> DEFINE cpus == CpusTold(Root)
             memory == MemoryTold(Root)
             soc == SocTold(Root)
             chosen == ChosenTold(Root, start, size)
             inside == cpus \cup memory \cup soc \cup chosen
             ends == {Begun("", <<>>), Ended(Root)}
  <2>1. MachineTold(start, size) = ends \cup RootSays \cup inside
    BY Zenon DEF MachineTold, RootSays
  <2>2. \A t \in ends : t.kind # "prop"
    BY EndsAreNoProperties, Zenon
  <2>a. \A t \in RootSays : t.kind = "prop"
    BY SaidByNodes
  <2> HIDE DEF cpus, memory, soc, chosen, ends
  <2>3. SaidIn(inside) = SaidIn(cpus) \cup SaidIn(memory) \cup SaidIn(soc) \cup SaidIn(chosen)
    BY DEF SaidIn
  <2> HIDE DEF inside
  <2>4. SaidIn(ends \cup RootSays \cup inside) = RootSays \cup SaidIn(inside)
    BY <2>2, <2>a DEF SaidIn
  <2> QED
    BY <1>4, <1>5, <1>8, <1>9, <2>1, <2>3, <2>4 DEF cpus, memory, soc, chosen
<1>11. RootSays \cup (CpusSays \cup (CpuSays \cup IntcSays) \cup MemorySays
                      \cup (SocSays \cup (ClintSays \cup UartSays))
                      \cup ChosenSays(start, size))
         = MachineSays(start, size)
  BY DEF MachineSays
<1> QED
  BY <1>10, <1>11

\* The properties by the node they are said of.
LEMMA SaysAt ==
  ASSUME NEW start, NEW size, NEW t \in MachineSays(start, size)
  PROVE  /\ t.path = Root => t \in RootSays
         /\ t.path = Cpus_path => t \in CpusSays
         /\ t.path = Cpu_path => t \in CpuSays
         /\ t.path = Intc_path => t \in IntcSays
         /\ t.path = Memory_path => t \in MemorySays
         /\ t.path = Soc_path => t \in SocSays
         /\ t.path = Clint_path => t \in ClintSays
         /\ t.path = Uart_path => t \in UartSays
         /\ t.path = Chosen_path => t \in ChosenSays(start, size)
<1> DEFINE Of(p, x) == \E name, value : x = Property(name, value, p)
<1>0. \A p, x : Of(p, x) => x.path = p
  BY Kinds
<1>1. t \in RootSays => Of(Root, t)
  BY Zenon DEF RootSays
<1>2. t \in CpusSays => Of(Cpus_path, t)
  BY Zenon DEF CpusSays
<1>3. t \in CpuSays => Of(Cpu_path, t)
  BY Zenon DEF CpuSays
<1>4. t \in IntcSays => Of(Intc_path, t)
  BY Zenon DEF IntcSays
<1>5. t \in MemorySays => Of(Memory_path, t)
  BY Zenon DEF MemorySays
<1>6. t \in SocSays => Of(Soc_path, t)
  BY Zenon DEF SocSays
<1>7. t \in ClintSays => Of(Clint_path, t)
  BY Zenon DEF ClintSays
<1>8. t \in UartSays => Of(Uart_path, t)
  BY Zenon DEF UartSays
<1>9. t \in ChosenSays(start, size) => Of(Chosen_path, t)
  <2>1. CASE size = 0
    BY <2>1, Zenon DEF ChosenSays, KernelRangeTold
  <2>2. CASE size # 0
    BY <2>2, Zenon DEF ChosenSays, KernelRangeTold
  <2> QED
    BY <2>1, <2>2
<1> HIDE DEF Of
<1>10. /\ t \in RootSays => t.path = Root
       /\ t \in CpusSays => t.path = Cpus_path
       /\ t \in CpuSays => t.path = Cpu_path
       /\ t \in IntcSays => t.path = Intc_path
       /\ t \in MemorySays => t.path = Memory_path
       /\ t \in SocSays => t.path = Soc_path
       /\ t \in ClintSays => t.path = Clint_path
       /\ t \in UartSays => t.path = Uart_path
       /\ t \in ChosenSays(start, size) => t.path = Chosen_path
  BY <1>0, <1>1, <1>2, <1>3, <1>4, <1>5, <1>6, <1>7, <1>8, <1>9
<1>11. \/ t \in RootSays \/ t \in CpusSays \/ t \in CpuSays \/ t \in IntcSays
       \/ t \in MemorySays \/ t \in SocSays \/ t \in ClintSays \/ t \in UartSays
       \/ t \in ChosenSays(start, size)
  BY DEF MachineSays
<1>12. Last(Root) \notin {"cpus", "cpu@0", "interrupt-controller", "memory@80000000", "soc",
                          "clint@2000000", "uart@10000000", "chosen"}
  BY NodePaths, Zenon
<1>13. /\ Last(Cpus_path) = "cpus" /\ Last(Cpu_path) = "cpu@0"
       /\ Last(Intc_path) = "interrupt-controller" /\ Last(Memory_path) = "memory@80000000"
       /\ Last(Soc_path) = "soc" /\ Last(Clint_path) = "clint@2000000"
       /\ Last(Uart_path) = "uart@10000000" /\ Last(Chosen_path) = "chosen"
  BY NodePaths, Zenon
<1> QED
  BY <1>10, <1>11, <1>12, <1>13

\* What CHOOSE finds where only one value is said.
LEMMA ValueIs ==
  ASSUME NEW props, NEW token \in props, NEW path, NEW name, NEW value,
         token.path = path, token.name = name,
         \A t \in props : t.path = path /\ t.name = name => t.value = value
  PROVE  Value(props, path, name) = value
<1> DEFINE chosen == CHOOSE t \in props : t.path = path /\ t.name = name
<1>1. chosen \in props /\ chosen.path = path /\ chosen.name = name
  OBVIOUS
<1>2. Value(props, path, name) = chosen.value
  BY DEF Value
<1> HIDE DEF chosen
<1> QED
  BY <1>1, <1>2

\* A property that its node says once has the value that it says.
LEMMA SaidOnce ==
  ASSUME NEW props, NEW path, NEW name, NEW value, Property(name, value, path) \in props,
         \A t \in props : t.path = path /\ t.name = name => t.value = value
  PROVE  Value(props, path, name) = value
<1> DEFINE token == Property(name, value, path)
<1>1. token \in props /\ token.path = path /\ token.name = name
  BY Kinds
<1> HIDE DEF token
<1> QED
  BY <1>1, ValueIs

\* What the root says, by the names of the properties.
LEMMA RootTells ==
  ASSUME NEW t \in RootSays
  PROVE  /\ t.name = "#address-cells" => t.value = OneNumber(2)
         /\ t.name = "#size-cells" => t.value = OneNumber(2)
         /\ t.name \notin {"reg", "phandle", "interrupts-extended"}
<1> DEFINE text1 == OneText("ucbbar,riscvemu-bar")
           text2 == OneText("emuriscv,emuriscv")
<1>1. \/ t = Property("#address-cells", OneNumber(2), Root)
      \/ t = Property("#size-cells", OneNumber(2), Root)
      \/ t = Property("compatible", text1, Root)
      \/ t = Property("model", text2, Root)
  BY Zenon DEF RootSays
<1> HIDE DEF text1, text2
<1> QED
  BY <1>1, Kinds

\* What the processors says.
LEMMA CpusTells ==
  ASSUME NEW t \in CpusSays
  PROVE  /\ t.name = "#address-cells" => t.value = OneNumber(1)
         /\ t.name = "#size-cells" => t.value = OneNumber(0)
         /\ t.name \notin {"reg", "phandle", "interrupts-extended"}
<1>1. \/ t = Property("#address-cells", OneNumber(1), Cpus_path)
      \/ t = Property("#size-cells", OneNumber(0), Cpus_path)
      \/ t = Property("timebase-frequency", OneNumber(RTC_FREQ), Cpus_path)
  BY Zenon DEF CpusSays
<1> QED
  BY <1>1, Kinds

\* What the processor says.
LEMMA CpuTells ==
  ASSUME NEW t \in CpuSays
  PROVE  /\ t.name = "reg" => t.value = OneNumber(0) /\ t.path = Cpu_path
         /\ t.name \notin {"phandle", "interrupts-extended"}
<1> DEFINE text1 == OneText("cpu")
           text2 == OneText("okay")
           text3 == OneText("riscv")
           isa == "riscv,isa"
           text4 == OneText("rv32i")
           text5 == OneText("riscv,sv32")
<1>1. \/ t = Property("device_type", text1, Cpu_path)
      \/ t = Property("reg", OneNumber(0), Cpu_path)
      \/ t = Property("status", text2, Cpu_path)
      \/ t = Property("compatible", text3, Cpu_path)
      \/ t = Property(isa, text4, Cpu_path)
      \/ t = Property("mmu-type", text5, Cpu_path)
      \/ t = Property("clock-frequency", OneNumber(RTC_FREQ), Cpu_path)
  BY Zenon DEF CpuSays
<1>2. isa \notin {"reg", "phandle", "interrupts-extended"}
  BY Zenon
<1> HIDE DEF text1, text2, text3, isa, text4, text5
<1> QED
  BY <1>1, <1>2, Kinds

\* What the interrupt controller says.
LEMMA IntcTells ==
  ASSUME NEW t \in IntcSays
  PROVE  /\ t.name = "#interrupt-cells" => t.value = OneNumber(1)
         /\ t.name = "phandle" => t.value = OneNumber(intc_phandle) /\ t.path = Intc_path
         /\ t.name \notin {"reg", "interrupts-extended"}
<1> DEFINE text1 == OneText("riscv,cpu-intc")
<1>1. \/ t = Property("#interrupt-cells", OneNumber(1), Intc_path)
      \/ t = Property("interrupt-controller", NoText, Intc_path)
      \/ t = Property("compatible", text1, Intc_path)
      \/ t = Property("phandle", OneNumber(intc_phandle), Intc_path)
  BY Zenon DEF IntcSays
<1> HIDE DEF text1
<1> QED
  BY <1>1, Kinds

\* What the memory says.
LEMMA MemoryTells ==
  ASSUME NEW t \in MemorySays
  PROVE  /\ t.name = "reg" =>
              /\ t.path = Memory_path
              /\ t.value = LongNumbers(Address(RAM_BASE_ADDR), Number(4 * ram_size))
         /\ t.name \notin {"phandle", "interrupts-extended"}
<1> DEFINE text1 == OneText("memory")
<1>1. \/ t = Property("device_type", text1, Memory_path)
      \/ t = Property("reg", LongNumbers(Address(RAM_BASE_ADDR), Number(4 * ram_size)), Memory_path)
  BY Zenon DEF MemorySays
<1> HIDE DEF text1
<1> QED
  BY <1>1, Kinds

\* What the bus says.
LEMMA SocTells ==
  ASSUME NEW t \in SocSays
  PROVE  /\ t.name = "#address-cells" => t.value = OneNumber(2)
         /\ t.name = "#size-cells" => t.value = OneNumber(2)
         /\ t.name \notin {"reg", "phandle", "interrupts-extended"}
<1> DEFINE text1 == TextCells(<<"ucbbar,riscvemu-bar-soc", "simple-bus">>)
<1>1. \/ t = Property("#address-cells", OneNumber(2), Soc_path)
      \/ t = Property("#size-cells", OneNumber(2), Soc_path)
      \/ t = Property("compatible", text1, Soc_path)
      \/ t = Property("ranges", NoText, Soc_path)
  BY Zenon DEF SocSays
<1> HIDE DEF text1
<1> QED
  BY <1>1, Kinds

\* What the CLINT says.
LEMMA ClintTells ==
  ASSUME NEW t \in ClintSays
  PROVE  /\ t.name = "reg" =>
              /\ t.path = Clint_path
              /\ t.value = LongNumbers(Address(CLINT_BASE_ADDR), Number(4 * CLINT_SIZE))
         /\ t.name = "interrupts-extended" => t.value = Interrupts /\ t.path = Clint_path
         /\ t.name \notin {"phandle"}
<1> DEFINE text1 == OneText("riscv,clint0")
<1>1. \/ t = Property("compatible", text1, Clint_path)
      \/ t = Property("interrupts-extended", Interrupts, Clint_path)
      \/ t = Property("reg", LongNumbers(Address(CLINT_BASE_ADDR), Number(4 * CLINT_SIZE)),
                      Clint_path)
  BY Zenon DEF ClintSays
<1> HIDE DEF text1
<1> QED
  BY <1>1, Kinds

\* What the UART says.
LEMMA UartTells ==
  ASSUME NEW t \in UartSays
  PROVE  /\ t.name = "reg" =>
              /\ t.path = Uart_path
              /\ t.value = LongNumbers(Address(UART_BASE_ADDR), Number(4 * UART_SIZE))
         /\ t.name \notin {"phandle", "interrupts-extended"}
<1> DEFINE text1 == OneText("sifive,uart0")
<1>1. \/ t = Property("compatible", text1, Uart_path)
      \/ t = Property("reg", LongNumbers(Address(UART_BASE_ADDR), Number(4 * UART_SIZE)), Uart_path)
  BY Zenon DEF UartSays
<1> HIDE DEF text1
<1> QED
  BY <1>1, Kinds

\* What the node chosen says.
LEMMA ChosenTells ==
  ASSUME NEW start, NEW size, NEW t \in ChosenSays(start, size)
  PROVE  /\ t.name \notin {"reg", "phandle", "interrupts-extended"}
         /\ t.name = "stdout-path" => t.value = OneText("/soc/uart@10000000")
         /\ t.name = "riscv,kernel-start" => size # 0 /\ t.value = <<Number(0), Ram(start)>>
         /\ t.name = "riscv,kernel-end" => t.value = <<Number(0), Ram(start + size)>>
<1> DEFINE from == "riscv,kernel-start"
           till == "riscv,kernel-end"
           args == OneText("debug keep_bootcon bootmem_debug earlycon=sbi")
           console == OneText("/soc/uart@10000000")
           first == <<Number(0), Ram(start)>>
           last == <<Number(0), Ram(start + size)>>
<1>1. \/ t = Property("bootargs", args, Chosen_path)
      \/ t = Property("stdout-path", console, Chosen_path)
      \/ size # 0 /\ t = Property(from, first, Chosen_path)
      \/ size # 0 /\ t = Property(till, last, Chosen_path)
  <2>1. CASE size = 0
    BY <2>1, Zenon DEF ChosenSays, KernelRangeTold
  <2>2. CASE size # 0
    BY <2>2, Zenon DEF ChosenSays, KernelRangeTold
  <2> QED
    BY <2>1, <2>2
<1>2. /\ from \notin {"reg", "phandle", "interrupts-extended", "bootargs", "stdout-path"}
      /\ till \notin {"reg", "phandle", "interrupts-extended", "bootargs", "stdout-path"}
      /\ from # till
  BY Zenon
<1> HIDE DEF from, till, args, console, first, last
<1>3. /\ t.name \notin {"reg", "phandle", "interrupts-extended"}
      /\ t.name = "stdout-path" => t.value = console
      /\ t.name = from => size # 0 /\ t.value = first
      /\ t.name = till => t.value = last
  BY <1>1, <1>2, Kinds
<1> QED
  BY <1>3, Zenon DEF from, till, console, first, last

\* Who says where it is, who owns a handle, and who refers to it.
LEMMA WhoTells ==
  ASSUME NEW start, NEW size, NEW t \in MachineSays(start, size)
  PROVE  /\ t.name = "reg" =>
              \/ t.path = Cpu_path /\ t.value = OneNumber(0)
              \/ /\ t.path = Memory_path
                 /\ t.value = LongNumbers(Address(RAM_BASE_ADDR), Number(4 * ram_size))
              \/ /\ t.path = Clint_path
                 /\ t.value = LongNumbers(Address(CLINT_BASE_ADDR), Number(4 * CLINT_SIZE))
              \/ /\ t.path = Uart_path
                 /\ t.value = LongNumbers(Address(UART_BASE_ADDR), Number(4 * UART_SIZE))
         /\ t.name = "phandle" => t.path = Intc_path /\ t.value = OneNumber(intc_phandle)
         /\ t.name = "interrupts-extended" => t.value = Interrupts
<1>1. \/ t \in RootSays \/ t \in CpusSays \/ t \in CpuSays \/ t \in IntcSays
      \/ t \in MemorySays \/ t \in SocSays \/ t \in ClintSays \/ t \in UartSays
      \/ t \in ChosenSays(start, size)
  BY DEF MachineSays
<1>2. CASE t \in RootSays \/ t \in CpusSays \/ t \in SocSays \/ t \in ChosenSays(start, size)
  BY <1>2, RootTells, CpusTells, SocTells, ChosenTells
<1>3. CASE t \in CpuSays \/ t \in MemorySays
  BY <1>3, CpuTells, MemoryTells
<1>4. CASE t \in ClintSays \/ t \in UartSays
  BY <1>4, ClintTells, UartTells
<1>5. CASE t \in IntcSays
  BY <1>5, IntcTells
<1> QED
  BY <1>1, <1>2, <1>3, <1>4, <1>5

\* The lengths of addresses, sizes and interrupts.
LEMMA CellsSaid ==
  ASSUME NEW start, NEW size
  PROVE  LET said == MachineSays(start, size)
         IN  /\ Value(said, Root, "#address-cells") = OneNumber(2)
             /\ Value(said, Root, "#size-cells") = OneNumber(2)
             /\ Value(said, Cpus_path, "#address-cells") = OneNumber(1)
             /\ Value(said, Cpus_path, "#size-cells") = OneNumber(0)
             /\ Value(said, Soc_path, "#address-cells") = OneNumber(2)
             /\ Value(said, Soc_path, "#size-cells") = OneNumber(2)
             /\ Value(said, Intc_path, "#interrupt-cells") = OneNumber(1)
<1> DEFINE said == MachineSays(start, size)
<1>1. /\ Property("#address-cells", OneNumber(2), Root) \in RootSays
      /\ Property("#size-cells", OneNumber(2), Root) \in RootSays
      /\ Property("#address-cells", OneNumber(1), Cpus_path) \in CpusSays
      /\ Property("#size-cells", OneNumber(0), Cpus_path) \in CpusSays
      /\ Property("#address-cells", OneNumber(2), Soc_path) \in SocSays
      /\ Property("#size-cells", OneNumber(2), Soc_path) \in SocSays
      /\ Property("#interrupt-cells", OneNumber(1), Intc_path) \in IntcSays
  BY Zenon DEF RootSays, CpusSays, SocSays, IntcSays
<1>2. RootSays \subseteq said /\ CpusSays \subseteq said /\ SocSays \subseteq said
      /\ IntcSays \subseteq said
  BY DEF MachineSays
<1>3. \A t \in said :
        /\ t.path = Root => t \in RootSays
        /\ t.path = Cpus_path => t \in CpusSays
        /\ t.path = Soc_path => t \in SocSays
        /\ t.path = Intc_path => t \in IntcSays
  BY SaysAt
<1> HIDE DEF said
<1>4. /\ Value(said, Root, "#address-cells") = OneNumber(2)
      /\ Value(said, Root, "#size-cells") = OneNumber(2)
  BY <1>1, <1>2, <1>3, RootTells, SaidOnce
<1>5. /\ Value(said, Cpus_path, "#address-cells") = OneNumber(1)
      /\ Value(said, Cpus_path, "#size-cells") = OneNumber(0)
  BY <1>1, <1>2, <1>3, CpusTells, SaidOnce
<1>6. /\ Value(said, Soc_path, "#address-cells") = OneNumber(2)
      /\ Value(said, Soc_path, "#size-cells") = OneNumber(2)
  BY <1>1, <1>2, <1>3, SocTells, SaidOnce
<1>7. Value(said, Intc_path, "#interrupt-cells") = OneNumber(1)
  BY <1>1, <1>2, <1>3, IntcTells, SaidOnce
<1> QED
  BY <1>4, <1>5, <1>6, <1>7 DEF said

\* Where RAM and the devices are.
LEMMA RegsSaid ==
  ASSUME NEW start, NEW size
  PROVE  LET said == MachineSays(start, size)
         IN  /\ Value(said, Memory_path, "reg")
                  = LongNumbers(Address(RAM_BASE_ADDR), Number(4 * ram_size))
             /\ Value(said, Clint_path, "reg")
                  = LongNumbers(Address(CLINT_BASE_ADDR), Number(4 * CLINT_SIZE))
             /\ Value(said, Uart_path, "reg")
                  = LongNumbers(Address(UART_BASE_ADDR), Number(4 * UART_SIZE))
<1> DEFINE said == MachineSays(start, size)
           ram == LongNumbers(Address(RAM_BASE_ADDR), Number(4 * ram_size))
           clint == LongNumbers(Address(CLINT_BASE_ADDR), Number(4 * CLINT_SIZE))
           uart == LongNumbers(Address(UART_BASE_ADDR), Number(4 * UART_SIZE))
<1>1. /\ Property("reg", ram, Memory_path) \in MemorySays
      /\ Property("reg", clint, Clint_path) \in ClintSays
      /\ Property("reg", uart, Uart_path) \in UartSays
  BY Zenon DEF MemorySays, ClintSays, UartSays
<1>2. MemorySays \subseteq said /\ ClintSays \subseteq said /\ UartSays \subseteq said
  BY DEF MachineSays
<1>3. \A t \in said :
        /\ t.path = Memory_path => t \in MemorySays
        /\ t.path = Clint_path => t \in ClintSays
        /\ t.path = Uart_path => t \in UartSays
  BY SaysAt
<1>4. /\ \A t \in MemorySays : t.name = "reg" => t.value = ram
      /\ \A t \in ClintSays : t.name = "reg" => t.value = clint
      /\ \A t \in UartSays : t.name = "reg" => t.value = uart
  BY MemoryTells, ClintTells, UartTells
<1> HIDE DEF said, ram, clint, uart
<1>5. /\ Value(said, Memory_path, "reg") = ram
      /\ Value(said, Clint_path, "reg") = clint
      /\ Value(said, Uart_path, "reg") = uart
  BY <1>1, <1>2, <1>3, <1>4, SaidOnce
<1> QED
  BY <1>5 DEF said, ram, clint, uart

\* What is chosen: the console, and the kernel if there is one.
LEMMA ChosenSaid ==
  ASSUME NEW start, NEW size
  PROVE  LET said == MachineSays(start, size)
         IN  /\ Value(said, Chosen_path, "stdout-path") = OneText("/soc/uart@10000000")
             /\ Has(said, Chosen_path, "riscv,kernel-start") <=> size # 0
             /\ size # 0 =>
                  /\ Value(said, Chosen_path, "riscv,kernel-start") = <<Number(0), Ram(start)>>
                  /\ Value(said, Chosen_path, "riscv,kernel-end")
                       = <<Number(0), Ram(start + size)>>
<1> DEFINE said == MachineSays(start, size)
           out == "stdout-path"
           from == "riscv,kernel-start"
           till == "riscv,kernel-end"
           console == OneText("/soc/uart@10000000")
           first == <<Number(0), Ram(start)>>
           last == <<Number(0), Ram(start + size)>>
<1>1. /\ Property(out, console, Chosen_path) \in ChosenSays(start, size)
      /\ size # 0 => /\ Property(from, first, Chosen_path) \in ChosenSays(start, size)
                     /\ Property(till, last, Chosen_path) \in ChosenSays(start, size)
  BY Zenon DEF ChosenSays, KernelRangeTold
<1>2. ChosenSays(start, size) \subseteq said
  BY DEF MachineSays
<1>3. \A t \in said : t.path = Chosen_path => t \in ChosenSays(start, size)
  BY SaysAt
<1>4. \A t \in ChosenSays(start, size) :
        /\ t.name = out => t.value = console
        /\ t.name = from => size # 0 /\ t.value = first
        /\ t.name = till => t.value = last
  BY ChosenTells, Zenon
<1> HIDE DEF said, out, from, till, console, first, last
<1>5. /\ Value(said, Chosen_path, out) = console
      /\ size # 0 => /\ Value(said, Chosen_path, from) = first
                     /\ Value(said, Chosen_path, till) = last
  BY <1>1, <1>2, <1>3, <1>4, SaidOnce
<1>6. Has(said, Chosen_path, from) <=> size # 0
  BY <1>1, <1>2, <1>3, <1>4, Kinds DEF Has
<1> QED
  BY <1>5, <1>6, Zenon DEF said, out, from, till, console, first, last

\* Once fdt_output has run the reader has met these properties, and the node of the
\* console.
LEMMA PropertiesRead ==
  ASSUME TreeInv, Parsed
  PROVE  /\ Properties(Read) = MachineSays(kernel_base, kernel_len)
         /\ Uart_path \in Paths(Read)
<1>1. /\ Read \in Seq(Token)
      /\ {Read[i] : i \in DOMAIN Read} = MachineTold(kernel_base, kernel_len)
  BY AllTold DEF TreeInv, Parsed
<1>2. Properties(Read) = SaidIn({Read[i] : i \in DOMAIN Read})
  BY DEF Properties, SaidIn
<1>3. Begun(NodeName("uart", UART_BASE_ADDR), Soc_path) \in MachineTold(kernel_base, kernel_len)
  <2>1. Begun(NodeName("uart", UART_BASE_ADDR), Soc_path) \in UartTold(Soc_path)
    BY Zenon DEF UartTold
  <2>2. UartTold(Soc_path) \subseteq SocTold(Root)
    BY Zenon DEF SocTold, Soc_path
  <2>3. SocTold(Root) \subseteq MachineTold(kernel_base, kernel_len)
    BY Zenon DEF MachineTold
  <2> QED
    BY <2>1, <2>2, <2>3
<1>4. PICK i \in DOMAIN Read : Read[i] = Begun(NodeName("uart", UART_BASE_ADDR), Soc_path)
  BY <1>1, <1>3
<1>5. Read[i].kind = "begin" /\ Read[i].path = Uart_path
  BY <1>4, Kinds DEF Uart_path
<1>6. Uart_path \in Paths(Read)
  BY <1>5 DEF Paths
<1> QED
  BY <1>1, <1>2, <1>6, ToldProperties

\* Sequences of the same elements are the same.
LEMMA SameSequence ==
  ASSUME NEW S, NEW p \in Seq(S), NEW q \in Seq(S), Len(p) = Len(q),
         \A i \in 1 .. Len(p) : p[i] = q[i]
  PROVE  p = q
  OBVIOUS

\* A sequence that is one element longer than another.
LEMMA AppendIs ==
  ASSUME NEW S, NEW p \in Seq(S), NEW q \in Seq(S), NEW n \in S, NEW l \in Nat,
         Len(p) = l, Len(q) = l + 1, q[l + 1] = n, \A i \in 1 .. l : q[i] = p[i]
  PROVE  Append(p, n) = q
<1> DEFINE r == Append(p, n)
<1>1. r \in Seq(S) /\ Len(r) = l + 1
  OBVIOUS
<1>2. r[l + 1] = n /\ \A i \in 1 .. l : r[i] = p[i]
  OBVIOUS
<1> HIDE DEF r
<1>3. \A i \in 1 .. l + 1 : r[i] = q[i]
  BY <1>2
<1>4. r = q
  BY <1>1, <1>3, SameSequence
<1> QED
  BY <1>4 DEF r

\* A path of two or three names, written out.
LEMMA PathOf ==
  ASSUME NEW S, NEW a \in S, NEW b \in S, NEW c \in S
  PROVE  Append(<<a>>, b) = <<a, b>> /\ Append(Append(<<a>>, b), c) = <<a, b, c>>
<1> DEFINE one == <<a>>
           two == <<a, b>>
           three == <<a, b, c>>
           k == Len(one)
           l == Len(two)
<1>1. one \in Seq(S) /\ two \in Seq(S) /\ three \in Seq(S)
  OBVIOUS
<1>2. k \in Nat /\ Len(two) = k + 1 /\ two[k + 1] = b /\ \A i \in 1 .. k : two[i] = one[i]
  OBVIOUS
<1>3. l \in Nat /\ Len(three) = l + 1 /\ three[l + 1] = c
      /\ \A i \in 1 .. l : three[i] = two[i]
  OBVIOUS
<1>4. Len(one) = k /\ Len(two) = l
  OBVIOUS
<1> HIDE DEF one, two, three, k, l
<1>5. Append(one, b) = two
  BY <1>1, <1>2, <1>4, AppendIs, SMTT(30)
<1>6. Append(two, c) = three
  BY <1>1, <1>3, <1>4, AppendIs, SMTT(30)
<1> QED
  BY <1>5, <1>6 DEF one, two, three

\* The paths that the properties name, written out.
LEMMA PathsAre ==
  /\ Memory_path = <<"", "memory@80000000">> /\ Chosen_path = <<"", "chosen">>
  /\ Clint_path = <<"", "soc", "clint@2000000">> /\ Uart_path = <<"", "soc", "uart@10000000">>
<1> DEFINE root == ""
           soc == "soc"
           memory == "memory@80000000"
           clint == "clint@2000000"
           uart == "uart@10000000"
           chosen == "chosen"
<1>1. /\ Memory_path = Append(<<root>>, memory) /\ Chosen_path = Append(<<root>>, chosen)
      /\ Clint_path = Append(Append(<<root>>, soc), clint)
      /\ Uart_path = Append(Append(<<root>>, soc), uart)
  BY NodesAreNamed, Zenon DEF Memory_path, Chosen_path, Clint_path, Uart_path, Soc_path, Root
<1>2. /\ root \in Texts /\ soc \in Texts /\ memory \in Texts /\ clint \in Texts
      /\ uart \in Texts /\ chosen \in Texts
  BY NodeNamesAreTexts, PlainTextsAreTexts, Zenon DEF PlainTexts
<1> HIDE DEF root, soc, memory, clint, uart, chosen
<1>3. /\ Memory_path = <<root, memory>> /\ Chosen_path = <<root, chosen>>
      /\ Clint_path = <<root, soc, clint>> /\ Uart_path = <<root, soc, uart>>
  BY <1>1, <1>2, PathOf, Zenon
<1> QED
  BY <1>3, Zenon DEF root, soc, memory, clint, uart, chosen

\* The ranges that initialize_riscv_machine registers, by their names.
LEMMA RangesByName ==
  /\ RegisteredAs("ram").address = RAM_BASE_ADDR /\ RegisteredAs("ram").size = ram_size
  /\ RegisteredAs("clint").address = CLINT_BASE_ADDR /\ RegisteredAs("clint").size = CLINT_SIZE
  /\ RegisteredAs("uart").address = UART_BASE_ADDR /\ RegisteredAs("uart").size = UART_SIZE
<1> DEFINE ranges == {Registrations[i] : i \in DOMAIN Registrations}
           ram == MemoryRange("ram", RAM_BASE_ADDR, ram_size, TRUE)
           low == MemoryRange("low_ram", 0, LOW_RAM_SIZE, TRUE)
           htif == MemoryRange("htif", HTIF_BASE_ADDR, HTIF_SIZE, FALSE)
           clint == MemoryRange("clint", CLINT_BASE_ADDR, CLINT_SIZE, FALSE)
           uart == MemoryRange("uart", UART_BASE_ADDR, UART_SIZE, FALSE)
<1>1. Registrations = <<ram, low, htif, clint, uart>>
  BY DEF Registrations
<1>2. /\ ram.name = "ram" /\ low.name = "low_ram" /\ htif.name = "htif"
      /\ clint.name = "clint" /\ uart.name = "uart"
      /\ ram.address = RAM_BASE_ADDR /\ ram.size = ram_size
      /\ clint.address = CLINT_BASE_ADDR /\ clint.size = CLINT_SIZE
      /\ uart.address = UART_BASE_ADDR /\ uart.size = UART_SIZE
  BY DEF MemoryRange
<1> HIDE DEF ram, low, htif, clint, uart
<1>3. ranges = {ram, low, htif, clint, uart}
  <2>1. /\ DOMAIN Registrations = 1 .. 5
        /\ Registrations[1] = ram /\ Registrations[2] = low /\ Registrations[3] = htif
        /\ Registrations[4] = clint /\ Registrations[5] = uart
    BY <1>1
  <2>2. \A i : i \in 1 .. 5 <=> i \in {1, 2, 3, 4, 5}
    OBVIOUS
  <2>3. ranges = {Registrations[1], Registrations[2], Registrations[3], Registrations[4],
                  Registrations[5]}
    BY <2>1, <2>2
  <2> QED
    BY <2>1, <2>3
<1> HIDE DEF ranges
<1>4. \A name : RegisteredAs(name) = CHOOSE range \in ranges : range.name = name
  BY Zenon DEF RegisteredAs, ranges
<1>5. /\ RegisteredAs("ram") = ram /\ RegisteredAs("clint") = clint
      /\ RegisteredAs("uart") = uart
  BY <1>2, <1>3, <1>4
<1> QED
  BY <1>2, <1>5

\* Whatever the lengths of firmware and kernel, the tree that riscv_build_fdt makes
\* and a reader parses gives RAM and the devices the places that
\* initialize_riscv_machine registers them at, and the kernel the place that
\* load_bios_and_kernel copies it to.
THEOREM TreeDescribesMachine == BootSpec => []DescribesTheMachine
<1>1. TreeInv => DescribesTheMachine
  <2> SUFFICES ASSUME TreeInv, Parsed PROVE DescribesTheMachine
    BY DEF DescribesTheMachine
  <2> DEFINE said == MachineSays(kernel_base, kernel_len)
  <2>1. Properties(Read) = said
    BY PropertiesRead
  <2>2. kernel_len \in Nat
    BY DEF TreeInv, KernelPlaced
  <2>3. /\ Describes(said, Memory_path, "ram") /\ Describes(said, Clint_path, "clint")
        /\ Describes(said, Uart_path, "uart")
    BY RegsSaid, RangesByName DEF Describes, LongNumbers
  <2>4. /\ Has(said, Chosen_path, "riscv,kernel-start") <=> kernel_len # 0
        /\ kernel_len # 0 =>
             /\ Value(said, Chosen_path, "riscv,kernel-start") = <<Number(0), Ram(kernel_base)>>
             /\ Value(said, Chosen_path, "riscv,kernel-end")
                  = <<Number(0), Ram(kernel_base + kernel_len)>>
    BY ChosenSaid, Zenon
  <2>5. kernel_len # 0 <=> kernel_len > 0
    BY <2>2
  <2> HIDE DEF said
  <2> QED
    BY <2>1, <2>3, <2>4, <2>5, PathsAre, Zenon DEF DescribesTheMachine
<1> QED
  BY <1>1, TreeInvInit, TreeInvStep, PTL DEF BootSpec

-----------------------------------------------------------------------------
\* A number by itself is read from its one cell.
LEMMA NumberSaid ==
  ASSUME NEW props, NEW path, NEW name, NEW n, Value(props, path, name) = OneNumber(n)
  PROVE  NumberOf(props, path, name) = n
<1>1. OneNumber(n)[1] = Number(n) /\ Number(n)[2] = n
  BY DEF OneNumber, Number
<1> QED
  BY <1>1 DEF NumberOf

\* Every reg that is said is as long as its bus wants it, and begins with the address
\* its node is named for.
LEMMA RegFits ==
  ASSUME NEW start, NEW size, NEW p \in MachineSays(start, size), p.name = "reg"
  PROVE  LET said    == MachineSays(start, size)
             bus     == Front(p.path)
             address == NumberOf(said, bus, "#address-cells")
         IN  /\ Len(p.value) = address + NumberOf(said, bus, "#size-cells")
             /\ \E word \in {0, RAM_BASE_ADDR, CLINT_BASE_ADDR, UART_BASE_ADDR} :
                  /\ p.value[address] = Address(word)
                  /\ \E base \in {"cpu", "memory", "clint", "uart"} :
                       Last(p.path) = NodeName(base, word)
<1> DEFINE said == MachineSays(start, size)
           bus == Front(p.path)
           address == NumberOf(said, bus, "#address-cells")
<1>1. /\ NumberOf(said, Root, "#address-cells") = 2 /\ NumberOf(said, Root, "#size-cells") = 2
      /\ NumberOf(said, Cpus_path, "#address-cells") = 1
      /\ NumberOf(said, Cpus_path, "#size-cells") = 0
      /\ NumberOf(said, Soc_path, "#address-cells") = 2
      /\ NumberOf(said, Soc_path, "#size-cells") = 2
  BY CellsSaid, NumberSaid
<1>2. \A v, w : /\ LongNumbers(v, w)[2] = v /\ Len(LongNumbers(v, w)) = 4
  BY DEF LongNumbers
<1>3. OneNumber(0)[1] = Address(0) /\ Len(OneNumber(0)) = 1
  BY DEF OneNumber, Address, RAM_BASE_ADDR
<1> HIDE DEF said
<1>4. CASE p.path = Cpu_path /\ p.value = OneNumber(0)
  <2>1. bus = Cpus_path /\ Last(p.path) = NodeName("cpu", 0)
    BY <1>4, NodePaths, NodesAreNamed
  <2>2. address = 1 /\ NumberOf(said, bus, "#size-cells") = 0
    BY <1>1, <2>1
  <2>3. Len(p.value) = 1 + 0 /\ p.value[1] = Address(0)
    BY <1>3, <1>4
  <2> QED
    BY <2>1, <2>2, <2>3 DEF said
<1>5. ASSUME NEW b, NEW word \in {RAM_BASE_ADDR, CLINT_BASE_ADDR, UART_BASE_ADDR},
             NEW base \in {"memory", "clint", "uart"}, NEW w, b \in {Root, Soc_path},
             Last(p.path) = NodeName(base, word), bus = b,
             p.value = LongNumbers(Address(word), w)
      PROVE  /\ Len(p.value) = address + NumberOf(said, bus, "#size-cells")
             /\ p.value[address] = Address(word)
  <2>1. address = 2 /\ NumberOf(said, bus, "#size-cells") = 2
    BY <1>1, <1>5
  <2>2. Len(p.value) = 2 + 2 /\ p.value[2] = Address(word)
    BY <1>2, <1>5
  <2> QED
    BY <2>1, <2>2
<1>6. CASE /\ p.path = Memory_path
           /\ p.value = LongNumbers(Address(RAM_BASE_ADDR), Number(4 * ram_size))
  <2>1. bus = Root /\ Last(p.path) = NodeName("memory", RAM_BASE_ADDR)
    BY <1>6, NodePaths, NodesAreNamed
  <2>2. /\ Len(p.value) = address + NumberOf(said, bus, "#size-cells")
        /\ p.value[address] = Address(RAM_BASE_ADDR)
    BY <1>5, <1>6, <2>1
  <2> QED
    BY <2>1, <2>2 DEF said
<1>7. CASE /\ p.path = Clint_path
           /\ p.value = LongNumbers(Address(CLINT_BASE_ADDR), Number(4 * CLINT_SIZE))
  <2>1. bus = Soc_path /\ Last(p.path) = NodeName("clint", CLINT_BASE_ADDR)
    BY <1>7, NodePaths, NodesAreNamed
  <2>2. /\ Len(p.value) = address + NumberOf(said, bus, "#size-cells")
        /\ p.value[address] = Address(CLINT_BASE_ADDR)
    BY <1>5, <1>7, <2>1
  <2> QED
    BY <2>1, <2>2 DEF said
<1>8. CASE /\ p.path = Uart_path
           /\ p.value = LongNumbers(Address(UART_BASE_ADDR), Number(4 * UART_SIZE))
  <2>1. bus = Soc_path /\ Last(p.path) = NodeName("uart", UART_BASE_ADDR)
    BY <1>8, NodePaths, NodesAreNamed
  <2>2. /\ Len(p.value) = address + NumberOf(said, bus, "#size-cells")
        /\ p.value[address] = Address(UART_BASE_ADDR)
    BY <1>5, <1>8, <2>1
  <2> QED
    BY <2>1, <2>2 DEF said
<1> QED
  BY <1>4, <1>6, <1>7, <1>8, WhoTells

\* The text of the console's path.
LEMMA ConsolePath == PathText(Uart_path) = "/soc/uart@10000000"
<1> DEFINE root == ""
           dash == "/"
           soc == "soc"
           uart == "uart@10000000"
           Longer(v, n) == v \o dash \o Uart_path[n + 1]
           upto[n \in Nat] == IF n = 0 THEN root ELSE Longer(upto[n - 1], n)
<1>1. NatInductiveDefHypothesis(upto, root, Longer)
  BY Zenon DEF NatInductiveDefHypothesis
<1>2. PathText(Uart_path) = upto[Len(Uart_path) - 1]
  BY Zenon DEF PathText
<1>3. Uart_path = <<root, soc, uart>>
  BY PathsAre, Zenon
<1>4. root \o dash \o soc \o dash \o uart = "/soc/uart@10000000"
  BY NamesAssumption, Zenon
<1> HIDE DEF root, dash, soc, uart, upto, Longer
<1>5. NatInductiveDefConclusion(upto, root, Longer)
  BY <1>1, NatInductiveDef
<1>6. upto = [n \in Nat |-> IF n = 0 THEN root ELSE Longer(upto[n - 1], n)]
  BY <1>5 DEF NatInductiveDefConclusion
<1>7. upto[0] = root /\ upto[1] = Longer(upto[0], 1) /\ upto[2] = Longer(upto[1], 2)
  BY <1>6
<1>8. Uart_path[1 + 1] = soc /\ Uart_path[2 + 1] = uart /\ Len(Uart_path) - 1 = 2
  BY <1>3
<1>9. upto[2] = root \o dash \o soc \o dash \o uart
  BY <1>7, <1>8, Zenon DEF Longer
<1> QED
  BY <1>2, <1>4, <1>8, <1>9

\* The handle that the CLINT refers to is the interrupt controller's alone.
LEMMA HandleIsOwned ==
  ASSUME NEW start, NEW size
  PROVE  LET said == MachineSays(start, size)
         IN  /\ {p.path : p \in {q \in said : q.name = "phandle"
                                              /\ q.value = <<Number(intc_phandle)>>}}
                  = {Intc_path}
             /\ Has(said, Intc_path, "interrupt-controller")
             /\ NumberOf(said, Intc_path, "#interrupt-cells") = 1
<1> DEFINE said == MachineSays(start, size)
           handle == Property("phandle", OneNumber(intc_phandle), Intc_path)
           controls == Property("interrupt-controller", NoText, Intc_path)
<1>1. handle \in IntcSays /\ controls \in IntcSays
  BY Zenon DEF IntcSays
<1>2. IntcSays \subseteq said
  BY DEF MachineSays
<1>3. /\ handle.name = "phandle" /\ handle.path = Intc_path
      /\ handle.value = <<Number(intc_phandle)>>
      /\ controls.name = "interrupt-controller" /\ controls.path = Intc_path
  BY Kinds DEF OneNumber
<1>4. \A q \in said : q.name = "phandle" => q.path = Intc_path
  BY WhoTells
<1>5. NumberOf(said, Intc_path, "#interrupt-cells") = 1
  BY CellsSaid, NumberSaid
<1> HIDE DEF said, handle, controls
<1>6. {p.path : p \in {q \in said : q.name = "phandle" /\ q.value = <<Number(intc_phandle)>>}}
        = {Intc_path}
  BY <1>1, <1>2, <1>3, <1>4
<1>7. Has(said, Intc_path, "interrupt-controller")
  BY <1>1, <1>2, <1>3 DEF Has
<1> QED
  BY <1>5, <1>6, <1>7 DEF said

\* Every second cell of what the CLINT refers to is that handle.
LEMMA InterruptsAre ==
  \A i \in {j \in DOMAIN Interrupts : j % 2 = 1} : Interrupts[i] = Number(intc_phandle)
<1>1. /\ DOMAIN Interrupts = 1 .. 4
      /\ Interrupts[1] = Number(intc_phandle) /\ Interrupts[3] = Number(intc_phandle)
  BY DEF Interrupts
<1>2. \A j \in 1 .. 4 : j % 2 = 1 => j = 1 \/ j = 3
  OBVIOUS
<1> QED
  BY <1>1, <1>2

\* The value of stdout-path is the console's path as a text.
LEMMA ConsoleSaid ==
  ASSUME NEW start, NEW size
  PROVE  Value(MachineSays(start, size), Chosen_path, "stdout-path")[1][1]
           = <<PathText(Uart_path)>>
<1> DEFINE text == "/soc/uart@10000000"
           texts == <<text>>
<1>1. text \in Texts
  BY PlainTextsAreTexts, Zenon DEF PlainTexts
<1>2. Value(MachineSays(start, size), Chosen_path, "stdout-path") = TextCells(texts)
  BY ChosenSaid, Zenon DEF OneText
<1>3. PathText(Uart_path) = text
  BY ConsolePath
<1> HIDE DEF text
<1>4. texts \in Seq(Texts) /\ Len(texts) = 1 /\ Len(texts) <= 2
  BY <1>1
<1> HIDE DEF texts
<1>5. TextCells(texts)[1] = <<texts, 1>>
  BY <1>4, TextCellsOf
<1>6. TextCells(texts)[1][1] = texts
  BY <1>5
<1> QED
  BY <1>2, <1>3, <1>6 DEF texts

\* Whatever the lengths of firmware and kernel, the parts of the tree fit each
\* other: each reg of riscv_build_fdt is as long as the cells its bus announces
\* and begins with the address in its node's name, the console's path is a node,
\* and each interrupt the CLINT raises has one controller, of one cell.
THEOREM TreeFitsTogether == BootSpec => []TreeIsConsistent
<1>1. TreeInv => TreeIsConsistent
  <2> SUFFICES ASSUME TreeInv, Parsed PROVE RegsFitTheirBus /\ LinksResolve
    BY DEF TreeIsConsistent, RegsFitTheirBus, LinksResolve
  <2> DEFINE said == MachineSays(kernel_base, kernel_len)
             Owners(cell) == {p.path : p \in {q \in said : q.name = "phandle"
                                                           /\ q.value = <<cell>>}}
  <2>1. Properties(Read) = said /\ Uart_path \in Paths(Read)
    BY PropertiesRead
  <2>2. RegsFitTheirBus
    <3>1. \A p \in said : p.name = "reg" =>
            LET bus     == Front(p.path)
                address == NumberOf(said, bus, "#address-cells")
            IN  /\ Len(p.value) = address + NumberOf(said, bus, "#size-cells")
                /\ \E word \in {0, RAM_BASE_ADDR, CLINT_BASE_ADDR, UART_BASE_ADDR} :
                     /\ p.value[address] = Address(word)
                     /\ \E base \in {"cpu", "memory", "clint", "uart"} :
                          Last(p.path) = base \o "@" \o Hex(word)
      BY RegFits, Zenon DEF NodeName
    <3> HIDE DEF said
    <3> QED
      BY <2>1, <3>1, Zenon DEF RegsFitTheirBus
  <2>3. Value(said, <<"", "chosen">>, "stdout-path")[1][1] = <<PathText(Uart_path)>>
    BY ConsoleSaid, PathsAre, Zenon
  <2>4. ASSUME NEW p \in said, p.name = "interrupts-extended",
               NEW i \in {j \in DOMAIN p.value : j % 2 = 1}
        PROVE  /\ Cardinality(Owners(p.value[i])) = 1
               /\ \A path \in Owners(p.value[i]) :
                    /\ Has(said, path, "interrupt-controller")
                    /\ NumberOf(said, path, "#interrupt-cells") = 1
    <3>1. p.value = Interrupts
      BY <2>4, WhoTells
    <3>2. p.value[i] = Number(intc_phandle)
      BY <3>1, InterruptsAre
    <3>3. Owners(p.value[i]) = {Intc_path}
      BY <3>2, HandleIsOwned
    <3>4. Cardinality({Intc_path}) = 1
      BY FS_Singleton
    <3>5. /\ Has(said, Intc_path, "interrupt-controller")
          /\ NumberOf(said, Intc_path, "#interrupt-cells") = 1
      BY HandleIsOwned
    <3> QED
      BY <3>3, <3>4, <3>5
  <2>5. LinksResolve
    <3>1. \A p \in said : p.name = "interrupts-extended" =>
            \A i \in {j \in DOMAIN p.value : j % 2 = 1} :
              /\ Cardinality(Owners(p.value[i])) = 1
              /\ \A path \in Owners(p.value[i]) :
                   /\ Has(said, path, "interrupt-controller")
                   /\ NumberOf(said, path, "#interrupt-cells") = 1
      BY <2>4, Zenon
    <3> HIDE DEF said
    <3> QED
      BY <2>1, <2>3, <3>1, Zenon DEF LinksResolve
  <2> QED
    BY <2>2, <2>5
<1> QED
  BY <1>1, TreeInvInit, TreeInvStep, PTL DEF BootSpec

=============================================================================
