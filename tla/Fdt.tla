-------------------------------- MODULE Fdt --------------------------------
(***************************************************************************)
(* The flattened device tree that fdt.c writes, as functions on FDTState:  *)
(* a table of 32-bit cells that grows by realloc, a table of strings that  *)
(* shares equal ones, and the layout fdt_output gives them.                *)
(*                                                                         *)
(* A cell is a pair: <<NumberCell, n>> is the number n, in whatever byte   *)
(* order, <<RamCell, n>> the address n bytes into RAM, and <<texts, i>>    *)
(* the i-th cell of the zero-terminated texts.                             *)
(* A token and a number are the same cell, as in the program.              *)
(***************************************************************************)
EXTENDS Integers, Sequences, SequencesExt

FDT_BEGIN_NODE == 1
FDT_END_NODE   == 2
FDT_PROP       == 3
FDT_END        == 9

WORD_SIZE == 4

NumberCell == <<"number">>
RamCell    == <<"ram">>

Number(n) == <<NumberCell, n>>

\* The low cell of an address in RAM; those do not fit TLC's integers.
Ram(offset) == <<RamCell, offset>>

\* The bytes of texts with a terminating zero each.
TextBytes(texts) ==
  LET upto[n \in Nat] == IF n = 0 THEN 0 ELSE upto[n - 1] + Len(texts[n]) + 1
  IN  upto[Len(texts)]

\* Mutant of CellsFor: the last cell is not rounded up.
CellsWithin(bytes) == bytes \div WORD_SIZE

CellsFor(bytes) == (bytes + WORD_SIZE - 1) \div WORD_SIZE

TextCells(texts) == [i \in 1 .. CellsFor(TextBytes(texts)) |-> <<texts, i>>]

EmptyState ==
  [tab |-> <<>>, tab_size |-> 0, open_node_count |-> 0, 
   string_table |-> <<>>, string_table_len |-> 0, string_table_size |-> 0]

-----------------------------------------------------------------------------
\* Mutant of Grown: a table of two or more grows by half, enough or not.
GrownByHalf(size, len) ==
  IF len <= size THEN size ELSE IF size >= 2 THEN (size * 3) \div 2 ELSE len

\* fdt_alloc_len, and the same growth of the string table.
Grown(size, len) ==
  IF len <= size THEN size ELSE Max({len, (size * 3) \div 2})

fdt_put_data(s, cells) ==
  [s EXCEPT !.tab_size = Grown(@, Len(s.tab) + Len(cells)), !.tab = @ \o cells]

fdt_put32(s, n) == fdt_put_data(s, <<Number(n)>>)

fdt_begin_node(s, name) ==
  LET begun == fdt_put32(s, FDT_BEGIN_NODE)
  IN  [fdt_put_data(begun, TextCells(<<name>>)) EXCEPT !.open_node_count = @ + 1]

fdt_end_node(s) == [fdt_put32(s, FDT_END_NODE) EXCEPT !.open_node_count = @ - 1]

\* The table as its strings, each with the position it starts at.
Known(s, name) == {entry \in ToSet(s.string_table) : entry.text = name}

fdt_get_string_offset(s, name) ==
  IF Known(s, name) = {} THEN s.string_table_len
  ELSE Min({entry.pos : entry \in Known(s, name)})

WithString(s, name) ==
  IF Known(s, name) # {} THEN s
  ELSE [s EXCEPT !.string_table = Append(@, [text |-> name, pos |-> s.string_table_len]),
                 !.string_table_len = @ + Len(name) + 1,
                 !.string_table_size = Grown(@, s.string_table_len + Len(name) + 1)]

\* FDT_PROP, the length in bytes, the offset of the name, the data.
PutProperty(s, name, bytes, cells) ==
  LET head == fdt_put32(fdt_put32(s, FDT_PROP), bytes)
  IN  fdt_put_data(fdt_put32(WithString(head, name), fdt_get_string_offset(s, name)), cells)

fdt_prop(s, name, texts) == PutProperty(s, name, TextBytes(texts), TextCells(texts))

fdt_prop_tab_u32(s, name, numbers) ==
  PutProperty(s, name, WORD_SIZE * Len(numbers), numbers)

-----------------------------------------------------------------------------
(***************************************************************************)
(* fdt_output: the header, the cells, the empty reservation map aligned to *)
(* eight bytes, the strings, and padding.                                  *)
(***************************************************************************)
HeaderSize  == 40
ReserveSize == 16

\* Mutant of Aligned8: every position is taken as it is.
Unaligned(pos) == pos

Aligned8(pos) == ((pos + 7) \div 8) * 8

fdt_output(s) ==
  LET struct_size  == WORD_SIZE * (Len(s.tab) + 1)
      strings_size == s.string_table_len
      rsvmap       == Aligned8(HeaderSize + struct_size)
  IN  [tab             |-> Append(s.tab, Number(FDT_END)),
       string_table    |-> s.string_table,
       off_dt_struct   |-> HeaderSize,
       size_dt_struct  |-> struct_size,
       off_mem_rsvmap  |-> rsvmap,
       off_dt_strings  |-> rsvmap + ReserveSize,
       size_dt_strings |-> strings_size,
       totalsize       |-> Aligned8(rsvmap + ReserveSize + strings_size)]

-----------------------------------------------------------------------------
(***************************************************************************)
(* A reader of the format, as firmware and kernel have one: at each token  *)
(* it takes what the token says and goes on after it.                      *)
(***************************************************************************)
\* The string that starts at an offset; one that starts inside another is the
\* reader's garbage.
StringAt(strings, offset) ==
  IF \E i \in DOMAIN strings : strings[i].pos = offset
  THEN strings[CHOOSE i \in DOMAIN strings : strings[i].pos = offset].text ELSE "garbage"

Said(kind, name, value, path) == [kind |-> kind, name |-> name, value |-> value, path |-> path]

Garbage == Said("garbage", "", <<>>, <<>>)

Fits(tab, pos, cells) == pos + cells <= Len(tab) + 1

\* The cells a token takes with what belongs to it.
TokenCells(tab, pos) ==
  CASE tab[pos] = Number(FDT_BEGIN_NODE) /\ Fits(tab, pos, 2) ->
         1 + CellsFor(TextBytes(tab[pos + 1][1]))
    [] tab[pos] = Number(FDT_PROP) /\ Fits(tab, pos, 3) -> 3 + CellsFor(tab[pos + 1][2])
    [] OTHER -> 1

\* What a token says inside the nodes of path; the path it carries is that of
\* the nodes that are open after it, by their names.
TokenAt(tab, strings, pos, path) ==
  IF ~Fits(tab, pos, TokenCells(tab, pos)) THEN Garbage
  ELSE CASE tab[pos] = Number(FDT_BEGIN_NODE) /\ Fits(tab, pos, 2) ->
              Said("begin", tab[pos + 1][1][1], <<>>, Append(path, tab[pos + 1][1][1]))
         [] tab[pos] = Number(FDT_END_NODE) /\ path # <<>> -> Said("end", "", <<>>, Front(path))
         [] tab[pos] = Number(FDT_PROP) /\ Fits(tab, pos, 3) ->
              Said("prop", StringAt(strings, tab[pos + 2][2]),
                   SubSeq(tab, pos + 3, pos + TokenCells(tab, pos) - 1), path)
         [] OTHER -> Garbage

\* What a table says from a cell inside the nodes of path to its end, by the most
\* tokens it may take; no token is shorter than a cell.
Tokens(tab, strings) ==
  LET from[most \in Nat] ==
        IF most = 0 THEN [pos \in 1 .. Len(tab) + 1 |-> [path \in Seq(STRING) |-> <<>>]]
        ELSE [pos \in 1 .. Len(tab) + 1 |-> [path \in Seq(STRING) |->
                LET token == TokenAt(tab, strings, pos, path)
                IN  IF pos = Len(tab) + 1 THEN <<>>
                    ELSE IF token = Garbage THEN <<Garbage>>
                    ELSE <<token>> \o from[most - 1][pos + TokenCells(tab, pos)][token.path]]]
  IN  from[Len(tab)][1][<<>>]

=============================================================================
