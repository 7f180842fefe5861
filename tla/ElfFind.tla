------------------------------ MODULE ElfFind ------------------------------
(***************************************************************************)
(* Finding an ELF file in the process: by name, by address, from the       *)
(* memory map and from its program headers, and finding the symbol table   *)
(* in its file (xdl.c, xdl_iterate.c, bh_dl.c, bh_dl_iterate.c, parts of   *)
(* bh_elf.c, xh_elf.c and xh_util.c).                                      *)
(*                                                                         *)
(* A string is a sequence of pieces; "/" and "." are pieces, and the other *)
(* pieces have no structure that matters.                                  *)
(***************************************************************************)
EXTENDS Integers, Sequences, FiniteSets, FiniteSetsExt, SequencesExt

-----------------------------------------------------------------------------
(***************************************************************************)
(* Names.                                                                  *)
(***************************************************************************)
\* bh_util_ends_with, xdl_util_ends_with
EndsWith(str, ending) ==
    /\ Len(ending) <= Len(str)
    /\ SubSeq(str, Len(str) - Len(ending) + 1, Len(str)) = ending

StartsWithPiece(str, p) == str # <<>> /\ Head(str) = p
Absolute(str) == StartsWithPiece(str, "/")

\* bh_elf_is_match
BhIsMatch(pathname, name) ==
    IF Absolute(pathname) /\ ~Absolute(name) THEN EndsWith(pathname, name)
    ELSE IF ~Absolute(pathname) /\ Absolute(name) THEN EndsWith(name, pathname)
    ELSE pathname = name

\* xdl_find_iterate_cb
XdlIsMatch(dlpi_name, filename) ==
    IF StartsWithPiece(filename, "[") THEN dlpi_name = filename
    ELSE IF Absolute(filename)
         THEN IF Absolute(dlpi_name) THEN dlpi_name = filename ELSE EndsWith(filename, dlpi_name)
    ELSE IF Absolute(dlpi_name) THEN EndsWith(dlpi_name, filename) ELSE dlpi_name = filename

\* xdl_dsym_is_match: a symbol of .symtab against the name looked up, piece by piece.  The
\* end of the symbol ends the comparison, whatever is left of the name.
DsymIsMatch(str, sym) ==
    LET same == {n \in 0..Len(str) : n <= Len(sym) /\ SubSeq(str, 1, n) = SubSeq(sym, 1, n)}
        n == Max(same)
    IN IF str = <<>> THEN sym = <<>>
       ELSE n = Len(str) \/ (n = Len(sym) /\ str[n + 1] = ".")

\* xdl_dsym: the first symbol of the table that is defined and matches, or 0.
XdlDsym(table, sym) ==
    LET hits == {i \in DOMAIN table : table[i].defined /\ DsymIsMatch(table[i].name, sym)}
    IN IF hits = {} THEN 0 ELSE Min(hits)

\* bh_dl_dsym compares whole names.
BhDsym(table, sym) ==
    LET hits == {i \in DOMAIN table : table[i].defined /\ table[i].name = sym}
    IN IF hits = {} THEN 0 ELSE Min(hits)

-----------------------------------------------------------------------------
(***************************************************************************)
(* Program headers: a sequence of [type, vaddr, memsz, offset, prot].      *)
(***************************************************************************)
OfType(phdrs, type) == {i \in DOMAIN phdrs : phdrs[i].type = type}

\* The load bias of an ELF at base: xdl, bytehook (bh_dl_open_linker and the iteration by
\* maps) take the lowest vaddr of a loaded segment, xhook that of the first segment loaded
\* from offset 0.  -1 if there is none.
MinVaddrBias(phdrs, base) ==
    LET loads == OfType(phdrs, "LOAD")
    IN IF loads = {} THEN -1 ELSE base - Min({phdrs[i].vaddr : i \in loads})
FirstLoadBias(phdrs, base) ==
    LET zero == {i \in OfType(phdrs, "LOAD") : phdrs[i].offset = 0}
    IN IF zero = {} \/ base < phdrs[Min(zero)].vaddr THEN -1 ELSE base - phdrs[Min(zero)].vaddr

Within(p, bias, addr) == addr >= bias + p.vaddr /\ addr < bias + p.vaddr + p.memsz

\* xdl_elf_is_match
XdlElfIsMatch(phdrs, bias, addr) ==
    /\ addr >= bias
    /\ \E i \in OfType(phdrs, "LOAD") : Within(phdrs[i], bias, addr)

\* bh_elf_get_protect_by_addr_unsafe: the relro segment is read-only once relocated.
ProtectByAddr(phdrs, bias, addr) ==
    LET relro == {i \in OfType(phdrs, "RELRO") : Within(phdrs[i], bias, addr)}
        load == {i \in OfType(phdrs, "LOAD") : Within(phdrs[i], bias, addr)}
    IN IF relro # {} THEN {"r"} ELSE IF load # {} THEN phdrs[Min(load)].prot ELSE {}

-----------------------------------------------------------------------------
(***************************************************************************)
(* /proc/self/maps: lines [start, end, prot, private, offset, path], in    *)
(* the order of their addresses; path "" is no pathname.  elfs is the set  *)
(* of addresses at which an ELF header lies.                               *)
(***************************************************************************)
Readable(l) == "r" \in l.prot /\ l.private

\* One line in xdl_iterate_by_maps and bh_dl_iterate_by_maps, whose scan r remembers a line
\* r--p at offset 0 for the next line.
ScanLine(elfs, r, l) ==
    LET next == [r EXCEPT !.try = FALSE]
        joined == r.try /\ l.offset # 0
        base == IF joined THEN r.prev.start ELSE l.start
        ok == /\ l.path # ""
              /\ IF joined THEN r.prev.path = l.path ELSE l.offset = 0
              /\ base \in elfs
    IN IF ~Readable(l) THEN next
       ELSE IF "x" \notin l.prot
            THEN IF l.offset = 0 THEN [r EXCEPT !.try = TRUE, !.prev = l] ELSE next
       ELSE IF ok THEN [next EXCEPT !.found = Append(@, [path |-> l.path, base |-> base])]
       ELSE next

IterateByMaps(maps, elfs) ==
    FoldLeft(LAMBDA r, l : ScanLine(elfs, r, l),
             [try |-> FALSE, prev |-> [start |-> 0, path |-> ""], found |-> <<>>], maps).found

\* xdl_iterate_get_pathname_from_maps: "" when it fails.
PathnameFromMaps(maps, base) ==
    LET at == {i \in DOMAIN maps : maps[i].start <= base /\ base < maps[i].end}
    IN IF at = {} THEN "" ELSE maps[Min(at)].path

\* xh_util_get_mem_protect for [addr, addr + len) in the lines of pathname: the scan goes
\* from line to line as long as they join; {"?"} when the range is not covered.
MemProtect(maps, path, addr, len) ==
    LET scan == FoldLeft(LAMBDA r, l :
                  IF r.all \/ l.path # path \/ ~l.private \/ ~(r.at >= l.start /\ r.at < l.end) THEN r
                  ELSE [at |-> l.end, all |-> addr + len <= l.end, first |-> FALSE,
                        prot |-> IF r.first THEN l.prot ELSE r.prot \cap l.prot],
                  [at |-> addr, all |-> FALSE, first |-> TRUE, prot |-> {}], maps)
    IN IF scan.all THEN scan.prot ELSE {"?"}

-----------------------------------------------------------------------------
(***************************************************************************)
(* The sections of a file: [kind, link, read, strread], kind "symtab",     *)
(* "debugdata" or "other"; link, whether the linked string table exists    *)
(* and is one; read and strread, whether the two can be read.  For         *)
(* debugdata, read says whether it unpacks to an ELF with a symbol table.  *)
(***************************************************************************)
GoodSymtab(s) == s.kind = "symtab" /\ s.link /\ s.read /\ s.strread

\* xdl_symtab_load: the section it takes, or 0.
XdlSymtab(sections) ==
    LET good == {i \in DOMAIN sections : \/ GoodSymtab(sections[i])
                                         \/ sections[i].kind = "debugdata" /\ sections[i].read}
    IN IF good = {} THEN 0 ELSE Min(good)

\* bh_dl_load_symtab gives up at the first linked symbol table that cannot be read.
BhSymtab(sections) ==
    LET linked == {i \in DOMAIN sections : sections[i].kind = "symtab" /\ sections[i].link}
    IN IF linked = {} THEN 0
       ELSE LET i == Min(linked) IN IF GoodSymtab(sections[i]) THEN i ELSE 0

=============================================================================
