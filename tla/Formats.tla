------------------------------ MODULE Formats ------------------------------
(***************************************************************************)
(* The pure algorithms of the libraries against what they should compute.  *)
(* Every step picks an input for one of them; the invariants compare.      *)
(***************************************************************************)
EXTENDS PackedReloc, ElfTables, ElfFind, Records

CONSTANTS Names,        \* symbol names
          Hashes        \* values of the hash function

VARIABLE case
vars == <<case>>

Is(kind) == case.kind = kind
Init == case = [kind |-> "start"]

-----------------------------------------------------------------------------
(***************************************************************************)
(* Packed relocations.                                                     *)
(***************************************************************************)
Deltas == {1, 2^Width - 1}
GroupsOf(n, flagSets) ==
    {[flags |-> f, delta |-> d, info |-> 3, addend |-> a,
      rel |-> [j \in 1..m |-> [delta |-> d, info |-> j, addend |-> a + j]]] :
        f \in flagSets, d \in Deltas, a \in {0, 5}, m \in 1..n}

DecodeNumber ==
    /\ Is("start")
    /\ \E v \in -(2^(Width - 1))..(2^(Width - 1) - 1), tail \in {<<>>, <<200>>} :
         case' = [kind |-> "sleb", value |-> v, bytes |-> SlebEncode(v) \o tail]

DecodeRelocs ==
    /\ Is("start")
    /\ \E rela \in BOOLEAN :
       \E groups \in LET G == GroupsOf(2, IF rela THEN SUBSET Flags
                                          ELSE SUBSET (Flags \ {"HAS_ADDEND"}))
                     IN {<<g>> : g \in G} \cup {<<g, h>> : g \in G, h \in G} :
       \E cut \in 0..Len(EncodeAll(7, groups)) :
         case' = [kind |-> "aps2", groups |-> groups, cut |-> cut, rela |-> rela]

\* A number of SLEB128 decodes to what was encoded, modulo the width of size_t, and
\* exactly its bytes are consumed; a stream of packed relocations yields exactly the
\* relocations it stands for, in xhook and bytehook alike, and a truncated one a prefix of
\* them (bh_sleb128_decoder_next, bh_elf_iterate_aps2, xh_elf_packed_reloc_iterator_next).
RelocsDecoded ==
    /\ Is("sleb") =>
         LET n == Len(SlebEncode(case.value))
         IN /\ SlebNext(case.bytes, 1) = [ok |-> TRUE, value |-> case.value % 2^Width, next |-> n + 1]
            /\ ~SlebNext(SubSeq(case.bytes, 1, n - 1), 1).ok
    /\ Is("aps2") =>
         LET all == EncodeAll(7, case.groups)
             s == SubSeq(all, 1, case.cut)
             want == Meaning(7, case.groups, case.rela)
             xh == XhIterate(s, case.rela)
             bh == BhIterate(s, case.rela)
             place(r) == <<r.off, r.info>>
         IN /\ IsPrefix(xh, want)
            /\ case.cut = Len(all) => xh = want
            /\ [i \in DOMAIN bh |-> place(bh[i])] = [i \in DOMAIN xh |-> place(xh[i])]

-----------------------------------------------------------------------------
(***************************************************************************)
(* Symbols and slots.                                                      *)
(***************************************************************************)
\* The dynamic symbols as a static linker orders them: kind maps names to "none",
\* "import" or "export".
Layout(kind, type, hash) ==
    LET sym(n) == [name |-> n, type |-> type[n], imp |-> kind[n] = "import"]
        imports == {n \in Names : kind[n] = "import"}
        bucket(b) == {n \in Names : kind[n] = "export" /\ hash[n] % Buckets = b}
        seqOf(S) == [i \in 1..Cardinality(S) |-> sym(SetToSeq(S)[i])]
    IN seqOf(imports) \o FlattenSeq([b \in 1..Buckets |-> seqOf(bucket(b - 1))])

NoRelocs == [plt |-> <<>>, dyn |-> <<>>, aps2 |-> <<>>]

\* Symbols without relocations, with all hash functions: the lookups.
LookUp ==
    /\ Is("start")
    /\ \E kind \in [Names -> {"none", "import", "export"}],
          hash \in [Names -> Hashes], tables \in {{"gnu"}, {"sysv"}, {"gnu", "sysv"}} :
         LET syms == Layout(kind, [n \in Names |-> "FUNC"], hash)
         IN case' = [kind |-> "lookup",
                     elf |-> [syms |-> syms, hash |-> hash, gnu |-> "gnu" \in tables,
                              sysv |-> "sysv" \in tables,
                              at |-> [i \in DOMAIN syms |-> IF syms[i].imp THEN 0 ELSE 2 * i],
                              size |-> [i \in DOMAIN syms |-> IF syms[i].imp THEN 0 ELSE 2]]
                             @@ NoRelocs]

\* Every symbol is found by every library, whichever tables there are, and nothing else:
\* xhook finds any symbol, xdl_sym and bytehook's export lookup the defined ones, bytehook's
\* import lookup the undefined ones and, with .gnu.hash, the defined ones (symbols of its
\* own that the library calls through its PLT); xdl_addr names the symbol at an address
\* (xh_elf_find_symidx_by_name, bh_elf_find_import_func_symbol_by_symbol_name,
\* bh_elf_find_export_func_symbol_by_symbol_name, xdl_sym, xdl_sym_by_addr).
SymbolsRight ==
    Is("lookup") =>
      LET elf == case.elf
          index(n) == FirstOf({i \in DOMAIN elf.syms : elf.syms[i].name = n})
      IN /\ \A n \in Names :
              LET i == index(n)
              IN /\ XhFind(elf, n) = i
                 /\ XdlSym(elf, n) = OnlyIf(IsExport(elf, i), i)
                 /\ BhExport(elf, n) = OnlyIf(IsExport(elf, i), i)
                 /\ BhImport(elf, n) = OnlyIf(IsImport(elf, i) \/ elf.gnu, i)
         /\ \A i \in DOMAIN elf.syms :
              ~elf.syms[i].imp => \A d \in 0..1 : XdlSymByAddr(elf, elf.at[i] + d) = i
         /\ XdlSymByAddr(elf, 2 * Len(elf.syms) + 2) = 0

Relocs(n, types) ==
    UNION {[1..m -> [sym : {1, 2}, type : types]] : m \in 0..n}
Placed(relocs, base) == [i \in DOMAIN relocs |-> relocs[i] @@ [off |-> base + i]]

\* Two symbols with relocations.
FindSlots ==
    /\ Is("start")
    /\ LET n1 == CHOOSE n \in Names : TRUE
           n2 == CHOOSE n \in Names \ {n1} : TRUE
       IN \E imp1, imp2, gnu \in BOOLEAN, type1 \in {"FUNC", "OBJECT"},
             plt \in Relocs(3, {"JUMP_SLOT"}), dyn \in Relocs(2, {"GLOB_DAT", "RELATIVE"}),
             aps2 \in Relocs(1, {"ABS"}) :
            /\ imp2 => imp1         \* imports come first
            /\ case' = [kind |-> "slots", names |-> <<n1, n2>>,
                 elf |-> [syms |-> <<[name |-> n1, type |-> type1, imp |-> imp1],
                                     [name |-> n2, type |-> "FUNC", imp |-> imp2]>>,
                          hash |-> [n \in Names |-> 0], gnu |-> gnu, sysv |-> ~gnu,
                          plt |-> Placed(plt, 0), dyn |-> Placed(dyn, 10), aps2 |-> Placed(aps2, 20),
                          got |-> [o \in 0..30 |->
                                     LET of == {r \in Range(Placed(plt, 0)) \cup Range(Placed(dyn, 10))
                                                       \cup Range(Placed(aps2, 20)) : r.off = o}
                                     IN IF of = {} THEN 0 ELSE (CHOOSE r \in of : TRUE).sym]]]

\* A symbol that bytehook's import lookup does not reach: no function, or defined in a file
\* with only .hash, and only in packed relocations.
OutOfReach(elf, i) ==
    /\ elf.syms[i].type \notin FuncTypes \/ (~elf.syms[i].imp /\ ~elf.gnu)
    /\ \A r \in Range(elf.plt) \cup Range(elf.dyn) : r.sym # i

\* What bytehook finds by name are relocated slots of that symbol, all that xhook
\* would replace among them, unless the array is full or the symbol out of its reach; while
\* nothing is hooked, searching by the callee's address finds the same slots as searching by
\* name (xh_elf_hook, bh_elf_find_import_func_addr_by_symbol_name and _by_callee_addr).
SlotsRight ==
    Is("slots") =>
      LET elf == case.elf
          all(i) == {r.off : r \in {r \in Range(elf.plt) : r.sym = i /\ PltType(r)}
                               \cup {r \in Range(elf.dyn) \cup Range(elf.aps2) :
                                       r.sym = i /\ DynType(r)}}
      IN \A i \in {1, 2} :
           LET bh == BhSlots(elf, case.names[i])
               xh == XhSlots(elf, case.names[i])
           IN /\ Range(bh) \subseteq all(i) /\ Range(xh) \subseteq all(i)
              /\ Len(bh) = Cardinality(Range(bh))
              /\ ~OutOfReach(elf, i) => /\ Len(bh) = AddrCap \/ Range(xh) \subseteq Range(bh)
                                        /\ BhSlotsByCallee(elf, i) = bh

\* The symbol lookups of the three libraries agree with the symbol table, whichever hash
\* tables a file has, and the slots found for a symbol are those relocated for it
\* (xh_elf_hook, bh_elf_find_import_func_addr_by_symbol_name, xdl_sym).
SlotsFound == SymbolsRight /\ SlotsRight

-----------------------------------------------------------------------------
(***************************************************************************)
(* Dynamic section, names, program headers, maps, sections.                *)
(***************************************************************************)
ParseDynamic ==
    /\ Is("start")
    /\ \E n \in 0..5 : \E tags \in {t \in [1..n -> Tags] : IsInjective(t)} :
         case' = [kind |-> "dynamic", tags |-> tags]

Pieces == {"/", "lib", "c"}
Strings(n) == UNION {[1..m -> Pieces] : m \in 1..n}

MatchNames ==
    /\ Is("start")
    /\ \E path, name \in Strings(3) : case' = [kind |-> "names", path |-> path, name |-> name]

MatchSymbols ==
    /\ Is("start")
    /\ LET words(from) == UNION {[1..m -> {"a", "."}] : m \in from..3}
       IN \E n \in 1..2 : \E table \in [1..n -> [name : words(0), defined : BOOLEAN]], sym \in words(1) :
            case' = [kind |-> "dsym", table |-> table, sym |-> sym]

\* Segments loaded in the order of their addresses, the first from offset 0, with a
\* read-only part.
ReadHeaders ==
    /\ Is("start")
    /\ \E v1 \in {0, 2}, m1, m2 \in 1..2, relro \in 0..2, front \in BOOLEAN :
         LET load1 == [type |-> "LOAD", vaddr |-> v1, memsz |-> m1, offset |-> 0, prot |-> {"r", "x"}]
             load2 == [type |-> "LOAD", vaddr |-> v1 + 4, memsz |-> m2, offset |-> 2, prot |-> {"r", "w"}]
             ro == [type |-> "RELRO", vaddr |-> v1 + 4, memsz |-> relro, offset |-> 2, prot |-> {"r"}]
         IN case' = [kind |-> "phdr", relro |-> relro, phdrs |->
                       IF front THEN <<ro, load1, load2>> ELSE <<load1, load2, ro>>]

MapLines == [prot : {{"r"}, {"r", "x"}, {"x"}}, offset : {0, 1}, path : {"", "a", "b"}, gap : {0, 1}]
ScanMaps ==
    /\ Is("start")
    /\ \E n \in 1..3 : \E lines \in [1..n -> MapLines], elfs \in {{0, 2, 4}, {2}} :
         LET start(i) == 2 * (i - 1)
         IN case' = [kind |-> "maps", elfs |-> elfs,
                     maps |-> [i \in 1..n |->
                       [start |-> start(i), end |-> start(i) + 2 - lines[i].gap, prot |-> lines[i].prot,
                        private |-> TRUE, offset |-> lines[i].offset, path |-> lines[i].path]]]

LoadSymtab ==
    /\ Is("start")
    /\ \E n \in 0..2 :
       \E sections \in [1..n -> [kind : {"symtab", "debugdata", "other"}, link : BOOLEAN,
                                 read : BOOLEAN, strread : BOOLEAN]] :
         case' = [kind |-> "sections", sections |-> sections]

\* The dynamic section may list its entries in any order: xhook uses .gnu.hash exactly if
\* there is one, and whenever it accepts a file, bytehook and xdl see the same tables
\* (xh_elf_init, bh_elf_parse_dynamic_unsafe, xdl_dynsym_load).
ParsersAgree ==
    Is("dynamic") =>
      LET xh == XhInit(case.tags)
          bh == BhParse(case.tags)
      IN xh.ok => /\ xh.table = IF "GNU_HASH" \in bh.tables THEN "GNU_HASH" ELSE "HASH"
                  /\ xh.table \in bh.tables /\ xh.relocs = bh.relocs
                  /\ XdlLoad(case.tags) = bh.tables

\* A name matches in bytehook exactly if it does in xdl, whichever of the two is the longer,
\* and only if one of them ends with the other (bh_elf_is_match, xdl_find_iterate_cb).
NamesAgree ==
    Is("names") =>
      /\ BhIsMatch(case.path, case.name) = XdlIsMatch(case.path, case.name)
      /\ BhIsMatch(case.path, case.name) = BhIsMatch(case.name, case.path)
      /\ BhIsMatch(case.path, case.name) =>
           EndsWith(case.path, case.name) \/ EndsWith(case.name, case.path)

\* xhook, bytehook and xdl agree on the load bias; an address belongs to the file exactly if
\* a loaded segment gives it a protection, and relro is read-only (xh_elf_init,
\* bh_elf_get_protect_by_addr, xdl_elf_is_match).
HeadersAgree ==
    Is("phdr") =>
      LET base == 10
          bias == MinVaddrBias(case.phdrs, base)
          loads == OfType(case.phdrs, "LOAD")
      IN /\ FirstLoadBias(case.phdrs, base) = bias
         /\ \A addr \in 0..20 :
              /\ XdlElfIsMatch(case.phdrs, bias, addr)
                   <=> ProtectByAddr(case.phdrs, bias, addr) # {}
                         /\ \E i \in loads : Within(case.phdrs[i], bias, addr)
              /\ (\E i \in OfType(case.phdrs, "RELRO") : Within(case.phdrs[i], bias, addr))
                   => "w" \notin ProtectByAddr(case.phdrs, bias, addr)

\* The scan of the memory map finds every mapping of an ELF file from offset 0, of one line
\* or of two, once and at its first address; the protection of a range is what all its
\* bytes have in common (xdl_iterate_by_maps, bh_dl_iterate_by_maps,
\* xh_util_get_mem_protect).
MapsAgree ==
    Is("maps") =>
      LET found == IterateByMaps(case.maps, case.elfs)
          line(i) == case.maps[i]
          code(i) == Readable(line(i)) /\ "x" \in line(i).prot /\ line(i).path # ""
          head(i) == Readable(line(i)) /\ "x" \notin line(i).prot /\ line(i).offset = 0
          whole == {[path |-> line(i).path, base |-> line(i).start] :
                      i \in {i \in DOMAIN case.maps : code(i) /\ line(i).offset = 0}}
          split == {[path |-> line(i).path, base |-> line(i - 1).start] :
                      i \in {i \in DOMAIN case.maps \ {1} :
                               /\ code(i) /\ line(i).offset # 0
                               /\ head(i - 1) /\ line(i - 1).path = line(i).path}}
      IN /\ Range(found) = {f \in whole \cup split : f.base \in case.elfs}
         /\ Len(found) = Cardinality(Range(found))
         /\ \A f \in Range(found) : PathnameFromMaps(case.maps, f.base) = f.path
         /\ \A addr \in 0..5, len \in 1..3, path \in {"a", "b"} :
              LET at(x) == {i \in DOMAIN case.maps : /\ line(i).path = path
                                                     /\ line(i).start <= x /\ x < line(i).end}
                  bytes == addr..addr + len - 1
              IN MemProtect(case.maps, path, addr, len) =
                   IF \E x \in bytes : at(x) = {} THEN {"?"}
                   ELSE {p \in {"r", "w", "x"} : \A x \in bytes : \A i \in at(x) : p \in line(i).prot}

\* Where bytehook finds a symbol table, xdl finds that or an earlier one (xdl_symtab_load,
\* bh_dl_load_symtab).
SectionsAgree ==
    Is("sections") =>
      LET bh == BhSymtab(case.sections)
          xdl == XdlSymtab(case.sections)
      IN bh # 0 => xdl # 0 /\ xdl <= bh /\ (case.sections[xdl].kind = "symtab" => xdl = bh)

\* A symbol of the table that bytehook finds, xdl finds too, that or an earlier one, and
\* neither finds an undefined one (xdl_dsym, bh_dl_dsym).
DsymsAgree ==
    Is("dsym") =>
      LET bh == BhDsym(case.table, case.sym)
          xdl == XdlDsym(case.table, case.sym)
      IN /\ bh # 0 => xdl \in 1..bh
         /\ \A i \in {bh, xdl} \ {0} : case.table[i].defined

\* The libraries agree on what a loaded file is, wherever they look: its dynamic section, its
\* name, its program headers, the memory map, its sections and the symbols there (xh_elf_init,
\* bh_elf_parse_dynamic_unsafe, xdl_find_iterate_cb, xdl_iterate_by_maps).
PlacesAgree == ParsersAgree /\ NamesAgree /\ HeadersAgree /\ MapsAgree /\ SectionsAgree /\ DsymsAgree

\* The comment above xdl_dsym_is_match: "here we only match the canonical name", the name
\* itself or the name up to one of its dots: the symbol found is the first of those.
OnlyCanonical ==
    Is("dsym") =>
      LET canonical(str) == str = case.sym \/ IsPrefix(Append(case.sym, "."), str)
      IN XdlDsym(case.table, case.sym) =
           FirstOf({i \in DOMAIN case.table : case.table[i].defined /\ canonical(case.table[i].name)})

-----------------------------------------------------------------------------
(***************************************************************************)
(* Records.                                                                *)
(***************************************************************************)
Ops == {[op |-> "hook", strs |-> <<l, s, c>>, stub |-> 1] : l \in {"liba"}, s \in Names, c \in {"liba", "app"}}
       \cup {[op |-> "unhook", strs |-> <<c>>, stub |-> 2] : c \in {"liba", "app"}}

Record ==
    /\ Is("start")
    /\ \E n \in 0..4 : \E ops \in [1..n -> Ops] : case' = [kind |-> "record", ops |-> ops]

ReadJournal ==
    /\ Is("start")
    /\ \E n \in 0..4 : \E bytes \in [1..n -> {"x", "CR", "LF"}], cuts \in SUBSET (1..n) :
         LET ends == SetToSortSeq(cuts \cup (IF n = 0 THEN {} ELSE {n}), LAMBDA a, b : a < b)
         IN case' = [kind |-> "lines", bytes |-> bytes,
                     chunks |-> [k \in DOMAIN ends |->
                                   SubSeq(bytes, IF k = 1 THEN 1 ELSE ends[k - 1] + 1, ends[k])]]

ReadDate ==
    /\ Is("start")
    /\ \E day \in (0..800) \cup (10950..11400) \cup (46740..47860) \cup (157000..157100),
          sec \in {0, SecsPerDay - 1}, gmtoff \in {0, -3600, 3600} :
         case' = [kind |-> "date", day |-> day, sec |-> sec, gmtoff |-> gmtoff]

\* What the recorder prints are the operations it accepted, in their order, each with its
\* own strings, and the error line exactly if it refused one; the first it refuses is the
\* last it is asked in earnest (bh_recorder_add_hook, bh_recorder_add_unhook,
\* bh_recorder_output).  A print that outgrows its buffer is excepted.
RecorderRight ==
    Is("record") =>
      LET after[k \in 0..Len(case.ops)] ==
              IF k = 0 THEN NoRecords ELSE AddOp(after[k - 1], case.ops[k])
          rec == after[Len(case.ops)]
          kept == {k \in DOMAIN case.ops : ~after[k].error}
          out == Output(rec)
      IN /\ Len(rec.records) = Cardinality(kept)
         /\ out.kind = "text" =>
              out.lines = SubSeq(case.ops, 1, Cardinality(kept))
                            \o (IF rec.error THEN <<ErrorLine>> ELSE <<>>)
         /\ rec.strbuf.sz <= rec.strbuf.cap /\ rec.strbuf.cap <= StrMax
         /\ rec.recbuf.sz <= rec.recbuf.cap /\ rec.recbuf.cap <= RecMax

\* The journal's lines are the parts of the file that end with LF or CR LF, wherever the
\* stream is cut into buffers, and the rest is reported as unterminated
\* (StrictLineReader.readLine, hasUnterminatedLine).
LinesRead ==
    Is("lines") =>
      LET b == case.bytes
          ends == SetToSortSeq(LfIn(b), LAMBDA x, y : x < y)
      IN ReadAll(case.chunks) =
           [lines |-> [k \in DOMAIN ends |->
                         StripCr(SubSeq(b, IF k = 1 THEN 1 ELSE ends[k - 1] + 1, ends[k] - 1))],
            unterminated |-> b # <<>> /\ Last(b) # "LF"]

\* The timestamp of a record is the Gregorian date of its second (bh_util_localtime_r).
DateIsGregorian ==
    Is("date") =>
      LET t == LocalTime(case.day, case.sec, case.gmtoff)
          leaps == Cardinality({y \in 1970..t.year - 1 : IsLeap(y)})
          yday == MonYday(IsLeap(t.year))
          day == 365 * (t.year - 1970) + leaps + yday[t.mon] + t.mday - 1
          sec == 3600 * t.hour + 60 * t.min + t.sec
      IN /\ t.mday \in 1..yday[t.mon + 1] - yday[t.mon] /\ t.hour \in 0..23
         /\ day * 24 + t.hour = case.day * 24 + ((case.sec + case.gmtoff) \div 3600)
         /\ sec % 3600 = case.sec % 3600

\* What was written is read back: the records with their strings and dates, and the lines
\* of the journal (bh_recorder_output, bh_util_localtime_r, StrictLineReader.readLine).
ReadBack == RecorderRight /\ DateIsGregorian /\ LinesRead

-----------------------------------------------------------------------------
Next == \/ DecodeNumber \/ DecodeRelocs
        \/ LookUp \/ FindSlots
        \/ ParseDynamic \/ MatchNames \/ MatchSymbols \/ ReadHeaders \/ ScanMaps \/ LoadSymtab
        \/ Record \/ ReadJournal \/ ReadDate

Spec == Init /\ [][Next]_vars

=============================================================================
