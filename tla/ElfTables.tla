----------------------------- MODULE ElfTables -----------------------------
(***************************************************************************)
(* The tables of a loaded ELF file and how the three libraries search      *)
(* them: the dynamic section, the symbol lookups through .hash and         *)
(* .gnu.hash, and the GOT slots of a symbol (xh_elf.c of xhook, bh_elf.c   *)
(* of bytehook, the .dynsym part of xdl.c).                                *)
(*                                                                         *)
(* An ELF file, elf, is a record: syms, the dynamic symbols 1..n (symbol 0 *)
(* is the null symbol), each with a name, a type and imp, whether it is    *)
(* undefined; hash, the hash of every name (any function, for both kinds   *)
(* of table); gnu and sysv, the tables there are; plt, dyn and aps2, the   *)
(* relocations of each section, each with a symbol, a type and an offset;  *)
(* got, what the slots hold.  The tables themselves are built by a static  *)
(* linker: imports come first, and the exports in the order of their       *)
(* buckets.                                                                *)
(***************************************************************************)
EXTENDS Integers, Sequences, FiniteSets, FiniteSetsExt, SequencesExt

CONSTANTS Buckets,      \* buckets of either table
          Bits,         \* elfclass_bits
          BloomCnt, BloomShift,
          AddrCap       \* addr_array_cap

ASSUME TablesAssumption ==
    /\ {Buckets, Bits, BloomCnt, AddrCap} \subseteq Nat \ {0}
    /\ BloomShift \in Nat

FuncTypes == {"FUNC", "IFUNC", "NOTYPE"}

-----------------------------------------------------------------------------
(***************************************************************************)
(* The tables, as the static linker lays them out.                         *)
(***************************************************************************)
SymOffset(elf) == 1 + Cardinality({i \in DOMAIN elf.syms : elf.syms[i].imp})
HashOf(elf, i) == elf.hash[elf.syms[i].name]
InBucket(elf, from, b) == {i \in DOMAIN elf.syms : i >= from /\ HashOf(elf, i) % Buckets = b}
FirstOf(S) == IF S = {} THEN 0 ELSE Min(S)

GnuBucket(elf, b) == FirstOf(InBucket(elf, SymOffset(elf), b))
GnuChain(elf, i) ==
    LET last == InBucket(elf, i + 1, HashOf(elf, i) % Buckets) = {}
    IN 2 * (HashOf(elf, i) \div 2) + (IF last THEN 1 ELSE 0)

SysvBucket(elf, b) == FirstOf(InBucket(elf, 1, b))
SysvChain(elf, i) == FirstOf(InBucket(elf, i + 1, HashOf(elf, i) % Buckets))

\* The two bits that a hash sets in the filter.
BloomMask(h) == {<<(h \div Bits) % BloomCnt, h % Bits>>,
                 <<(h \div Bits) % BloomCnt, (h \div 2^BloomShift) % Bits>>}
Bloom(elf) == UNION {BloomMask(HashOf(elf, i)) : i \in SymOffset(elf)..Len(elf.syms)}

-----------------------------------------------------------------------------
(***************************************************************************)
(* Lookups.  The result is a symbol's index, or 0.                         *)
(***************************************************************************)
Named(elf, i, name, types) == elf.syms[i].name = name /\ elf.syms[i].type \in types
AllTypes == FuncTypes \cup {"OBJECT"}

\* Along a chain of .hash from symbol i.
SysvFind(elf, name, types) ==
    LET from[i \in 0..Len(elf.syms)] ==
            IF i = 0 \/ Named(elf, i, name, types) THEN i ELSE from[SysvChain(elf, i)]
    IN from[SysvBucket(elf, elf.hash[name] % Buckets)]

\* A chain of .gnu.hash ends at the first element with the lowest bit set; the bit is
\* ignored when hashes are compared.
ChainEnd(elf, i) == Min({j \in i..Len(elf.syms) : GnuChain(elf, j) % 2 = 1})
SameHashWhole(elf, i, h) == GnuChain(elf, i) = h
SameHash(elf, i, h) == GnuChain(elf, i) \div 2 = h \div 2
GnuFind(elf, name, types) ==
    LET h == elf.hash[name]
        first == GnuBucket(elf, h % Buckets)
    IN IF ~(BloomMask(h) \subseteq Bloom(elf)) \/ first < SymOffset(elf) THEN 0
       ELSE FirstOf({i \in first..ChainEnd(elf, first) :
                       SameHash(elf, i, h) /\ Named(elf, i, name, types)})

ImportTable(elf, name, types) ==
    FirstOf({i \in 1..SymOffset(elf) - 1 : Named(elf, i, name, types)})

\* xh_elf_find_symidx_by_name
XhFind(elf, name) ==
    LET def == GnuFind(elf, name, AllTypes)
    IN IF ~elf.gnu THEN SysvFind(elf, name, AllTypes)
       ELSE IF def # 0 THEN def ELSE ImportTable(elf, name, AllTypes)

\* The first of the answers that is a symbol.
FirstFound(answers) ==
    LET found == SelectSeq(answers, LAMBDA i : i # 0) IN IF found = <<>> THEN 0 ELSE Head(found)
OnlyIf(c, i) == IF c THEN i ELSE 0
IsImport(elf, i) == i # 0 /\ elf.syms[i].imp
IsExport(elf, i) == i # 0 /\ ~elf.syms[i].imp

RelocatedAs(elf, relocs, name) ==
    LET hits == SelectSeq(relocs, LAMBDA r : elf.syms[r.sym].name = name)
    IN IF hits = <<>> THEN 0 ELSE Head(hits).sym

\* bh_elf_find_import_func_symbol_by_symbol_name: a symbol of the wrong kind is not
\* returned and the search goes on; last come the relocations, packed ones excepted.
BhImport(elf, name) ==
    LET sysv == IF elf.sysv THEN SysvFind(elf, name, FuncTypes) ELSE 0
        table == IF elf.gnu THEN ImportTable(elf, name, FuncTypes \ {"IFUNC"}) ELSE 0
        gnu == IF elf.gnu THEN GnuFind(elf, name, FuncTypes) ELSE 0
    IN FirstFound(<<OnlyIf(IsImport(elf, sysv), sysv), OnlyIf(IsImport(elf, table), table),
                    OnlyIf(IsExport(elf, gnu), gnu),
                    RelocatedAs(elf, elf.plt, name), RelocatedAs(elf, elf.dyn, name)>>)

\* bh_elf_find_export_func_symbol_by_symbol_name_unsafe
BhExport(elf, name) ==
    LET gnu == IF elf.gnu THEN GnuFind(elf, name, FuncTypes) ELSE 0
        sysv == IF elf.sysv THEN SysvFind(elf, name, FuncTypes) ELSE 0
    IN FirstFound(<<OnlyIf(IsExport(elf, gnu), gnu), OnlyIf(IsExport(elf, sysv), sysv)>>)

\* xdl_sym
XdlSym(elf, name) ==
    LET gnu == IF elf.gnu THEN GnuFind(elf, name, AllTypes) ELSE 0
        sysv == IF gnu = 0 /\ elf.sysv THEN SysvFind(elf, name, AllTypes) ELSE gnu
    IN OnlyIf(IsExport(elf, sysv), sysv)

\* xdl_sym_by_addr: the bucket chains of .gnu.hash, or all symbols of .hash; the test for
\* exported symbols in xdl_sym_is_match has no effect.  Symbol i lies at elf.at[i] and is
\* elf.size[i] long.
Covers(elf, i, offset) == offset >= elf.at[i] /\ offset < elf.at[i] + elf.size[i]
XdlSymByAddr(elf, offset) ==
    LET chain(b) == LET n == GnuBucket(elf, b)
                    IN IF n < SymOffset(elf) THEN 0
                       ELSE FirstOf({i \in n..ChainEnd(elf, n) : Covers(elf, i, offset)})
    IN IF elf.gnu THEN FirstFound([b \in 1..Buckets |-> chain(b - 1)])
       ELSE FirstOf({i \in DOMAIN elf.syms : Covers(elf, i, offset)})

-----------------------------------------------------------------------------
(***************************************************************************)
(* Slots.                                                                  *)
(***************************************************************************)
PltType(r) == r.type = "JUMP_SLOT"
DynType(r) == r.type \in {"GLOB_DAT", "ABS"}
Offsets(relocs) == [i \in DOMAIN relocs |-> relocs[i].off]

\* xh_elf_hook with xh_elf_find_and_replace_func: the slots it replaces, only the first of
\* .rel.plt.
XhSlots(elf, name) ==
    LET idx == XhFind(elf, name)
        of(relocs, type(_)) == Offsets(SelectSeq(relocs, LAMBDA r : r.sym = idx /\ type(r)))
        plt == of(elf.plt, PltType)
    IN IF idx = 0 THEN <<>>
       ELSE (IF plt = <<>> THEN <<>> ELSE <<plt[1]>>) \o of(elf.dyn, DynType) \o of(elf.aps2, DynType)

Capped(s) == SubSeq(s, 1, IF Len(s) < AddrCap THEN Len(s) ELSE AddrCap)

\* bh_elf_find_import_func_addr_by_symbol_name_unsafe: until addr_array is full.
BhSlots(elf, name) ==
    LET idx == BhImport(elf, name)
        of(relocs, type(_)) == Offsets(SelectSeq(relocs, LAMBDA r : r.sym = idx /\ type(r)))
    IN IF idx = 0 THEN <<>>
       ELSE Capped(of(elf.plt, PltType) \o of(elf.dyn, DynType) \o of(elf.aps2, DynType))

\* bh_elf_find_import_func_addr_by_callee_addr_unsafe: by what the slots hold.
BhSlotsByCallee(elf, target) ==
    LET of(relocs, type(_)) ==
            Offsets(SelectSeq(relocs, LAMBDA r : type(r) /\ elf.got[r.off] = target))
    IN Capped(of(elf.plt, PltType) \o of(elf.dyn, DynType) \o of(elf.aps2, DynType))

-----------------------------------------------------------------------------
(***************************************************************************)
(* The dynamic section: a sequence of tags.  "BADMAGIC" stands for packed  *)
(* relocations that do not start with APS2, "LOW" for a table below the    *)
(* base address.  The result says which tables will be used.               *)
(***************************************************************************)
Tags == {"STRTAB", "SYMTAB", "HASH", "GNU_HASH", "JMPREL", "REL", "ANDROID_REL", "BADMAGIC",
         "LOW", "NULL"}

UpToNull(tags) ==
    LET stop == {i \in DOMAIN tags : tags[i] = "NULL"}
    IN IF stop = {} THEN tags ELSE SubSeq(tags, 1, Min(stop) - 1)

\* One entry in xh_elf_init: .hash is ignored once .gnu.hash was seen, .gnu.hash replaces it.
XhTagLastWins(r, tag) == IF tag \in {"HASH", "GNU_HASH"} THEN [r EXCEPT !.table = tag] ELSE r
XhTag(r, tag) ==
    IF tag = "HASH" THEN IF r.table = "GNU_HASH" THEN r ELSE [r EXCEPT !.table = tag]
    ELSE IF tag = "GNU_HASH" THEN [r EXCEPT !.table = tag]
    ELSE r

\* xh_elf_init and xh_elf_check: all or nothing.
XhInit(tags) ==
    LET seen == UpToNull(tags)
        table == FoldLeft(XhTag, [table |-> "none"], seen).table
        relocs == Range(seen) \cap {"JMPREL", "REL", "ANDROID_REL"}
        ok == /\ {"STRTAB", "SYMTAB"} \subseteq Range(seen)
              /\ table # "none"
              /\ Range(seen) \cap {"BADMAGIC", "LOW"} = {}
    IN IF ok THEN [ok |-> TRUE, table |-> table, relocs |-> relocs]
       ELSE [ok |-> FALSE, table |-> "none", relocs |-> {}]

\* bh_elf_parse_dynamic_unsafe: whatever is there; packed relocations of another format are
\* left out.
BhParse(tags) ==
    LET seen == Range(UpToNull(tags))
    IN [tables |-> seen \cap {"HASH", "GNU_HASH"},
        relocs |-> (seen \cap {"JMPREL", "REL", "ANDROID_REL"})]

\* xdl_dynsym_load
XdlLoad(tags) ==
    LET seen == Range(UpToNull(tags))
        tables == seen \cap {"HASH", "GNU_HASH"}
    IN IF {"STRTAB", "SYMTAB"} \subseteq seen /\ tables # {} THEN tables ELSE {}

=============================================================================
