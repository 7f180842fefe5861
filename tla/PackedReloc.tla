---------------------------- MODULE PackedReloc ----------------------------
(***************************************************************************)
(* Android's packed relocations as the two hook libraries read them:       *)
(* SLEB128 numbers (bh_sleb128.c, xh_elf_sleb128_decoder_next) and, above  *)
(* them, the APS2 groups (bh_elf_iterate_aps2 calls back for each          *)
(* relocation, xhook has an iterator that keeps its place).                *)
(*                                                                         *)
(* A number is size_t, of Width bits; the groups are read from a sequence  *)
(* of numbers already decoded.                                             *)
(***************************************************************************)
EXTENDS Integers, Sequences, FiniteSetsExt, SequencesExt

CONSTANT Width
ASSUME WidthAssumption == Width \in Nat \ {0}

-----------------------------------------------------------------------------
(***************************************************************************)
(* SLEB128.                                                                *)
(***************************************************************************)
Fails == [ok |-> FALSE, value |-> 0, next |-> 0]

SignExtends(n, last) == 7 * n < Width /\ last % 128 >= 64

\* sleb128_decoder_next from position p: seven bits of each byte, low ones first, up to
\* a byte without the high bit; the sign is extended when bits are left.
SlebNext(bytes, p) ==
    LET ends == {q \in p..Len(bytes) : bytes[q] < 128}
    IN IF ends = {} THEN Fails
       ELSE LET e == Min(ends)
                n == e - p + 1
                part(q) == ((bytes[q] % 128) * 2^(7 * (q - p))) % 2^Width
                sum == FoldLeft(LAMBDA acc, q : acc + part(q), 0, [i \in 1..n |-> p + i - 1])
            IN [ok |-> TRUE,
                value |-> IF SignExtends(n, bytes[e])
                          THEN (sum + 2^Width - 2^(7 * n)) % 2^Width ELSE sum % 2^Width,
                next |-> e + 1]

\* The encoding of v: what the format prescribes.
SlebEncode(v) ==
    LET enc[k \in 0..Width] ==      \* the bytes of v \div 128^k
            LET x == v \div 128^k
                rest == x \div 128
                byte == x % 128
            IN IF (rest = 0 /\ byte < 64) \/ (rest = -1 /\ byte >= 64)
               THEN <<byte>> ELSE <<byte + 128>> \o enc[k + 1]
    IN enc[0]

-----------------------------------------------------------------------------
(***************************************************************************)
(* Groups.  flags is the set of the group's flags.                         *)
(***************************************************************************)
Flags == {"INFO", "OFFSET_DELTA", "ADDEND", "HAS_ADDEND"}

\* Reads one number into field f of reader r: replaces it, or adds to it.
Pop(s, r, f, add) ==
    IF ~r.ok \/ r.pos > Len(s) THEN [r EXCEPT !.ok = FALSE]
    ELSE [r EXCEPT !.pos = @ + 1, ![f] = IF add THEN (@ + s[r.pos]) % 2^Width ELSE s[r.pos]]
PopIf(c, s, r, f, add) == IF c THEN Pop(s, r, f, add) ELSE r

GroupedAddend(flags) == {"HAS_ADDEND", "ADDEND"} \subseteq flags
EachAddend(flags) == "HAS_ADDEND" \in flags /\ "ADDEND" \notin flags

\* The header of the stream: the count and the first offset.
Header(s) ==
    LET start == [pos |-> 1, out |-> <<>>, off |-> 0, info |-> 0, addend |-> 0, delta |-> 0,
                  count |-> 0, size |-> 0, flags |-> {}, at |-> 0, ok |-> TRUE]
    IN Pop(s, Pop(s, start, "count", FALSE), "off", FALSE)

GroupHead(s, r) ==
    LET sized == Pop(s, r, "size", FALSE)
    IN Pop(s, sized, "flags", FALSE)

\* One relocation of a group with the flags of r.
OneReloc(s, r, rela) ==
    LET grouped == "OFFSET_DELTA" \in r.flags
        moved == IF grouped THEN [r EXCEPT !.off = (@ + r.delta) % 2^Width]
                 ELSE Pop(s, r, "off", TRUE)
        typed == PopIf("INFO" \notin r.flags, s, moved, "info", FALSE)
        done == PopIf(rela /\ EachAddend(r.flags), s, typed, "addend", TRUE)
    IN IF ~done.ok THEN done
       ELSE [done EXCEPT !.out = Append(@, [off |-> done.off, info |-> done.info,
                                            addend |-> IF rela THEN done.addend ELSE 0])]

\* The fields of a group that follow its head, up to the addend.
GroupFields(s, r) ==
    LET delta == PopIf("OFFSET_DELTA" \in r.flags, s, r, "delta", FALSE)
    IN PopIf("INFO" \in r.flags, s, delta, "info", FALSE)

\* xh_elf_packed_reloc_iterator_read_group_fields: a group with a common addend adds to
\* the addend so far, a group without addends clears it.
XhGroupKeepsAddend(s, r, rela) ==
    LET read == GroupFields(s, GroupHead(s, r))
    IN [IF GroupedAddend(read.flags) THEN Pop(s, read, "addend", TRUE) ELSE read EXCEPT !.at = 0]
XhGroup(s, r, rela) ==
    LET read == GroupFields(s, GroupHead(s, r))
        done == IF GroupedAddend(read.flags)
                THEN IF rela THEN Pop(s, read, "addend", TRUE) ELSE [read EXCEPT !.ok = FALSE]
                ELSE IF "HAS_ADDEND" \notin read.flags THEN [read EXCEPT !.addend = 0] ELSE read
    IN [done EXCEPT !.at = 0]

\* xh_elf_packed_reloc_iterator_next until it returns NULL.
XhIterate(s, rela) ==
    LET step[k \in 0..Header(s).count] ==
            IF k = 0 THEN Header(s)
            ELSE LET r == step[k - 1]
                     entered == IF r.at = r.size THEN XhGroup(s, r, rela) ELSE r
                     one == OneReloc(s, entered, rela)
                 IN IF ~r.ok \/ Len(r.out) >= r.count THEN r
                    ELSE IF ~entered.ok THEN entered
                    ELSE IF one.ok THEN [one EXCEPT !.at = @ + 1] ELSE one
    IN step[Header(s).count].out

\* bh_elf_iterate_aps2, for a callback that goes on.  The addend is cleared also where
\* each relocation has its own.
BhGroup(s, r, rela) ==
    LET read == GroupFields(s, GroupHead(s, [r EXCEPT !.delta = 0]))
    IN IF ~rela THEN IF "HAS_ADDEND" \in read.flags THEN [read EXCEPT !.ok = FALSE] ELSE read
       ELSE IF GroupedAddend(read.flags) THEN Pop(s, read, "addend", TRUE)
       ELSE [read EXCEPT !.addend = 0]

BhIterate(s, rela) ==
    LET group[k \in 0..Header(s).count] ==
            IF k = 0 THEN Header(s)
            ELSE LET r == group[k - 1]
                     head == BhGroup(s, r, rela)
                     relocs == FoldLeft(LAMBDA acc, i : IF acc.ok THEN OneReloc(s, acc, rela) ELSE acc,
                                        head, [i \in 1..head.size |-> i])
                 IN IF ~r.ok \/ Len(r.out) >= r.count THEN r
                    ELSE IF ~head.ok THEN head ELSE relocs
    IN group[Header(s).count].out

-----------------------------------------------------------------------------
(***************************************************************************)
(* What the format means.  A group is [flags, delta, info, addend, rel],   *)
(* rel a sequence of [delta, info, addend]; a stream of groups starts at   *)
(* offset base.                                                            *)
(***************************************************************************)
Opt(c, x) == IF c THEN <<x>> ELSE <<>>

EncodeReloc(g, x) ==
    Opt("OFFSET_DELTA" \notin g.flags, x.delta) \o Opt("INFO" \notin g.flags, x.info)
        \o Opt(EachAddend(g.flags), x.addend)

EncodeGroup(g) ==
    <<Len(g.rel), g.flags>> \o Opt("OFFSET_DELTA" \in g.flags, g.delta)
        \o Opt("INFO" \in g.flags, g.info) \o Opt(GroupedAddend(g.flags), g.addend)
        \o FlattenSeq([i \in 1..Len(g.rel) |-> EncodeReloc(g, g.rel[i])])

EncodeAll(base, groups) ==
    <<FoldLeft(LAMBDA n, g : n + Len(g.rel), 0, groups), base>>
        \o FlattenSeq([i \in 1..Len(groups) |-> EncodeGroup(groups[i])])

\* The relocations, each with the group it is in.
AllRelocs(groups) ==
    FlattenSeq([i \in 1..Len(groups) |-> [j \in 1..Len(groups[i].rel) |->
        [g |-> groups[i], x |-> groups[i].rel[j], first |-> j = 1]]])

Meaning(base, groups, rela) ==
    LET list == AllRelocs(groups)
        off[n \in 0..Len(list)] ==
            IF n = 0 THEN base
            ELSE (off[n - 1] + IF "OFFSET_DELTA" \in list[n].g.flags
                               THEN list[n].g.delta ELSE list[n].x.delta) % 2^Width
        add[n \in 0..Len(list)] ==
            IF n = 0 THEN 0
            ELSE LET e == list[n]
                 IN IF "HAS_ADDEND" \notin e.g.flags THEN 0
                    ELSE (add[n - 1] + IF EachAddend(e.g.flags) THEN e.x.addend
                                       ELSE IF e.first THEN e.g.addend ELSE 0) % 2^Width
    IN [n \in 1..Len(list) |->
          [off |-> off[n], info |-> IF "INFO" \in list[n].g.flags THEN list[n].g.info ELSE list[n].x.info,
           addend |-> IF rela THEN add[n] ELSE 0]]

=============================================================================
