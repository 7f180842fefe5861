------------------------- MODULE DiskLruJournal_proofs -------------------------
(***************************************************************************)
(* What the journal of DiskLruCache says, to this process and to the next: *)
(* NoFileLeak, no value file is left without an entry, as long as the      *)
(* rename of a dirty file succeeds; and, as long as no I/O error occurs,   *)
(* JournalAgrees, Durable and OwnSnapshotCurrent; for every number of      *)
(* keys, values, edits and crashes.                                        *)
(* What makes the first true is the order of the journal and the files,    *)
(* also for a process that does not live to write what it holds back: so   *)
(* the inductive invariant, LeakInv, speaks of every text that a next open *)
(* may find, and of the entries that each would make.  AgreeInv, of the    *)
(* second, compares memory with the longest of them; KeptInv, of the third,*)
(* with the shortest, for the entries that nothing is about.  SnapInv, of  *)
(* the last, says what the number of an entry tells of a snapshot of it.   *)
(* All hold beside the invariant of DiskLruCache_proofs.                   *)
(***************************************************************************)
EXTENDS DiskLruCache_proofs

-----------------------------------------------------------------------------
(***************************************************************************)
(* What a later open may read.                                             *)
(***************************************************************************)
\* The entries that lines make.
Reader == NewCache(CHOOSE v \in Versions : TRUE, 1, 0)
NoEntries == [k \in Keys |-> NoEntry]
Journaled(s) == ReplayAll(Reader, s).ent
Ents == [Keys -> Entries \cup {NoEntry}]

\* Memories without entries.
Empties == {m \in Mems : m.lru = <<>> /\ m.ent = NoEntries}

\* Such a memory may be read into.
LEMMA EmptyReplays ==
  ASSUME NEW m \in Empties
  PROVE  m \in Replays(m) /\ m \in Mems /\ m.ent = NoEntries
<1>1. Listed(m)
  BY DEF Empties, Listed, NoEntries, Distinct, ToSet
<1>2. m = [m EXCEPT !.lru = m.lru, !.ent = m.ent]
  BY DEF Empties, Mems
<1> QED
  BY <1>1, <1>2 DEF Empties, Replays, NoEntries

\* The reader is one.
LEMMA ReaderIs == ASSUME NEW v \in Versions PROVE Reader \in Empties
<1>1. (CHOOSE x \in Versions : TRUE) \in Versions /\ 1 \in Nat \ {0} /\ 0 \in Nat
  OBVIOUS
<1>2. LET m == NewCache(CHOOSE x \in Versions : TRUE, 1, 0)
      IN  Sound(m) /\ m.lru = <<>> /\ m.ent = [k \in Keys |-> NoEntry]
  BY <1>1, NewCacheIs
<1> QED
  BY <1>2 DEF Empties, Reader, Sound, NoEntries

ReadsMore(m, s, l) ==
    /\ ReplayAll(m, s).ent \in Ents
    /\ ReplayAll(m, Append(s, l)).ent = [ReplayAll(m, s).ent EXCEPT ![l.key] = LineEntry(@, l)]

\* A line more is an entry replaced.
LEMMA ReadMore ==
  ASSUME NEW m \in Empties, NEW s \in Seq(Lines), NEW l \in Lines
  PROVE  ReadsMore(m, s, l)
<1> DEFINE a == ReplayAll(m, s)
<1>1. m \in Replays(m) /\ m.ent = NoEntries
  BY EmptyReplays
<1>2. a \in Replays(m)
  BY <1>1, ReplayAllIn
<1>3. ReplayAll(m, Append(s, l)) = Replay(a, l)
  BY <1>1, ReplayMore
<1> HIDE DEF a
<1>5. a \in Mems
  BY <1>2 DEF Replays
<1>6. Replay(a, l).ent = [a.ent EXCEPT ![l.key] = LineEntry(@, l)]
  BY <1>5, ReplayIs
<1> QED
  BY <1>1, <1>3, <1>5, <1>6 DEF a, Mems, Ents, ReadsMore

\* A sequence and its last element.
LEMMA LastSplit ==
  ASSUME NEW S, NEW s \in Seq(S), NEW n \in Nat, Len(s) = n + 1
  PROVE  LET t == SubSeq(s, 1, n)
         IN  t \in Seq(S) /\ Len(t) = n /\ s = Append(t, s[n + 1]) /\ s[n + 1] \in S
             /\ \A i \in 1..n : t[i] = s[i]
<1> DEFINE t == SubSeq(s, 1, n)
<1>1. t \in Seq(S) /\ Len(t) = n /\ \A i \in 1..n : t[i] = s[i]
  OBVIOUS
<1>2. s[n + 1] \in S
  OBVIOUS
<1> HIDE DEF t
<1>3. s = Append(t, s[n + 1])
  BY <1>1, <1>2
<1> QED
  BY <1>1, <1>2, <1>3 DEF t

\* What is read does not depend on the other fields of the memory.
LEMMA ReadSame ==
  ASSUME NEW m \in Empties, NEW s \in Seq(Lines)
  PROVE  ReplayAll(m, s).ent = Journaled(s)
<1> DEFINE N == {n \in Nat : \A r \in Seq(Lines) : Len(r) = n => ReplayAll(m, r).ent = Journaled(r)}
<1>0. Reader \in Empties
  BY ReaderIs DEF Empties, Mems
<1>1. 0 \in N
  <2> SUFFICES ASSUME NEW r \in Seq(Lines), Len(r) = 0 PROVE ReplayAll(m, r).ent = Journaled(r)
    OBVIOUS
  <2>1. r = <<>>
    OBVIOUS
  <2>2. ReplayAll(m, <<>>).ent = NoEntries /\ ReplayAll(Reader, <<>>).ent = NoEntries
    BY <1>0, EmptyReplays, ReplayNone
  <2> QED
    BY <2>1, <2>2 DEF Journaled
<1>2. ASSUME NEW n \in Nat, n \in N PROVE n + 1 \in N
  <2> SUFFICES ASSUME NEW r \in Seq(Lines), Len(r) = n + 1 PROVE ReplayAll(m, r).ent = Journaled(r)
    OBVIOUS
  <2> DEFINE t == SubSeq(r, 1, n)  l == r[n + 1]
  <2>1. t \in Seq(Lines) /\ Len(t) = n /\ r = Append(t, l) /\ l \in Lines
    BY LastSplit
  <2> HIDE DEF t, l
  <2>2. ReplayAll(m, t).ent = Journaled(t)
    BY <1>2, <2>1
  <2>3. ReadsMore(m, t, l) /\ ReadsMore(Reader, t, l)
    BY <1>0, <2>1, ReadMore
  <2> QED
    BY <2>1, <2>2, <2>3 DEF Journaled, ReadsMore
<1>3. Nat \subseteq N
  <2> HIDE DEF N
  <2> QED
    BY <1>1, <1>2, NatIn
<1> QED
  BY <1>3

\* So reading is a function of the lines.
LEMMA JournaledIs ==
  ASSUME NEW v \in Versions, NEW s \in Seq(Lines), NEW l \in Lines
  PROVE  /\ Journaled(s) \in Ents
         /\ Journaled(Append(s, l)) \in Ents
         /\ Journaled(Append(s, l))[l.key] = LineEntry(Journaled(s)[l.key], l)
         /\ \A k \in Keys : k # l.key => Journaled(Append(s, l))[k] = Journaled(s)[k]
         /\ l.key \in Keys
<1>1. Reader \in Empties
  BY ReaderIs
<1>2. Journaled(s) \in Ents /\ Journaled(Append(s, l)) = [Journaled(s) EXCEPT ![l.key] = LineEntry(@, l)]
  BY <1>1, ReadMore DEF Journaled, ReadsMore
<1>3. l.key \in Keys
  BY LineType
<1>4. Append(s, l) \in Seq(Lines)
  OBVIOUS
<1>5. Journaled(Append(s, l)) \in Ents
  BY <1>1, <1>4, ReadMore DEF Journaled, ReadsMore
<1> QED
  BY <1>2, <1>3, <1>5 DEF Ents

\* And without lines there are no entries.
LEMMA JournaledNone == ASSUME NEW v \in Versions PROVE Journaled(<<>>) = NoEntries
  BY ReaderIs, EmptyReplays, ReplayNone DEF Journaled

\* A journal with one line for each key that has one.
Singles(c) ==
    /\ c \in Seq(Lines)
    /\ \A a, b \in DOMAIN c : c[a].key = c[b].key => a = b
    /\ \A n \in DOMAIN c : c[n].state # "REMOVE"
ReadsSingles(c) ==
    /\ \A n \in DOMAIN c : Journaled(c)[c[n].key] = LineEntry(NoEntry, c[n])
    /\ \A k \in Keys : (\A n \in DOMAIN c : c[n].key # k) => Journaled(c)[k] = NoEntry

\* It is read as it is written.
LEMMA SinglesRead ==
  ASSUME NEW v \in Versions, NEW c, Singles(c)
  PROVE  ReadsSingles(c)
<1> DEFINE N == {n \in Nat : \A r : Singles(r) /\ Len(r) = n => ReadsSingles(r)}
<1>1. 0 \in N
  <2> SUFFICES ASSUME NEW r, Singles(r), Len(r) = 0 PROVE ReadsSingles(r)
    OBVIOUS
  <2>1. r = <<>> /\ DOMAIN r = {}
    BY DEF Singles
  <2>2. Journaled(r) = NoEntries
    BY <2>1, JournaledNone
  <2> QED
    BY <2>1, <2>2 DEF ReadsSingles, NoEntries
<1>2. ASSUME NEW n \in Nat, n \in N PROVE n + 1 \in N
  <2> SUFFICES ASSUME NEW r, Singles(r), Len(r) = n + 1 PROVE ReadsSingles(r)
    OBVIOUS
  <2> DEFINE t == SubSeq(r, 1, n)  l == r[n + 1]
  <2>1. t \in Seq(Lines) /\ Len(t) = n /\ r = Append(t, l) /\ l \in Lines /\ \A i \in 1..n : t[i] = r[i]
    BY LastSplit DEF Singles
  <2>2. DOMAIN r = 1..n + 1 /\ DOMAIN t = 1..n /\ r \in Seq(Lines)
    BY <2>1 DEF Singles
  <2>d. r[n + 1] = l
    OBVIOUS
  <2> HIDE DEF t, l
  <2>3. Singles(t)
    BY <2>1, <2>2 DEF Singles
  <2>4. ReadsSingles(t)
    BY <1>2, <2>1, <2>3
  <2>5. \A i \in 1..n : r[i].key # l.key /\ r[i].key \in Keys
    <3> SUFFICES ASSUME NEW i \in 1..n PROVE r[i].key # l.key /\ r[i].key \in Keys
      OBVIOUS
    <3>1. i \in DOMAIN r /\ n + 1 \in DOMAIN r /\ i # n + 1
      BY <2>2
    <3>2. r[i] \in Lines /\ r[i].key # r[n + 1].key
      BY <2>2, <3>1 DEF Singles
    <3> QED
      BY <2>d, <3>2, LineType
  <2>6. /\ Journaled(r)[l.key] = LineEntry(Journaled(t)[l.key], l)
        /\ \A k \in Keys : k # l.key => Journaled(r)[k] = Journaled(t)[k]
        /\ l.key \in Keys
    BY <2>1, JournaledIs
  <2>7. Journaled(t)[l.key] = NoEntry
    BY <2>1, <2>2, <2>4, <2>5, <2>6 DEF ReadsSingles
  <2>8. \A i \in DOMAIN r : Journaled(r)[r[i].key] = LineEntry(NoEntry, r[i])
    <3> SUFFICES ASSUME NEW i \in DOMAIN r PROVE Journaled(r)[r[i].key] = LineEntry(NoEntry, r[i])
      OBVIOUS
    <3>1. CASE i = n + 1
      BY <2>6, <2>7, <2>d, <3>1
    <3>2. CASE i # n + 1
      <4>1. i \in 1..n
        BY <2>2, <3>2
      <4> QED
        BY <2>1, <2>2, <2>4, <2>5, <2>6, <4>1 DEF ReadsSingles
    <3> QED
      BY <3>1, <3>2
  <2>9. \A k \in Keys : (\A i \in DOMAIN r : r[i].key # k) => Journaled(r)[k] = NoEntry
    <3> SUFFICES ASSUME NEW k \in Keys, \A i \in DOMAIN r : r[i].key # k PROVE Journaled(r)[k] = NoEntry
      OBVIOUS
    <3>1. k # l.key /\ \A i \in DOMAIN t : t[i].key # k
      BY <2>1, <2>2, <2>d
    <3> QED
      BY <2>4, <2>6, <3>1 DEF ReadsSingles
  <2> QED
    BY <2>8, <2>9 DEF ReadsSingles
<1>3. Len(c) \in N
  <2>1. Len(c) \in Nat
    BY DEF Singles
  <2> HIDE DEF N
  <2> QED
    BY <1>1, <1>2, <2>1, NatIn
<1> QED
  BY <1>3

\* What a rebuilt journal says.
Marked(e, k) == e[k] # NoEntry /\ e[k].editor # NoEditor
Rebuilt(m, e) ==
    \A k \in Keys :
      /\ m.ent[k] = NoEntry => e[k] = NoEntry
      /\ EditingIn(m, k) => Marked(e, k)
      /\ Resting(m, k) => /\ e[k] # NoEntry /\ e[k].editor = NoEditor
                          /\ e[k].readable /\ e[k].len = m.ent[k].len

\* The lines of a rebuilt journal are read as the entries they were made of.
LEMMA CompactedIs ==
  ASSUME mem \in Mems, Listed(mem)
  PROVE  Compacted \in Seq(Lines) /\ Rebuilt(mem, Journaled(Compacted))
<1> DEFINE c == Compacted  s == mem.lru
           l(k) == IF Editing(k) THEN Line("DIRTY", k) ELSE CleanLine(k, mem.ent[k])
<1>1. /\ s \in Seq(Keys) /\ Distinct(s)
      /\ \A k \in Keys : mem.ent[k] # NoEntry <=> \E n \in DOMAIN s : s[n] = k
  BY DEF Mems, Listed, ToSet
<1>2. DOMAIN c = DOMAIN s /\ \A n \in DOMAIN s : c[n] = l(s[n])
  BY DEF Compacted
<1>3. \A k \in Keys : mem.ent[k] # NoEntry =>
        /\ l(k) \in Lines /\ l(k).key = k /\ l(k).state \in {"DIRTY", "CLEAN"}
        /\ l(k).state = "DIRTY" <=> EditingIn(mem, k)
        /\ l(k).state = "CLEAN" => l(k).len = mem.ent[k].len
  <2> SUFFICES ASSUME NEW k \in Keys, mem.ent[k] # NoEntry
               PROVE  /\ l(k) \in Lines /\ l(k).key = k /\ l(k).state \in {"DIRTY", "CLEAN"}
                      /\ l(k).state = "DIRTY" <=> EditingIn(mem, k)
                      /\ l(k).state = "CLEAN" => l(k).len = mem.ent[k].len
    OBVIOUS
  <2>1. mem.ent[k] \in Entries /\ mem.ent[k].len \in [Idx -> Nat]
    BY DEF Mems, Entries
  <2>2. CASE Editing(k)
    BY <2>2 DEF Line, Lines, Editing, EditingIn
  <2>3. CASE ~Editing(k)
    BY <2>1, <2>3 DEF CleanLine, Lines, Editing, EditingIn
  <2> QED
    BY <2>2, <2>3
<1> HIDE DEF l
<1>d. \A n \in DOMAIN s : s[n] \in Keys /\ mem.ent[s[n]] # NoEntry
  BY <1>1
<1>t. c = [n \in DOMAIN s |-> c[n]] /\ DOMAIN s = 1..Len(s) /\ Len(s) \in Nat
  BY <1>1 DEF Compacted
<1> HIDE DEF c
<1>4. c \in Seq(Lines)
  <2>1. ASSUME NEW n \in 1..Len(s) PROVE c[n] \in Lines
    <3>1. n \in DOMAIN s /\ c[n] = l(s[n])
      BY <1>2, <1>t
    <3> QED
      BY <1>3, <1>d, <3>1
  <2> QED
    BY <1>t, <2>1
<1>5. Singles(c)
  <2>1. \A a, b \in DOMAIN c : c[a].key = c[b].key => a = b
    BY <1>1, <1>2, <1>3, <1>d DEF Distinct
  <2>2. \A n \in DOMAIN c : c[n].state # "REMOVE"
    BY <1>2, <1>3, <1>d
  <2> QED
    BY <1>4, <2>1, <2>2 DEF Singles
<1>6. ReadsSingles(c)
  BY <1>5, SinglesRead DEF Mems
<1>7. Rebuilt(mem, Journaled(c))
  <2> SUFFICES ASSUME NEW k \in Keys
               PROVE  /\ mem.ent[k] = NoEntry => Journaled(c)[k] = NoEntry
                      /\ EditingIn(mem, k) => Marked(Journaled(c), k)
                      /\ Resting(mem, k) =>
                           /\ Journaled(c)[k] # NoEntry /\ Journaled(c)[k].editor = NoEditor
                           /\ Journaled(c)[k].readable /\ Journaled(c)[k].len = mem.ent[k].len
    BY DEF Rebuilt
  <2>1. CASE mem.ent[k] = NoEntry
    <3>1. \A n \in DOMAIN c : c[n].key # k
      BY <1>2, <1>3, <1>d, <2>1
    <3> QED
      BY <1>6, <2>1, <3>1 DEF ReadsSingles, EditingIn, Resting
  <2>2. CASE mem.ent[k] # NoEntry
    <3>1. PICK n \in DOMAIN s : s[n] = k
      BY <1>1, <2>2
    <3>2. c[n] = l(k) /\ n \in DOMAIN c /\ c[n].key = k
      BY <1>2, <1>3, <2>2, <3>1
    <3>3. Journaled(c)[k] = LineEntry(NoEntry, l(k))
      BY <1>6, <3>2 DEF ReadsSingles
    <3>4. l(k).state \in {"DIRTY", "CLEAN"} /\ (l(k).state = "DIRTY" <=> EditingIn(mem, k))
          /\ (l(k).state = "CLEAN" => l(k).len = mem.ent[k].len) /\ l(k) \in Lines
      BY <1>3, <2>2
    <3>5. CASE EditingIn(mem, k)
      <4>1. Journaled(c)[k] = [Entry EXCEPT !.editor = NewEditor(0)]
        BY <3>3, <3>4, <3>5 DEF LineEntry, EntryOf
      <4>2. NewEditor(0) \in Editors /\ NewEditor(0) # NoEditor
        BY EditorType
      <4>3. [Entry EXCEPT !.editor = NewEditor(0)] \in Entries
        BY <4>2, EntryType DEF Entries
      <4>4. Journaled(c)[k] # NoEntry /\ Journaled(c)[k].editor # NoEditor
        BY <4>1, <4>2, <4>3, NullAssumption DEF Entry
      <4> QED
        BY <2>2, <3>5, <4>4 DEF EditingIn, Resting, Marked
    <3>6. CASE ~EditingIn(mem, k)
      <4>0. l(k).state = "CLEAN" /\ l(k).len = mem.ent[k].len /\ l(k).len \in [Idx -> Nat]
        BY <3>4, <3>6, LineType
      <4>1. Journaled(c)[k] = [Entry EXCEPT !.readable = TRUE, !.editor = NoEditor, !.len = l(k).len]
        BY <3>3, <4>0 DEF LineEntry, EntryOf
      <4>2. [Entry EXCEPT !.readable = TRUE, !.editor = NoEditor, !.len = l(k).len] \in Entries
        BY <4>0, EntryType DEF Entries
      <4>3. Journaled(c)[k] # NoEntry /\ Journaled(c)[k].editor = NoEditor /\ Journaled(c)[k].readable
            /\ Journaled(c)[k].len = mem.ent[k].len
        BY <4>0, <4>1, <4>2, NullAssumption DEF Entry
      <4> QED
        BY <2>2, <3>6, <4>3
    <3> QED
      BY <3>5, <3>6
  <2> QED
    BY <2>1, <2>2
<1> QED
  BY <1>4, <1>7 DEF c

\* The file that the next open reads, and what the writer of this process holds back.
Journal(d) == IF d.journal = NoFile THEN d.backup ELSE d.journal
Out(m) == IF m.writer = "open" THEN m.out ELSE <<>>

\* What the next open may find, after a crash now or later, and all of it.
Texts(d, m) ==
    IF Journal(d) = NoFile THEN {<<>>}
    ELSE {Journal(d).lines \o SubSeq(Out(m), 1, n) : n \in 0..Len(Out(m))}
Full(d, m) == IF Journal(d) = NoFile THEN <<>> ELSE Journal(d).lines \o Out(m)

\* A part of a sequence.
LEMMA PartIs ==
  ASSUME NEW S, NEW o \in Seq(S), NEW n \in 0..Len(o)
  PROVE  SubSeq(o, 1, n) \in Seq(S) /\ Len(SubSeq(o, 1, n)) = n /\ \A i \in 1..n : SubSeq(o, 1, n)[i] = o[i]
  OBVIOUS

\* Nothing, or all of it.
LEMMA PartsEnd ==
  ASSUME NEW S, NEW s \in Seq(S), NEW o \in Seq(S)
  PROVE  s \o SubSeq(o, 1, 0) = s /\ s \o SubSeq(o, 1, Len(o)) = s \o o /\ s \o o \in Seq(S)
         /\ s \o <<>> = s
<1>1. SubSeq(o, 1, 0) = <<>>
  OBVIOUS
<1>2. SubSeq(o, 1, Len(o)) = o
  OBVIOUS
<1>3. s \o <<>> = s
  OBVIOUS
<1>4. s \o o \in Seq(S)
  OBVIOUS
<1> QED
  BY <1>1, <1>2, <1>3, <1>4

\* The types of journals.
LEMMA JournalType ==
  ASSUME NEW d \in Disks, NEW m \in Mems
  PROVE  /\ Journal(d) # NoFile => Journal(d) \in Journals /\ Journal(d).lines \in Seq(Lines)
         /\ Out(m) \in Seq(Lines)
         /\ d.journal # NoFile => Journal(d) = d.journal
<1>1. Out(m) \in Seq(Lines)
  <2>1. m.out \in Seq(Lines) /\ <<>> \in Seq(Lines)
    BY DEF Mems
  <2> QED
    BY <2>1 DEF Out
<1> QED
  BY <1>1 DEF Journal, Disks, Journals

\* All of it is one of them.
LEMMA TextsType ==
  ASSUME NEW d \in Disks, NEW m \in Mems
  PROVE  Texts(d, m) \subseteq Seq(Lines) /\ Full(d, m) \in Texts(d, m)
<1>1. CASE Journal(d) = NoFile
  BY <1>1 DEF Texts, Full
<1>2. CASE Journal(d) # NoFile
  <2> DEFINE s == Journal(d).lines  o == Out(m)
  <2>1. s \in Seq(Lines) /\ o \in Seq(Lines)
    BY <1>2, JournalType
  <2>2. Texts(d, m) = {s \o SubSeq(o, 1, n) : n \in 0..Len(o)} /\ Full(d, m) = s \o o
    BY <1>2 DEF Texts, Full
  <2> HIDE DEF s, o
  <2>3. \A n \in 0..Len(o) : s \o SubSeq(o, 1, n) \in Seq(Lines)
    <3> SUFFICES ASSUME NEW n \in 0..Len(o) PROVE s \o SubSeq(o, 1, n) \in Seq(Lines)
      OBVIOUS
    <3>1. SubSeq(o, 1, n) \in Seq(Lines)
      BY <2>1, PartIs
    <3> QED
      BY <2>1, <3>1
  <2>4. Len(o) \in 0..Len(o) /\ s \o SubSeq(o, 1, Len(o)) = s \o o
    BY <2>1, PartsEnd
  <2> QED
    BY <2>2, <2>3, <2>4
<1> QED
  BY <1>1, <1>2

\* What is held back may be lost.
LEMMA TextsDry ==
  ASSUME NEW d \in Disks, NEW m \in Mems, NEW e, NEW n, Journal(e) = Journal(d), Out(n) = <<>>
  PROVE  /\ Texts(e, n) \subseteq Texts(d, m)
         /\ Texts(e, n) = {Full(e, n)}
         /\ Full(e, n) = IF Journal(d) = NoFile THEN <<>> ELSE Journal(d).lines
<1>1. CASE Journal(d) = NoFile
  BY <1>1 DEF Texts, Full
<1>2. CASE Journal(d) # NoFile
  <2> DEFINE s == Journal(d).lines  o == Out(m)
  <2>1. s \in Seq(Lines) /\ o \in Seq(Lines) /\ <<>> \in Seq(Lines)
    BY <1>2, JournalType
  <2>2. Texts(d, m) = {s \o SubSeq(o, 1, i) : i \in 0..Len(o)}
    BY <1>2 DEF Texts
  <2>3. Texts(e, n) = {s \o SubSeq(<<>>, 1, i) : i \in 0..0} /\ Full(e, n) = s \o <<>>
    BY <1>2 DEF Texts, Full
  <2> HIDE DEF s, o
  <2>4. s \o SubSeq(o, 1, 0) = s /\ 0 \in 0..Len(o) /\ s \o SubSeq(<<>>, 1, 0) = s /\ s \o <<>> = s
    BY <2>1, PartsEnd
  <2>5. s \in Texts(d, m)
    BY <2>2, <2>4
  <2>6. Texts(e, n) = {s}
    BY <2>3, <2>4
  <2> QED
    BY <1>2, <2>3, <2>4, <2>5, <2>6 DEF s
<1> QED
  BY <1>1, <1>2

\* As much as c lines of what is held back is written.
Wrote(d, m, e, n, c) ==
    /\ Texts(e, n) \subseteq Texts(d, m)
    /\ Texts(e, n) = {Full(e, n)}
    /\ c = Len(m.out) => Full(e, n) = Full(d, m)

\* It may be read now, as before.
LEMMA TextsWritten ==
  ASSUME NEW d \in Disks, NEW m \in Mems, NEW e, NEW n, Out(n) = <<>>,
         m.writer = "open", d.journal # NoFile, NEW c \in 0..Len(m.out),
         e.journal # NoFile, e.journal.lines = d.journal.lines \o SubSeq(m.out, 1, c)
  PROVE  Wrote(d, m, e, n, c)
<1> DEFINE s == Journal(d).lines  o == Out(m)  t == s \o SubSeq(o, 1, c)
<1>1. s \in Seq(Lines) /\ o \in Seq(Lines) /\ <<>> \in Seq(Lines) /\ Journal(d) # NoFile /\ Journal(d) = d.journal
  BY JournalType
<1>2. Texts(d, m) = {s \o SubSeq(o, 1, i) : i \in 0..Len(o)} /\ Full(d, m) = s \o o /\ o = m.out
  BY <1>1 DEF Texts, Full, Out
<1>3. Journal(e) # NoFile /\ Journal(e).lines = t
  BY <1>1, <1>2 DEF Journal
<1>4. Texts(e, n) = {t \o SubSeq(<<>>, 1, i) : i \in 0..0} /\ Full(e, n) = t \o <<>>
  BY <1>3 DEF Texts, Full
<1>5. t \in Texts(d, m)
  BY <1>2
<1>6. t \in Seq(Lines)
  BY <1>5, TextsType
<1> HIDE DEF s, o
<1>7. c = Len(o) => t = s \o o
  BY <1>1, PartsEnd
<1> HIDE DEF t
<1>8. t \o SubSeq(<<>>, 1, 0) = t /\ t \o <<>> = t
  BY <1>1, <1>6, PartsEnd
<1>9. Texts(e, n) = {t} /\ Full(e, n) = t
  BY <1>4, <1>8
<1> QED
  BY <1>2, <1>5, <1>7, <1>9 DEF Wrote

\* All of what is held back is written.
LEMMA TextsAll ==
  ASSUME NEW d \in Disks, NEW m \in Mems, NEW e, NEW n, Out(n) = <<>>,
         m.writer = "open", d.journal # NoFile, e.journal # NoFile,
         e.journal.lines = d.journal.lines \o m.out
  PROVE  Texts(e, n) \subseteq Texts(d, m) /\ Texts(e, n) = {Full(d, m)}
<1> DEFINE c == Len(m.out)
<1>1. m.out \in Seq(Lines)
  BY DEF Mems
<1>2. c \in 0..Len(m.out) /\ m.out = SubSeq(m.out, 1, c) /\ c = Len(m.out)
  BY <1>1
<1>3. e.journal.lines = d.journal.lines \o SubSeq(m.out, 1, c)
  BY <1>2
<1> HIDE DEF c
<1>4. Wrote(d, m, e, n, c)
  BY <1>2, <1>3, TextsWritten
<1> QED
  BY <1>2, <1>4 DEF Wrote

\* A line more is held back.
LEMMA TextsMore ==
  ASSUME NEW d \in Disks, NEW m \in Mems, NEW n, NEW l \in Lines, d.journal # NoFile,
         m.writer = "open", n.writer = "open", n.out = Append(m.out, l), NEW e, e.journal = d.journal
  PROVE  /\ Texts(e, n) = Texts(d, m) \cup {Append(Full(d, m), l)}
         /\ Full(e, n) = Append(Full(d, m), l)
<1> DEFINE s == Journal(d).lines  o == Out(m)  p == Append(o, l)
<1>1. s \in Seq(Lines) /\ o \in Seq(Lines) /\ Journal(d) # NoFile /\ Journal(d) = d.journal
  BY JournalType
<1>2. Texts(d, m) = {s \o SubSeq(o, 1, i) : i \in 0..Len(o)} /\ Full(d, m) = s \o o
  BY <1>1 DEF Texts, Full
<1>3. Texts(e, n) = {s \o SubSeq(p, 1, i) : i \in 0..Len(p)} /\ Full(e, n) = s \o p
  BY <1>1 DEF Texts, Full, Out, Journal
<1> HIDE DEF s, o
<1>4. Len(p) = Len(o) + 1 /\ Len(o) \in Nat /\ p \in Seq(Lines)
  BY <1>1
<1>5. \A i \in 0..Len(o) : SubSeq(p, 1, i) = SubSeq(o, 1, i)
  BY <1>1
<1>6. SubSeq(p, 1, Len(p)) = p
  BY <1>4
<1>7. s \o p = Append(s \o o, l)
  BY <1>1
<1>8. 0..Len(p) = 0..Len(o) \cup {Len(p)}
  BY <1>4
<1> HIDE DEF p
<1>9. Texts(e, n) = {s \o SubSeq(p, 1, i) : i \in 0..Len(o)} \cup {s \o p}
  BY <1>3, <1>6, <1>8
<1>10. {s \o SubSeq(p, 1, i) : i \in 0..Len(o)} = Texts(d, m)
  BY <1>2, <1>5
<1> QED
  BY <1>2, <1>3, <1>7, <1>9, <1>10

-----------------------------------------------------------------------------
(***************************************************************************)
(* No value file without its entry.                                        *)
(***************************************************************************)
\* Entries e account for the files: those of published values with their
\* lengths, the others with an edit.
NoValue(d, k, i) == d.clean[k][i] = NoFile /\ d.dirty[k][i] = NoFile
BackedAt(e, d, k, i) ==
    /\ d.clean[k][i] # NoFile =>
         /\ e[k] # NoEntry
         /\ e[k].editor = NoEditor => e[k].readable /\ e[k].len[i] = d.clean[k][i].len
    /\ d.dirty[k][i] # NoFile => Marked(e, k)
Backed(e, d) == \A k \in Keys, i \in Idx : BackedAt(e, d, k, i)
NoValues(d) == \A k \in Keys, i \in Idx : NoValue(d, k, i)

\* The values that the next step, one per value, has behind it.
Behind(t, i) == Head(t).do \in IdxOps => i < Head(t).idx

\* The edits that must be marked in the journal, whatever becomes of the
\* process: the files of an edit are written, and published, while it is marked.
Claimed(m, t) ==
    {k \in Keys : EditingIn(m, k) /\ m.ent[k].editor.held}
      \cup {k \in Keys : At(t, {"give"}) /\ Head(t).key = k}
      \cup {k \in Keys : Publishes(t, k)}
Claims(d, m, t) ==
    /\ \A k \in Claimed(m, t), s \in Texts(d, m) : Marked(Journaled(s), k)
    /\ At(t, {"flush"}) /\ Final(t) = "give" /\ m.writer = "open" =>
         Marked(Journaled(Full(d, m)), t[Len(t)].key)

\* The files are those of the entries of a cache that is open.
Matched(d, m, t) ==
    \A k \in Keys, i \in Idx :
      /\ d.clean[k][i] # NoFile =>
           /\ m.ent[k] # NoEntry /\ m.ent[k].len[i] = d.clean[k][i].len
           /\ m.ent[k].readable \/ Publishes(t, k)
      /\ d.dirty[k][i] # NoFile => EditingIn(m, k)
Worked(d, t) ==
    \A i \in Idx :
      /\ At(t, {"publish", "discard", "complete"}) /\ Behind(t, i) => d.dirty[Head(t).key][i] = NoFile
      /\ At(t, {"deleteClean", "removed"}) /\ Behind(t, i) => d.clean[Head(t).key][i] = NoFile

\* While a journal is processed.
Gathered(d, m, t) ==
    \A k \in Keys, i \in Idx :
      IF At(t, {"unlink", "dropEntry"}) /\ Head(t).key = k
      THEN Behind(t, i) => NoValue(d, k, i)
      ELSE BackedAt(m.ent, d, k, i)

\* Before a directory gets a new journal there are no values.
Emptied(d, t) ==
    /\ Final(t) = "fresh" => At(t, {"wipe", "fresh"})
    /\ Final(t) \in {"fresh", "created"} => At(t, {"wipe"}) \/ NoValues(d)

\* The journal that is about to take the place of the old one.
Rewritten(d, m, t, ph) ==
    At(t, {"backup", "install"}) =>
      /\ Backed(Journaled(d.tmp.lines), d)
      /\ ph = "up" => \A k \in Claimed(m, t) : Marked(Journaled(d.tmp.lines), k)

Leak(d, m, t, ph) ==
    /\ \A s \in Texts(d, m) : Backed(Journaled(s), d)
    /\ ph = "opening" => Emptied(d, t) /\ (Final(t) = "opened" => Gathered(d, m, t))
    /\ ph = "up" => Matched(d, m, t) /\ Worked(d, t) /\ (~At(t, {"down"}) => Claims(d, m, t))
    /\ Rewritten(d, m, t, ph)
    /\ At(t, {"load"}) => d.backup = NoFile
LeakInv == ~leaky => Leak(disk, mem, todo, phase)

\* What matters of a memory here.
Alike(m, n) ==
    \A k \in Keys :
      /\ n.ent[k] = NoEntry <=> m.ent[k] = NoEntry
      /\ m.ent[k] # NoEntry =>
           /\ n.ent[k].len = m.ent[k].len /\ n.ent[k].readable = m.ent[k].readable
           /\ n.ent[k].editor = NoEditor <=> m.ent[k].editor = NoEditor
      /\ EditingIn(n, k) /\ n.ent[k].editor.held => EditingIn(m, k) /\ m.ent[k].editor.held
SameValues(d, e) == e.clean = d.clean /\ e.dirty = d.dirty

\* A step that touches no value, and the one after it.
PlainHeads ==
    {"useBackup", "process", "collect", "opened", "created", "closeWriter", "writeTmp", "reopen",
     "submit", "trim", "rebuildIf", "zero", "abort", "closed", "erase", "down"}
Plainly(u, qh) ==
    u # <<>> =>
      \/ Head(u).do \in PlainHeads
      \/ Head(u).do \in {"discard", "deleteClean"} /\ Head(u).idx = 0
      \/ Head(u).do = "flush" /\ Final(u) # "give"
      \/ Head(u).do = "wipe" /\ qh # "opening"
Lightly(t, ph, u, qh) ==
    /\ qh \in {ph, "down"} /\ Plainly(u, qh)
    /\ qh = "opening" => /\ ~At(t, {"unlink", "dropEntry", "wipe", "fresh"})
                         /\ u # <<>> /\ Final(u) = Final(t)
    /\ qh = "up" => ~At(t, {"publish", "complete", "down"})

\* A step after which the values are as before, what may be read is no more than
\* before, and what is left of the call asks no more, keeps Leak.
LEMMA LeakPlain ==
  ASSUME NEW d, NEW m, NEW t, NEW ph, Leak(d, m, t, ph),
         NEW e, NEW n, NEW u, NEW qh, SameValues(d, e), Alike(m, n), Texts(e, n) \subseteq Texts(d, m),
         Lightly(t, ph, u, qh)
  PROVE  Leak(e, n, u, qh)
<1> USE DEF At
<1>1. \A s \in Texts(e, n) : Backed(Journaled(s), e)
  BY DEF Leak, Backed, BackedAt, SameValues
<1>2. ASSUME qh = "opening" PROVE Emptied(e, u) /\ (Final(u) = "opened" => Gathered(e, n, u))
  <2>1. ph = "opening" /\ Emptied(d, t) /\ (Final(t) = "opened" => Gathered(d, m, t))
    BY <1>2 DEF Lightly, Leak
  <2>2. Emptied(e, u)
    BY <1>2, <2>1 DEF Lightly, Emptied, NoValues, NoValue, SameValues
  <2>3. Final(u) = "opened" => Gathered(e, n, u)
    <3> SUFFICES ASSUME Final(u) = "opened", NEW k \in Keys, NEW i \in Idx PROVE BackedAt(n.ent, e, k, i) /\ ~At(u, {"unlink", "dropEntry"})
      BY DEF Gathered
    <3>1. BackedAt(m.ent, d, k, i)
      BY <1>2, <2>1 DEF Gathered, Lightly
    <3>2. BackedAt(n.ent, e, k, i)
      BY <3>1 DEF BackedAt, SameValues, Alike, Marked
    <3>3. ~At(u, {"unlink", "dropEntry"})
      BY DEF Lightly, Plainly, PlainHeads
    <3> QED
      BY <3>2, <3>3
  <2> QED
    BY <2>2, <2>3
<1>p. /\ ~At(u, {"publish", "complete", "give", "backup", "install", "load", "removed"})
      /\ \A i \in Idx : At(u, {"discard", "deleteClean"}) => ~Behind(u, i)
  <2>1. ~At(u, {"publish", "complete", "give", "backup", "install", "load", "removed"})
    BY DEF Lightly, Plainly, PlainHeads
  <2>2. \A i \in Idx : ~(i < 0)
    BY IdxFacts
  <2>3. \A i \in Idx : At(u, {"discard", "deleteClean"}) => ~Behind(u, i)
    BY <2>2 DEF Lightly, Plainly, PlainHeads, Behind, IdxOps
  <2> QED
    BY <2>1, <2>3
<1>q. \A k : ~Publishes(u, k)
  BY <1>p DEF Publishes
<1>3. ASSUME qh = "up" PROVE Matched(e, n, u) /\ Worked(e, u) /\ (~At(u, {"down"}) => Claims(e, n, u))
  <2>1. ph = "up" /\ Matched(d, m, t) /\ Claims(d, m, t) /\ \A k : ~Publishes(t, k)
    BY <1>3 DEF Lightly, Leak, Publishes
  <2>2. Matched(e, n, u)
    BY <1>q, <2>1 DEF Matched, SameValues, Alike, EditingIn
  <2>3. Worked(e, u)
    BY <1>p DEF Worked
  <2>4. Claims(e, n, u)
    <3>1. Claimed(n, u) \subseteq Claimed(m, t)
      BY <1>p, <1>q DEF Claimed, Alike
    <3>2. ~(At(u, {"flush"}) /\ Final(u) = "give")
      BY DEF Lightly, Plainly, PlainHeads
    <3> QED
      BY <2>1, <3>1, <3>2 DEF Claims
  <2> QED
    BY <2>2, <2>3, <2>4
<1>4. Rewritten(e, n, u, qh) /\ ~At(u, {"load"})
  BY <1>p DEF Rewritten
<1> QED
  BY <1>1, <1>2, <1>3, <1>4 DEF Leak

\* A memory with the same entries is alike.
LEMMA AlikeSame == ASSUME NEW m, NEW n, n.ent = m.ent PROVE Alike(m, n)
  BY DEF Alike, EditingIn

\* The same of a step of the cache.
LEMMA LeakLightly ==
  ASSUME LeakInv, leaky' = leaky, SameValues(disk, disk'), Alike(mem, mem'),
         Texts(disk', mem') \subseteq Texts(disk, mem), Lightly(todo, phase, todo', phase')
  PROVE  LeakInv'
<1> SUFFICES ASSUME ~leaky PROVE Leak(disk', mem', todo', phase')
  BY DEF LeakInv
<1>1. Leak(disk, mem, todo, phase)
  BY DEF LeakInv
<1> QED
  BY <1>1, LeakPlain

\* An exception before a value is touched keeps it: it leaves the call, or in an
\* opening it has the directory wiped (the history variable leaky remembers that).
LEMMA LeakThrow ==
  ASSUME IInv, LeakInv, Throw, todo # <<>>, SameValues(disk, disk'), Alike(mem, mem'),
         Texts(disk', mem') \subseteq Texts(disk, mem),
         ~At(todo, {"publish", "complete", "down"})
  PROVE  LeakInv'
<1> DEFINE caught == phase = "opening" /\ \E n \in DOMAIN todo : todo[n].do = "opened"
<1>1. /\ todo' = IF caught
                 THEN (IF mem.writer = "none" THEN <<>> ELSE CloseProgram) \o Do("wipe") \o Do("fresh")
                 ELSE <<>>
      /\ leaky' = (leaky \/ caught)
      /\ phase' = IF ~caught /\ (phase = "opening" \/ mem.writer = "none") THEN "down" ELSE phase
  BY DEF Throw
<1> HIDE DEF caught
<1>2. CASE caught
  BY <1>1, <1>2 DEF LeakInv
<1>3. CASE ~caught
  <2>0. phase \in Phases /\ leaky \in BOOLEAN
    BY DEF IInv, TypeInv
  <2>1. todo' = <<>> /\ leaky' = leaky /\ phase' \in {phase, "down"} /\ phase' # "opening"
    BY <1>1, <1>3, <2>0
  <2>2. Lightly(todo, phase, todo', phase')
    BY <2>1 DEF Lightly, Plainly, At
  <2> QED
    BY <2>1, <2>2, LeakLightly
<1> QED
  BY <1>2, <1>3

\* After a step that does no more than go on comes one that touches no value.
LightOps == {"process", "closeWriter", "reopen", "submit", "rebuildIf", "zero", "abort", "closed",
             "erase", "trim", "collect", "removed"}

\* So the rest of the call asks no more than the step that goes before it did.
LEMMA LightNext ==
  ASSUME IInv, LeakInv, ~leaky, todo # <<>>, Head(todo).do \in LightOps
  PROVE  Lightly(todo, phase, Tail(todo), phase)
<1> DEFINE u == Tail(todo)
<1>1. /\ Popped(todo, u, phase)
      /\ u # <<>> => Follows(Head(todo), Head(u)) /\ Head(u).do \in StepsOf(Final(todo))
      /\ phase = "opening" => u # <<>>
  <2>1. Head(todo).do \notin OpenEnds \cup {"down"}
    BY DEF LightOps, OpenEnds
  <2> QED
    BY <2>1, NextIs
<1>2. HeadFacts(todo) /\ Final(todo) \in OpenEnds \cup UpEnds /\ (phase = "opening" <=> Final(todo) \in OpenEnds)
  BY HeadIs DEF IInv, Core, Control, Running
<1>3. u # <<>> => Final(u) = Final(todo)
  BY <1>1 DEF Popped
<1>4. Head(todo).do = "trim" => Final(todo) # "give"
  BY <1>2 DEF HeadFacts, StepsOf
<1>5. Head(todo).do = "closed" /\ phase = "opening" => FALSE
  <2> SUFFICES ASSUME Head(todo).do = "closed", phase = "opening" PROVE FALSE
    OBVIOUS
  <2>1. Final(todo) = "fresh"
    BY <1>2 DEF HeadFacts, StepsOf, OpenEnds, Rebuild, Drops
  <2>2. At(todo, {"wipe", "fresh"})
    BY <2>1 DEF LeakInv, Leak, Emptied
  <2> QED
    BY <2>2 DEF At
<1>6. Plainly(u, phase)
  <2> SUFFICES ASSUME u # <<>> PROVE Plainly(u, phase)
    BY DEF Plainly
  <2>1. Follows(Head(todo), Head(u))
    BY <1>1
  <2>2. Head(u).do \in PlainHeads \/ Head(todo).do \in {"trim", "closed"}
    BY <2>1 DEF Follows, LightOps, PlainHeads
  <2>3. Head(todo).do = "trim" => Head(u).do \in PlainHeads \cup {"flush"} /\ Final(u) # "give"
    BY <1>3, <1>4, <2>1 DEF Follows, PlainHeads
  <2>4. Head(todo).do = "closed" => Head(u).do \in {"wipe", "down"} /\ phase # "opening"
    BY <1>5, <2>1 DEF Follows
  <2> QED
    BY <2>2, <2>3, <2>4 DEF Plainly, PlainHeads
<1>7. ~At(todo, {"unlink", "dropEntry", "wipe", "fresh"}) /\ ~At(todo, {"publish", "complete", "down"})
  BY DEF At, LightOps
<1> HIDE DEF u
<1>8. Lightly(todo, phase, u, phase)
  BY <1>1, <1>3, <1>6, <1>7 DEF Lightly
<1> QED
  BY <1>8 DEF u

\* A step that goes on, and touches neither values nor entries.
LEMMA LeakGoes ==
  ASSUME IInv, LeakInv, todo # <<>>, Head(todo).do \in LightOps, leaky' = leaky, phase' = phase,
         todo' = Tail(todo), SameValues(disk, disk'), Alike(mem, mem'),
         Texts(disk', mem') \subseteq Texts(disk, mem)
  PROVE  LeakInv'
<1>1. CASE leaky
  BY <1>1 DEF LeakInv
<1>2. CASE ~leaky
  BY <1>2, LightNext, LeakLightly
<1> QED
  BY <1>1, <1>2 DEF IInv, TypeInv

\* The journal and the writer's lines are all that a next open may read.
LEMMA TextsSame ==
  ASSUME NEW d, NEW m, NEW e, NEW n, Journal(e) = Journal(d), Out(n) = Out(m)
  PROVE  Texts(e, n) \subseteq Texts(d, m)
  BY DEF Texts

\* SubmitStep keeps it: it queues the cleanup.
LEMMA SubmitLeak == ASSUME IInv, LeakInv, SubmitStep PROVE LeakInv'
<1>1. Step("submit") /\ disk' = disk /\ mem' = mem /\ phase' = phase /\ leaky' = leaky /\ todo # <<>>
  BY DEF SubmitStep, Step
<1>2. todo' = Tail(todo)
  BY <1>1, Continues DEF SubmitStep
<1> QED
  BY <1>1, <1>2, LeakGoes, AlikeSame, TextsSame DEF Step, LightOps, SameValues

\* Erase keeps it: it makes room for the value that the call writes next.
LEMMA EraseLeak == ASSUME IInv, LeakInv, Erase PROVE LeakInv'
<1>1. Step("erase") /\ disk' = disk /\ mem' = mem /\ phase' = phase /\ leaky' = leaky /\ todo # <<>>
  BY DEF Erase, Step
<1>2. todo' = Tail(todo)
  BY <1>1, Continues DEF Erase
<1> QED
  BY <1>1, <1>2, LeakGoes, AlikeSame, TextsSame DEF Step, LightOps, SameValues

\* Zero keeps it: it counts the redundant lines from nought.
LEMMA ZeroLeak == ASSUME IInv, LeakInv, Zero PROVE LeakInv'
<1>1. Step("zero") /\ disk' = disk /\ mem' = [mem EXCEPT !.redundant = 0] /\ phase' = phase /\ leaky' = leaky /\ todo # <<>>
  BY DEF Zero, Step, Quiet
<1>2. todo' = Tail(todo)
  BY <1>1, Continues DEF Zero
<1>3. mem'.ent = mem.ent /\ Out(mem') = Out(mem)
  BY <1>1 DEF IInv, TypeInv, Mems, Out
<1> QED
  BY <1>1, <1>2, <1>3, LeakGoes, AlikeSame, TextsSame DEF Step, LightOps, SameValues

\* Closed keeps it: it leaves the writer out.
LEMMA ClosedLeak == ASSUME IInv, LeakInv, Closed PROVE LeakInv'
<1>1. Step("closed") /\ disk' = disk /\ mem' = [mem EXCEPT !.writer = "none"] /\ phase' = phase /\ leaky' = leaky /\ todo # <<>>
  BY DEF Closed, Step, Quiet
<1>2. todo' = Tail(todo)
  BY <1>1, Continues DEF Closed
<1>3. mem'.ent = mem.ent /\ Out(mem') = <<>> /\ disk \in Disks /\ mem \in Mems
  BY <1>1 DEF IInv, TypeInv, Mems, Out
<1>4. Texts(disk', mem') \subseteq Texts(disk, mem)
  BY <1>1, <1>3, TextsDry
<1> QED
  BY <1>1, <1>2, <1>3, <1>4, LeakGoes, AlikeSame DEF Step, LightOps, SameValues

\* A program, maybe none, in front of the rest of a call.
LEMMA FrontIs ==
  ASSUME NEW p \in Seq(StepRec), NEW u \in Seq(StepRec)
  PROVE  LET q == p \o u
         IN  /\ p = <<>> => q = u
             /\ p # <<>> => q # <<>> /\ Head(q) = p[1]
             /\ u # <<>> => q # <<>> /\ Final(q) = Final(u)
             /\ u # <<>> => q[Len(q)] = u[Len(u)]
<1> DEFINE q == p \o u
<1>1. q \in Seq(StepRec) /\ Len(q) = Len(p) + Len(u) /\ Len(p) \in Nat /\ Len(u) \in Nat
  OBVIOUS
<1>2. /\ \A n \in 1..Len(p) : q[n] = p[n]
      /\ \A n \in 1..Len(u) : q[n + Len(p)] = u[n]
  OBVIOUS
<1>3. p = <<>> => q = u
  OBVIOUS
<1>4. (p # <<>> => Len(p) > 0) /\ (u # <<>> => Len(u) > 0)
  OBVIOUS
<1> HIDE DEF q
<1>5. p # <<>> => q # <<>> /\ Head(q) = p[1]
  BY <1>1, <1>2, <1>4
<1>6. u # <<>> => q # <<>> /\ q[Len(q)] = u[Len(u)]
  <2> SUFFICES ASSUME u # <<>> PROVE q # <<>> /\ q[Len(q)] = u[Len(u)]
    OBVIOUS
  <2>1. Len(u) \in 1..Len(u) /\ Len(u) + Len(p) = Len(q) /\ Len(q) > 0
    BY <1>1, <1>4
  <2>2. q[Len(u) + Len(p)] = u[Len(u)]
    BY <1>2, <2>1
  <2> QED
    BY <2>1, <2>2
<1> QED
  BY <1>3, <1>5, <1>6 DEF Final, q

\* Process keeps it: it deletes the temporary journal and has each entry looked at.
LEMMA ProcessLeak == ASSUME IInv, LeakInv, Process PROVE LeakInv'
<1>1. Step("process") /\ mem' = mem /\ todo # <<>> /\ Head(todo).do = "process"
  BY DEF Process, Step
<1>2. CASE disk' = [disk EXCEPT !.tmp = NoFile] /\ Continue(DoKeys("collect", mem.lru)) /\ Done
  <2>1. SameValues(disk, disk') /\ Journal(disk') = Journal(disk) /\ phase' = phase /\ leaky' = leaky
    BY <1>2 DEF IInv, TypeInv, Disks, SameValues, Journal, Done
  <2>2. Texts(disk', mem') \subseteq Texts(disk, mem) /\ Alike(mem, mem')
    BY <1>1, <2>1, TextsSame, AlikeSame
  <2>3. CASE leaky
    BY <2>1, <2>3 DEF LeakInv
  <2>4. CASE ~leaky
    <3>1. Lightly(todo, phase, Tail(todo), phase)
      BY <1>1, <2>4, LightNext DEF LightOps
    <3>2. Lightly(todo, phase, todo', phase')
      <4> DEFINE p == DoKeys("collect", mem.lru)  u == Tail(todo)
      <4>1. todo' = p \o u
        BY <1>2 DEF Continue
      <4>2. mem.lru \in Seq(Keys) /\ u \in Seq(StepRec)
        BY <1>1, Continues DEF IInv, TypeInv, Mems
      <4>3. p \in Seq(StepRec) /\ Len(p) = Len(mem.lru) /\ (mem.lru = <<>> => p = <<>>)
            /\ \A n \in DOMAIN mem.lru : p[n] = [do |-> "collect", key |-> mem.lru[n]]
        <5>1. "collect" \in {"collect"}
          OBVIOUS
        <5> QED
          BY <4>2, <5>1, DoKeysIs
      <4> HIDE DEF p
      <4>4. CASE mem.lru = <<>>
        <5>1. p \o u = u
          BY <4>2, <4>3, <4>4
        <5> QED
          BY <2>1, <3>1, <4>1, <5>1
      <4>5. CASE mem.lru # <<>>
        <5>0. 1 \in DOMAIN mem.lru /\ 1 \in DOMAIN p /\ p # <<>>
          BY <4>2, <4>3, <4>5
        <5> HIDE DEF u
        <5>f. /\ p \o u # <<>> /\ Head(p \o u) = p[1]
              /\ u # <<>> => Final(p \o u) = Final(u)
          BY <4>2, <4>3, <5>0, FrontIs
        <5>1. todo' # <<>> /\ Head(todo') = p[1] /\ p[1] = [do |-> "collect", key |-> mem.lru[1]]
          BY <4>1, <4>3, <5>0, <5>f
        <5>2. phase = "opening" => u # <<>>
          BY <3>1 DEF Lightly, u
        <5>3. u # <<>> => Final(todo') = Final(u)
          BY <4>1, <5>f
        <5>4. Plainly(todo', phase')
          BY <5>1 DEF Plainly, PlainHeads
        <5> QED
          BY <2>1, <3>1, <5>1, <5>2, <5>3, <5>4 DEF Lightly, u
      <4> QED
        BY <4>4, <4>5
    <3> QED
      BY <2>1, <2>2, <3>2, LeakLightly
  <2> QED
    BY <2>3, <2>4 DEF IInv, TypeInv
<1>3. CASE disk.tmp # NoFile /\ Fault("delete") /\ Throw /\ UNCHANGED disk
  BY <1>1, <1>3, LeakThrow, AlikeSame, TextsSame DEF SameValues, At
<1> QED
  BY <1>2, <1>3 DEF Process

\* Steps that go before the rest of a call, or before all of it.
LightStart(p) ==
    p # <<>> =>
      \/ p[1].do \in PlainHeads
      \/ p[1].do \in {"discard", "deleteClean"} /\ p[1].idx = 0

\* The call goes on with them.
LEMMA LightPush ==
  ASSUME IInv, LeakInv, ~leaky, todo # <<>>, Head(todo).do \in LightOps,
         NEW p \in Seq(StepRec), LightStart(p)
  PROVE  Lightly(todo, phase, p \o Tail(todo), phase)
<1> DEFINE u == Tail(todo)  q == p \o u
<1>1. Lightly(todo, phase, u, phase)
  BY LightNext
<1>2. u \in Seq(StepRec)
  BY Continues
<1>3. /\ p = <<>> => q = u
      /\ p # <<>> => q # <<>> /\ Head(q) = p[1]
      /\ u # <<>> => q # <<>> /\ Final(q) = Final(u)
  BY <1>2, FrontIs
<1> HIDE DEF u, q
<1>4. CASE p = <<>>
  BY <1>1, <1>3, <1>4 DEF q, u
<1>5. CASE p # <<>>
  <2>1. Plainly(q, phase)
    BY <1>3, <1>5 DEF Plainly, LightStart
  <2>2. Lightly(todo, phase, q, phase)
    BY <1>1, <1>3, <2>1 DEF Lightly
  <2> QED
    BY <2>2 DEF q, u
<1> QED
  BY <1>4, <1>5

\* The same before a step that is still to be done.
LEMMA LightAgain ==
  ASSUME IInv, LeakInv, ~leaky, todo # <<>>, Head(todo).do \in LightOps \ {"removed"},
         NEW p \in Seq(StepRec), LightStart(p)
  PROVE  Lightly(todo, phase, p \o todo, phase)
<1> DEFINE q == p \o todo
<1>1. Lightly(todo, phase, Tail(todo), phase)
  BY LightNext
<1>2. todo \in Seq(StepRec)
  BY DEF IInv, TypeInv
<1>3. /\ p = <<>> => q = todo
      /\ p # <<>> => q # <<>> /\ Head(q) = p[1]
      /\ q # <<>> /\ Final(q) = Final(todo)
  BY <1>2, FrontIs
<1> HIDE DEF q
<1>4. Plainly(q, phase)
  BY <1>3 DEF Plainly, LightStart, LightOps, PlainHeads
<1>5. Lightly(todo, phase, q, phase)
  BY <1>1, <1>3, <1>4 DEF Lightly
<1> QED
  BY <1>5 DEF q

\* Such a step keeps it.
LEMMA LeakPush ==
  ASSUME IInv, LeakInv, todo # <<>>, Head(todo).do \in LightOps, leaky' = leaky, phase' = phase,
         NEW p \in Seq(StepRec), LightStart(p), todo' = p \o Tail(todo), SameValues(disk, disk'),
         Alike(mem, mem'), Texts(disk', mem') \subseteq Texts(disk, mem)
  PROVE  LeakInv'
<1>1. CASE leaky
  BY <1>1 DEF LeakInv
<1>2. CASE ~leaky
  <2>1. Lightly(todo, phase, todo', phase')
    BY <1>2, LightPush
  <2> QED
    BY <2>1, LeakLightly
<1> QED
  BY <1>1, <1>2 DEF IInv, TypeInv

\* And such a call.
LEMMA LeakCalls ==
  ASSUME IInv, LeakInv, Idle, leaky' = leaky, phase' = phase, SameValues(disk, disk'), Alike(mem, mem'),
         Texts(disk', mem') \subseteq Texts(disk, mem), Plainly(todo', "up")
  PROVE  LeakInv'
<1>1. phase = "up" /\ todo = <<>>
  BY DEF Idle
<1>2. Lightly(todo, phase, todo', phase')
  BY <1>1 DEF Lightly, At
<1> QED
  BY <1>2, LeakLightly

\* CloseWriter keeps it.
LEMMA CloseWriterLeak == ASSUME IInv, LeakInv, CloseWriter PROVE LeakInv'
<1> DEFINE w == IF mem.writer = "none" THEN mem.writer ELSE "broken"
<1>1. /\ Step("closeWriter") /\ todo # <<>> /\ Head(todo).do = "closeWriter"
      /\ mem' = [mem EXCEPT !.out = <<>>, !.writer = w]
  BY DEF CloseWriter, Step
<1>2. mem \in Mems /\ disk \in Disks
  BY DEF IInv, TypeInv
<1>w. w # "open"
  OBVIOUS
<1> HIDE DEF w
<1>3. mem'.ent = mem.ent /\ Out(mem') = <<>>
  BY <1>1, <1>2, <1>w DEF Mems, Out
<1>4. Alike(mem, mem')
  BY <1>3, AlikeSame
<1>5. CASE /\ disk' = IF mem.writer # "open" THEN disk
                      ELSE [disk EXCEPT !.journal.lines = @ \o mem.out]
           /\ Continue(<<>>) /\ Done
  <2>1. todo' = Tail(todo) /\ phase' = phase /\ leaky' = leaky
    BY <1>1, <1>5, Continues DEF Done
  <2>2. SameValues(disk, disk') /\ Texts(disk', mem') \subseteq Texts(disk, mem)
    <3>1. CASE mem.writer # "open"
      <4>1. disk' = disk
        BY <1>5, <3>1
      <4> QED
        BY <1>2, <1>3, <4>1, TextsDry DEF SameValues
    <3>2. CASE mem.writer = "open"
      <4>1. disk' = [disk EXCEPT !.journal.lines = @ \o mem.out]
        BY <1>5, <3>2
      <4>2. disk.journal # NoFile /\ disk.journal \in Journals /\ mem.out \in Seq(Lines)
            /\ disk.journal.lines \in Seq(Lines) /\ phase # "down"
        BY <1>1, <1>2, <3>2, StepIs DEF IInv, Files, Disks, Journals, Mems
      <4>3. disk'.journal # NoFile
        BY <3>2, <4>1, <4>2, AppendedType
      <4>4. disk'.clean = disk.clean /\ disk'.dirty = disk.dirty /\ disk'.journal.lines = disk.journal.lines \o mem.out
        BY <1>2, <4>1, <4>2 DEF Disks, Journals
      <4> QED
        BY <1>2, <1>3, <3>2, <4>2, <4>3, <4>4, TextsAll DEF SameValues
    <3> QED
      BY <3>1, <3>2
  <2> QED
    BY <1>1, <1>4, <2>1, <2>2, LeakGoes DEF LightOps
<1>6. CASE Throw /\ disk' = disk
  <2>1. Texts(disk', mem') \subseteq Texts(disk, mem)
    BY <1>2, <1>3, <1>6, TextsDry
  <2> QED
    BY <1>1, <1>4, <1>6, <2>1, LeakThrow DEF SameValues, At
<1> QED
  BY <1>1, <1>5, <1>6 DEF CloseWriter

\* Reopen keeps it.
LEMMA ReopenLeak == ASSUME IInv, LeakInv, Reopen PROVE LeakInv'
<1>1. /\ Step("reopen") /\ todo # <<>> /\ Head(todo).do = "reopen" /\ phase' = phase /\ leaky' = leaky
      /\ disk' = [disk EXCEPT !.backup = NoFile] /\ mem' = [mem EXCEPT !.writer = "open", !.out = <<>>]
  BY DEF Reopen, Step, Quiet
<1>2. todo' = Tail(todo)
  BY <1>1, Continues DEF Reopen
<1>3. mem \in Mems /\ disk \in Disks /\ disk.journal # NoFile
  BY <1>1 DEF IInv, TypeInv, Files, At
<1>4. mem'.ent = mem.ent /\ Out(mem') = <<>> /\ SameValues(disk, disk') /\ Journal(disk') = Journal(disk)
  BY <1>1, <1>3 DEF Mems, Disks, Out, Journal, SameValues
<1>5. Texts(disk', mem') \subseteq Texts(disk, mem)
  BY <1>3, <1>4, TextsDry
<1> QED
  BY <1>1, <1>2, <1>4, <1>5, LeakGoes, AlikeSame DEF LightOps

\* RebuildIf keeps it.
LEMMA RebuildIfLeak == ASSUME IInv, LeakInv, RebuildIf PROVE LeakInv'
<1> DEFINE p == IF journalRebuildRequired(mem) THEN RebuildProgram \o Do("zero") ELSE <<>>
<1>1. /\ Step("rebuildIf") /\ todo # <<>> /\ Head(todo).do = "rebuildIf" /\ phase' = phase /\ leaky' = leaky
      /\ disk' = disk /\ mem' = mem /\ todo' = p \o Tail(todo)
  BY DEF RebuildIf, Step, Quiet, Continue
<1>2. p \in Seq(StepRec) /\ LightStart(p)
  <2> DEFINE c == RebuildProgram \o Do("zero")
  <2>1. Whole(c, "up") /\ c[1] = [do |-> "closeWriter"]
    BY ZeroProgramIs
  <2>2. p = c \/ p = <<>>
    OBVIOUS
  <2> HIDE DEF c, p
  <2>b. c \in Seq(StepRec)
    BY <2>1, Begins
  <2>3. c \in Seq(StepRec) /\ LightStart(c)
    <3>1. c[1].do \in PlainHeads
      BY <2>1 DEF PlainHeads
    <3> QED
      BY <2>b, <3>1 DEF LightStart
  <2>4. <<>> \in Seq(StepRec) /\ LightStart(<<>>)
    BY DEF LightStart
  <2> QED
    BY <2>2, <2>3, <2>4
<1> HIDE DEF p
<1> QED
  BY <1>1, <1>2, LeakPush, AlikeSame, TextsSame DEF LightOps, SameValues

\* AbortEdit keeps it.
LEMMA AbortLeak == ASSUME IInv, LeakInv, AbortEdit PROVE LeakInv'
<1> DEFINE k == Head(todo).key  p == IF Editing(k) THEN CompleteProgram(k, FALSE) ELSE <<>>
<1>1. /\ Step("abort") /\ todo # <<>> /\ Head(todo).do = "abort" /\ phase' = phase /\ leaky' = leaky
      /\ disk' = disk /\ mem' = mem /\ todo' = p \o Tail(todo)
  BY DEF AbortEdit, Step, Quiet, Continue
<1>k. k \in Keys
  BY <1>1, StepIs DEF HeadFacts, StepRec, PlainOps, KeyOps, IdxOps
<1> HIDE DEF k
<1>2. p \in Seq(StepRec) /\ LightStart(p)
  <2> DEFINE c == CompleteProgram(k, FALSE)
  <2>1. Prog(c, Aborts) /\ c[1] = [do |-> "discard", key |-> k, idx |-> 0]
    BY <1>k, CompleteProgramIs
  <2>2. p = c \/ p = <<>>
    OBVIOUS
  <2> HIDE DEF c, p
  <2>3. c \in Seq(StepRec) /\ LightStart(c)
    BY <2>1 DEF Prog, LightStart
  <2>4. <<>> \in Seq(StepRec) /\ LightStart(<<>>)
    BY DEF LightStart
  <2> QED
    BY <2>2, <2>3, <2>4
<1> HIDE DEF p
<1> QED
  BY <1>1, <1>2, LeakPush, AlikeSame, TextsSame DEF LightOps, SameValues

\* What remove begins with.
LEMMA RemoveStarts ==
  ASSUME mem \in Mems, NEW k \in Keys, RemoveBegin(k)
  PROVE  /\ mem'.ent = mem.ent /\ Out(mem') = Out(mem)
         /\ \E p \in Seq(StepRec) : todo' = p \o todo /\ LightStart(p)
<1> DEFINE c == RemoveProgram(k)
<1>1. mem'.ent = mem.ent /\ Out(mem') = Out(mem)
  BY DEF RemoveBegin, Mems, Out
<1>2. Prog(c, {"deleteClean", "removed"}) /\ c[1] = [do |-> "deleteClean", key |-> k, idx |-> 0]
  BY RemoveProgramIs
<1>3. <<>> \in Seq(StepRec) /\ LightStart(<<>>)
  BY DEF LightStart
<1>4. todo' = c \o todo \/ todo' = <<>> \o todo
  BY DEF RemoveBegin
<1> HIDE DEF c
<1>5. c \in Seq(StepRec) /\ LightStart(c)
  BY <1>2 DEF Prog, LightStart
<1> QED
  BY <1>1, <1>3, <1>4, <1>5

\* Trim keeps it.
LEMMA TrimLeak == ASSUME IInv, LeakInv, Trim PROVE LeakInv'
<1>1. /\ Step("trim") /\ todo # <<>> /\ Head(todo).do = "trim" /\ disk' = disk /\ mem \in Mems
  BY DEF Trim, Step, IInv, TypeInv
<1>2. CASE Continue(<<>>) /\ Done /\ mem' = mem
  <2>1. todo' = Tail(todo) /\ phase' = phase /\ leaky' = leaky
    BY <1>1, <1>2, Continues DEF Done
  <2> QED
    BY <1>1, <1>2, <2>1, LeakGoes, AlikeSame, TextsSame DEF LightOps, SameValues
<1>3. CASE Throw /\ mem' = mem
  BY <1>1, <1>3, LeakThrow, AlikeSame, TextsSame DEF SameValues, At
<1>4. CASE mem.lru # <<>> /\ RemoveBegin(Head(mem.lru)) /\ Done
  <2>1. Head(mem.lru) \in Keys
    BY <1>1, <1>4 DEF Mems
  <2>2. PICK p \in Seq(StepRec) : todo' = p \o todo /\ LightStart(p)
    BY <1>1, <1>4, <2>1, RemoveStarts
  <2>3. mem'.ent = mem.ent /\ Out(mem') = Out(mem) /\ phase' = phase /\ leaky' = leaky
    BY <1>1, <1>4, <2>1, RemoveStarts DEF Done
  <2>4. Texts(disk', mem') \subseteq Texts(disk, mem) /\ Alike(mem, mem') /\ SameValues(disk, disk')
    BY <1>1, <2>3, TextsSame, AlikeSame DEF SameValues
  <2>5. CASE leaky
    BY <2>3, <2>5 DEF LeakInv
  <2>6. CASE ~leaky
    <3>1. Lightly(todo, phase, todo', phase')
      BY <1>1, <2>2, <2>3, <2>6, LightAgain DEF LightOps
    <3> QED
      BY <2>3, <2>4, <3>1, LeakLightly
  <2> QED
    BY <2>5, <2>6 DEF IInv, TypeInv
<1> QED
  BY <1>1, <1>2, <1>3, <1>4 DEF Trim

\* Down keeps it.
LEMMA DownLeak == ASSUME IInv, LeakInv, Down PROVE LeakInv'
<1>1. /\ Step("down") /\ todo # <<>> /\ Head(todo).do = "down" /\ disk' = disk /\ mem' = mem
      /\ phase' = "down" /\ leaky' = leaky
  BY DEF Down, Step
<1>2. todo' = Tail(todo) /\ Tail(todo) = <<>>
  BY <1>1, Continues, LastStep DEF Down
<1>3. Lightly(todo, phase, todo', phase')
  BY <1>1, <1>2 DEF Lightly, Plainly
<1> QED
  BY <1>1, <1>3, LeakLightly, AlikeSame, TextsSame DEF SameValues

\* A removal of a call keeps it.
LEMMA RemovalLeak ==
  ASSUME IInv, LeakInv, Idle, NEW k \in Keys, RemoveBegin(k), disk' = disk, phase' = phase, leaky' = leaky
  PROVE  LeakInv'
<1>1. mem \in Mems /\ todo = <<>>
  BY DEF IInv, TypeInv, Idle
<1>2. PICK p \in Seq(StepRec) : todo' = p \o todo /\ LightStart(p)
  BY <1>1, RemoveStarts
<1>3. mem'.ent = mem.ent /\ Out(mem') = Out(mem)
  BY <1>1, RemoveStarts
<1>4. todo' = p
  BY <1>1, <1>2
<1>5. Plainly(p, "up")
  <2> SUFFICES ASSUME p # <<>> PROVE Plainly(p, "up")
    BY DEF Plainly
  <2>1. Head(p) = p[1]
    OBVIOUS
  <2> QED
    BY <1>2, <2>1 DEF Plainly, LightStart
<1>6. Texts(disk', mem') \subseteq Texts(disk, mem) /\ Alike(mem, mem') /\ SameValues(disk, disk')
  BY <1>3, TextsSame, AlikeSame DEF SameValues
<1> QED
  BY <1>4, <1>5, <1>6, LeakCalls

\* remove keeps it.
LEMMA removeLeak == ASSUME IInv, LeakInv, NEW k \in Keys, remove(k) PROVE LeakInv'
<1>1. Idle /\ RemoveBegin(k) /\ disk' = disk /\ phase' = phase /\ leaky' = leaky
  BY DEF remove, Calling
<1> QED
  BY <1>1, RemovalLeak

\* RemoveStale keeps it.
LEMMA RemoveStaleLeak == ASSUME IInv, LeakInv, NEW k \in Keys, RemoveStale(k) PROVE LeakInv'
<1>1. Idle /\ RemoveBegin(k) /\ disk' = disk /\ phase' = phase /\ leaky' = leaky
  BY DEF RemoveStale, Calling
<1> QED
  BY <1>1, RemovalLeak

\* setMaxSize keeps it.
LEMMA setMaxSizeLeak == ASSUME IInv, LeakInv, NEW m \in Limits, setMaxSize(m) PROVE LeakInv'
<1>1. /\ Idle /\ todo = <<>> /\ todo' = todo /\ disk' = disk /\ phase' = phase /\ leaky' = leaky
      /\ mem' = [mem EXCEPT !.maxSize = m] /\ mem \in Mems
  BY DEF setMaxSize, Calling, Idle, IInv, TypeInv
<1>2. mem'.ent = mem.ent /\ Out(mem') = Out(mem)
  BY <1>1 DEF Mems, Out
<1>3. Texts(disk', mem') \subseteq Texts(disk, mem) /\ Alike(mem, mem') /\ SameValues(disk, disk')
  BY <1>1, <1>2, TextsSame, AlikeSame DEF SameValues
<1>4. Plainly(todo', "up")
  BY <1>1 DEF Plainly
<1> QED
  BY <1>1, <1>3, <1>4, LeakCalls

\* A call that only begins a program keeps it.
LEMMA ProgramLeak ==
  ASSUME IInv, LeakInv, NEW p, Program(p), p # <<>> /\ Head(p).do \in {"trim", "abort"}
  PROVE  LeakInv'
<1>1. Idle /\ todo' = p /\ disk' = disk /\ mem' = mem /\ phase' = phase /\ leaky' = leaky
  BY DEF Program, Calling
<1>2. Plainly(p, "up")
  BY DEF Plainly, PlainHeads
<1>3. Texts(disk', mem') \subseteq Texts(disk, mem) /\ Alike(mem, mem') /\ SameValues(disk, disk')
  BY <1>1, TextsSame, AlikeSame DEF SameValues
<1> QED
  BY <1>1, <1>2, <1>3, LeakCalls

\* flush keeps it.
LEMMA flushLeak == ASSUME IInv, LeakInv, flush PROVE LeakInv'
<1> DEFINE p == Do("trim") \o Do("flush")
<1>1. Whole(p, "up") /\ p[1] = [do |-> "trim"]
  BY TwoSteps DEF PlainOps, UpEnds, StepsOf, Follows, Removes
<1>2. Program(p)
  BY DEF flush
<1> HIDE DEF p
<1>3. p # <<>> /\ Head(p).do = "trim"
  BY <1>1, Begins
<1> QED
  BY <1>2, <1>3, ProgramLeak

\* cleanup keeps it.
LEMMA cleanupLeak == ASSUME IInv, LeakInv, cleanup PROVE LeakInv'
<1> DEFINE p == Do("trim") \o Do("rebuildIf")
<1>1. Whole(p, "up") /\ p[1] = [do |-> "trim"]
  BY TwoSteps DEF PlainOps, UpEnds, StepsOf, Follows, Removes
<1>2. Program(p)
  BY DEF cleanup
<1> HIDE DEF p
<1>3. p # <<>> /\ Head(p).do = "trim"
  BY <1>1, Begins
<1> QED
  BY <1>2, <1>3, ProgramLeak

\* close keeps it.
LEMMA closeLeak == ASSUME IInv, LeakInv, close PROVE LeakInv'
<1> DEFINE p == CloseProgram \o Do("down")
<1>1. Prog(p, StepsOf("down")) /\ Final(p) = "down" /\ p[1].do \in {"abort", "trim"}
  <2>1. mem \in Mems
    BY DEF IInv, TypeInv
  <2>2. Closes \cup {"down"} \subseteq StepsOf("down")
    BY DEF StepsOf
  <2> QED
    BY <2>1, <2>2, CloseAndThen
<1>2. Program(p)
  BY DEF close
<1> HIDE DEF p
<1>3. Whole(p, "up")
  BY <1>1 DEF Whole, UpEnds, OpenEnds
<1>4. p # <<>> /\ Head(p).do \in {"abort", "trim"}
  BY <1>1, <1>3, Begins
<1> QED
  BY <1>2, <1>4, ProgramLeak

\* delete keeps it.
LEMMA deleteLeak == ASSUME IInv, LeakInv, delete PROVE LeakInv'
<1> DEFINE a == CloseProgram \o Do("wipe")  b == Do("down")  p == a \o b
<1>1. Prog(a, Closes \cup {"wipe"}) /\ a[1].do \in {"abort", "trim"}
  <2>1. mem \in Mems
    BY DEF IInv, TypeInv
  <2> DEFINE S == Closes \cup {"wipe"}
  <2>2. Closes \cup {"wipe"} \subseteq S
    OBVIOUS
  <2> HIDE DEF S
  <2>3. Prog(a, S) /\ a[1].do \in {"abort", "trim"}
    BY <2>1, <2>2, CloseAndThen
  <2> QED
    BY <2>3 DEF S
<1>2. b \in Seq(StepRec)
  <2>1. Prog(b, {"down"})
    BY DoIs DEF PlainOps
  <2> QED
    BY <2>1 DEF Prog
<1>3. Program(p)
  BY DEF delete
<1> HIDE DEF a, b
<1>4. p # <<>> /\ Head(p) = a[1]
  BY <1>1, <1>2, FrontIs DEF Prog
<1> QED
  BY <1>1, <1>3, <1>4, ProgramLeak

\* open keeps it: an open that has not read the journal yet.
LEMMA openLeak == ASSUME IInv, LeakInv, NEW v \in Versions, open(v, OpenLimit) PROVE LeakInv'
<1>1. /\ phase' = "opening" /\ mem' = NewCache(v, OpenLimit, edits) /\ leaky' = leaky /\ disk' = disk
      /\ todo' = Do("useBackup") \o Do("load")
  BY DEF open, Calling
<1>2. Out(mem') = <<>>
  BY <1>1 DEF Out, NewCache
<1>3. todo' # <<>> /\ Head(todo').do = "useBackup" /\ Final(todo') = "load"
  <2> DEFINE a == Do("useBackup")  b == Do("load")  S == {"useBackup", "load"}
  <2>1. Prog(a, S) /\ a[1].do = "useBackup" /\ Prog(b, S) /\ Final(b) = "load"
    BY DoIs DEF PlainOps
  <2>2. todo' = a \o b
    BY <1>1
  <2> HIDE DEF a, b
  <2> QED
    BY <2>1, <2>2, FrontIs DEF Prog
<1>4. Texts(disk', mem') \subseteq Texts(disk, mem)
  BY <1>1, <1>2, TextsDry DEF IInv, TypeInv
<1> SUFFICES ASSUME ~leaky PROVE Leak(disk', mem', todo', phase')
  BY <1>1 DEF LeakInv
<1>5. \A s \in Texts(disk', mem') : Backed(Journaled(s), disk')
  BY <1>1, <1>4 DEF LeakInv, Leak
<1>6. Emptied(disk', todo') /\ Rewritten(disk', mem', todo', phase')
  BY <1>3 DEF Emptied, Rewritten, At
<1> QED
  BY <1>1, <1>3, <1>5, <1>6 DEF Leak, At

\* A crash keeps it: any part of what was held back is accounted for.
LEMMA CrashLeak == ASSUME IInv, LeakInv, Crash PROVE LeakInv'
<1>0. disk \in Disks /\ mem \in Mems /\ phase # "down"
  BY DEF IInv, TypeInv, Crash
<1>1. /\ mem' = NewCache(mem.version, mem.maxSize, mem.base) /\ todo' = <<>> /\ phase' = "down" /\ leaky' = leaky
  BY DEF Crash
<1>2. Out(mem') = <<>>
  BY <1>1 DEF Out, NewCache
<1>3. SameValues(disk, disk') /\ Texts(disk', mem') \subseteq Texts(disk, mem)
  <2>1. PICK n \in 0..Len(mem.out), t \in BOOLEAN :
           disk' = IF mem.writer = "open"
                    THEN [disk EXCEPT !.journal.torn = t, !.journal.lines = @ \o SubSeq(mem.out, 1, n)]
                    ELSE disk
    BY DEF Crash
  <2>2. CASE mem.writer # "open"
    BY <1>0, <1>2, <2>1, <2>2, TextsDry DEF SameValues
  <2>3. CASE mem.writer = "open"
    <3>1. disk.journal # NoFile /\ disk.journal \in Journals /\ mem.out \in Seq(Lines)
          /\ disk.journal.lines \in Seq(Lines)
      BY <1>0, <2>3 DEF IInv, Files, Disks, Journals, Mems
    <3> DEFINE l == disk.journal.lines \o SubSeq(mem.out, 1, n)
    <3>2. l \in Seq(Lines)
      <4>1. SubSeq(mem.out, 1, n) \in Seq(Lines)
        BY <3>1, PartIs
      <4> QED
        BY <3>1, <4>1
    <3>3. disk' = [disk EXCEPT !.journal = [disk.journal EXCEPT !.torn = t, !.lines = l]]
      BY <1>0, <2>1, <2>3, <3>1 DEF Disks, Journals
    <3>l. l = disk.journal.lines \o SubSeq(mem.out, 1, n)
      OBVIOUS
    <3> HIDE DEF l
    <3> DEFINE j == [disk.journal EXCEPT !.torn = t, !.lines = l]
    <3>4. j \in Journals /\ j.lines = l
      BY <3>1, <3>2 DEF Journals
    <3>5. j # NoFile
      BY <3>4, NullAssumption
    <3> HIDE DEF j
    <3>6. disk'.journal = j /\ SameValues(disk, disk')
      BY <1>0, <3>3 DEF Disks, SameValues, j
    <3>7. disk'.journal # NoFile /\ disk'.journal.lines = disk.journal.lines \o SubSeq(mem.out, 1, n)
      BY <3>l, <3>4, <3>5, <3>6
    <3> QED
      BY <1>0, <1>2, <2>3, <3>1, <3>6, <3>7, TextsWritten DEF Wrote
  <2> QED
    BY <2>2, <2>3
<1> SUFFICES ASSUME ~leaky PROVE Leak(disk', mem', todo', phase')
  BY <1>1 DEF LeakInv
<1>5. \A s \in Texts(disk', mem') : Backed(Journaled(s), disk')
  BY <1>3 DEF LeakInv, Leak, Backed, BackedAt, SameValues
<1> QED
  BY <1>1, <1>5 DEF Leak, Rewritten, At

-----------------------------------------------------------------------------
\* An editor in place of another of the same entry.
LEMMA PutAlike ==
  ASSUME NEW m \in Mems, NEW k \in Keys, EditingIn(m, k), NEW e \in Editors,
         e.held => m.ent[k].editor.held, NEW n, n = [m EXCEPT !.ent[k].editor = e]
  PROVE  /\ Alike(m, n) /\ Out(n) = Out(m) /\ n.writer = m.writer
         /\ \A x \in Keys : EditingIn(n, x) <=> EditingIn(m, x)
         /\ n.ent[k].editor = e
<1> DEFINE f == [m.ent[k] EXCEPT !.editor = e]
<1>1. m.ent[k] \in Entries /\ m.ent[k] # NoEntry /\ m.ent[k].editor # NoEditor
  BY DEF EditingIn, Mems, Entries
<1>2. /\ f \in Entries /\ f.len = m.ent[k].len /\ f.readable = m.ent[k].readable
      /\ f.editor = e /\ f # NoEntry /\ e # NoEditor
  <2>1. f \in Entries
    BY <1>1 DEF Entries
  <2> QED
    BY <1>1, <2>1, NullAssumption DEF Entries
<1>3. n = [m EXCEPT !.ent = [m.ent EXCEPT ![k] = f]]
  BY <1>1 DEF Mems, Entries
<1> HIDE DEF f
<1>4. n.ent = [m.ent EXCEPT ![k] = f] /\ n.writer = m.writer /\ n.out = m.out
  <2> DEFINE g == [m.ent EXCEPT ![k] = f]
  <2>1. n = [m EXCEPT !.ent = g]
    BY <1>3
  <2> HIDE DEF g
  <2>2. n.ent = g /\ n.writer = m.writer /\ n.out = m.out
    BY <2>1 DEF Mems
  <2> QED
    BY <2>2 DEF g
<1>5. n.ent[k] = f /\ \A x \in Keys : x # k => n.ent[x] = m.ent[x]
  BY <1>4 DEF Mems
<1>6. \A x \in Keys : EditingIn(n, x) <=> EditingIn(m, x)
  <2> SUFFICES ASSUME NEW x \in Keys PROVE EditingIn(n, x) <=> EditingIn(m, x)
    OBVIOUS
  <2>1. CASE x = k
    BY <1>1, <1>2, <1>5, <2>1 DEF EditingIn
  <2>2. CASE x # k
    BY <1>5, <2>2 DEF EditingIn
  <2> QED
    BY <2>1, <2>2
<1>7. Alike(m, n)
  <2> SUFFICES ASSUME NEW x \in Keys
               PROVE  /\ n.ent[x] = NoEntry <=> m.ent[x] = NoEntry
                      /\ m.ent[x] # NoEntry =>
                           /\ n.ent[x].len = m.ent[x].len /\ n.ent[x].readable = m.ent[x].readable
                           /\ n.ent[x].editor = NoEditor <=> m.ent[x].editor = NoEditor
                      /\ EditingIn(n, x) /\ n.ent[x].editor.held => EditingIn(m, x) /\ m.ent[x].editor.held
    BY DEF Alike
  <2>1. CASE x = k
    BY <1>1, <1>2, <1>5, <2>1 DEF EditingIn
  <2>2. CASE x # k
    BY <1>5, <2>2 DEF EditingIn
  <2> QED
    BY <2>1, <2>2
<1> QED
  BY <1>2, <1>4, <1>5, <1>6, <1>7 DEF Out

\* A client lets its editor go.
LEMMA LetGoAlike ==
  ASSUME NEW k \in Keys, HeldFacts(k), LetGo(k)
  PROVE  /\ Alike(mem, mem') /\ Out(mem') = Out(mem) /\ mem'.writer = mem.writer
         /\ \A x \in Keys : EditingIn(mem', x) <=> EditingIn(mem, x)
<1> DEFINE e == [mem.ent[k].editor EXCEPT !.held = FALSE]
<1>1. mem \in Mems /\ EditingIn(mem, k) /\ mem.ent[k] \in Entries /\ mem.ent[k].editor \in Editors
  BY DEF HeldFacts, IdleFacts
<1>2. e \in Editors /\ ~e.held
  BY <1>1 DEF Editors
<1>3. mem' = [mem EXCEPT !.ent[k].editor = e]
  BY <1>1 DEF LetGo, Mems, Entries, Editors
<1> HIDE DEF e
<1> QED
  BY <1>1, <1>2, <1>3, PutAlike

\* An edit ends.
LEMMA EditEndsLeak ==
  ASSUME IInv, LeakInv, NEW k \in Keys, EditEnds(k), NEW ok \in BOOLEAN,
         \/ todo' = CompleteProgram(k, ok)
         \/ todo' = CompleteProgram(k, FALSE) \o DoKey("erase", k)
  PROVE  LeakInv'
<1>1. Held(k) /\ LetGo(k) /\ Idle /\ disk' = disk /\ phase' = phase /\ leaky' = leaky
      /\ phase = "up" /\ todo = <<>> /\ mem.ent[k].editor.held /\ EditingIn(mem, k)
  BY DEF EditEnds, Held, Idle, Calling, Editing, EditingIn
<1>2. HeldFacts(k)
  BY <1>1, HeldIs
<1>3. /\ Alike(mem, mem') /\ Out(mem') = Out(mem)
      /\ \A x \in Keys : EditingIn(mem', x) <=> EditingIn(mem, x)
  BY <1>1, <1>2, LetGoAlike
<1>4. Texts(disk', mem') \subseteq Texts(disk, mem) /\ SameValues(disk, disk')
  BY <1>1, <1>3, TextsSame DEF SameValues
<1> DEFINE a == CompleteProgram(k, FALSE)  b == CompleteProgram(k, TRUE)  c == DoKey("erase", k)
<1>5. a \in Seq(StepRec) /\ a # <<>> /\ a[1] = [do |-> "discard", key |-> k, idx |-> 0]
  <2>1. Prog(a, Aborts) /\ a[1] = [do |-> "discard", key |-> k, idx |-> 0]
    BY CompleteProgramIs
  <2> HIDE DEF a
  <2> QED
    BY <2>1 DEF Prog
<1>6. b \in Seq(StepRec) /\ b # <<>> /\ b[1] = [do |-> "publish", key |-> k, idx |-> 0] /\ Final(b) = "submit"
  <2>1. Prog(b, Aborts \cup {"publish"}) /\ b[1] = [do |-> "publish", key |-> k, idx |-> 0] /\ Final(b) = "submit"
    BY CompleteProgramIs
  <2> HIDE DEF b
  <2> QED
    BY <2>1 DEF Prog
<1>7. c \in Seq(StepRec)
  <2>1. Prog(c, {"erase"})
    BY DoKeyIs DEF KeyOps
  <2> HIDE DEF c
  <2> QED
    BY <2>1 DEF Prog
<1>8. todo' = a \/ todo' = b \/ todo' = a \o c
  OBVIOUS
<1> HIDE DEF a, b, c
<1>9. CASE todo' = a \/ todo' = a \o c
  <2>1. todo' # <<>> /\ Head(todo') = a[1]
    <3>1. a \o c # <<>> /\ Head(a \o c) = a[1] /\ Head(a) = a[1]
      BY <1>5, <1>7, FrontIs
    <3> QED
      BY <1>5, <1>9, <3>1
  <2>2. Plainly(todo', "up")
    BY <1>5, <2>1 DEF Plainly
  <2> QED
    BY <1>1, <1>3, <1>4, <2>2, LeakCalls
<1>10. CASE todo' = b
  <2> SUFFICES ASSUME ~leaky PROVE Leak(disk', mem', todo', phase')
    BY <1>1 DEF LeakInv
  <2>1. Leak(disk, mem, todo, phase) /\ Matched(disk, mem, todo) /\ Claims(disk, mem, todo)
    BY <1>1 DEF LeakInv, Leak, At
  <2>2. todo' # <<>> /\ Head(todo') = [do |-> "publish", key |-> k, idx |-> 0] /\ Final(todo') = "submit"
    <3>1. Head(b) = b[1]
      BY <1>6
    <3> QED
      BY <1>6, <1>10, <3>1
  <2>3. \A s \in Texts(disk', mem') : Backed(Journaled(s), disk')
    BY <1>1, <1>4, <2>1 DEF Leak
  <2>4. Matched(disk', mem', todo')
    BY <1>1, <1>3, <2>1 DEF Matched, Alike, Publishes, At
  <2>5. Worked(disk', todo')
    <3>1. \A i \in Idx : ~(i < 0)
      BY IdxFacts
    <3> QED
      BY <2>2, <3>1 DEF Worked, Behind, IdxOps, At
  <2>6. Claims(disk', mem', todo')
    <3>1. Claimed(mem', todo') \subseteq Claimed(mem, todo)
      <4> SUFFICES ASSUME NEW x \in Claimed(mem', todo') PROVE x \in Claimed(mem, todo)
        OBVIOUS
      <4>1. x \in Keys /\ (x = k \/ (EditingIn(mem', x) /\ mem'.ent[x].editor.held))
        BY <2>2 DEF Claimed, At, Publishes
      <4> QED
        BY <1>1, <1>3, <4>1 DEF Claimed, Alike
    <3> QED
      BY <1>4, <2>1, <2>2, <3>1 DEF Claims, At
  <2> QED
    BY <1>1, <2>2, <2>3, <2>4, <2>5, <2>6 DEF Leak, Rewritten, At
<1> QED
  BY <1>8, <1>9, <1>10

\* commit keeps it.
LEMMA commitLeak == ASSUME IInv, LeakInv, NEW k \in Keys, commit(k) PROVE LeakInv'
<1> DEFINE e == mem.ent[k]
           complete == ~(~e.readable /\ \E i \in Idx : i \notin e.editor.written \/ disk.dirty[k][i] = NoFile)
<1>1. EditEnds(k)
  BY DEF commit, EditEnds
<1>2. complete \in BOOLEAN
  OBVIOUS
<1>3. \/ todo' = CompleteProgram(k, complete)
      \/ todo' = CompleteProgram(k, FALSE) \o DoKey("erase", k)
  BY DEF commit
<1> HIDE DEF complete
<1> QED
  BY <1>1, <1>2, <1>3, EditEndsLeak

\* abort keeps it.
LEMMA abortLeak == ASSUME IInv, LeakInv, NEW k \in Keys, abort(k) PROVE LeakInv'
<1>1. EditEnds(k) /\ todo' = CompleteProgram(k, FALSE)
  BY DEF abort, EditEnds
<1> QED
  BY <1>1, EditEndsLeak

\* A line more in what may be read: it changes one entry of the longest text.
Lined(d, m, e, n, l) ==
    /\ Texts(e, n) = Texts(d, m) \cup {Full(e, n)}
    /\ l.key \in Keys /\ Full(d, m) \in Texts(d, m)
    /\ Journaled(Full(d, m)) \in Ents /\ Journaled(Full(e, n)) \in Ents
    /\ Journaled(Full(e, n))[l.key] = LineEntry(Journaled(Full(d, m))[l.key], l)
    /\ \A k \in Keys : k # l.key => Journaled(Full(e, n))[k] = Journaled(Full(d, m))[k]

\* A line that is held back is one.
LEMMA LineIs ==
  ASSUME NEW d \in Disks, NEW m \in Mems, NEW n, NEW l \in Lines, d.journal # NoFile,
         m.writer = "open", n.writer = "open", n.out = Append(m.out, l), NEW e, e.journal = d.journal
  PROVE  Lined(d, m, e, n, l)
<1>1. Texts(e, n) = Texts(d, m) \cup {Append(Full(d, m), l)} /\ Full(e, n) = Append(Full(d, m), l)
  BY TextsMore
<1>2. Full(d, m) \in Seq(Lines) /\ Full(d, m) \in Texts(d, m) /\ m.version \in Versions
  BY TextsType DEF Mems
<1> DEFINE s == Full(d, m)
<1>3. s \in Seq(Lines)
  BY <1>2
<1> HIDE DEF s
<1>4. /\ Journaled(s) \in Ents
      /\ Journaled(Append(s, l)) \in Ents
      /\ Journaled(Append(s, l))[l.key] = LineEntry(Journaled(s)[l.key], l)
      /\ \A k \in Keys : k # l.key => Journaled(Append(s, l))[k] = Journaled(s)[k]
      /\ l.key \in Keys
  BY <1>2, <1>3, JournaledIs
<1> QED
  BY <1>1, <1>2, <1>4 DEF Lined, s

\* The other entries account for their files as before.
LEMMA LineBacked ==
  ASSUME NEW d, NEW m, NEW e, NEW n, NEW l, Lined(d, m, e, n, l), SameValues(d, e),
         \A s \in Texts(d, m) : Backed(Journaled(s), d),
         \A i \in Idx : BackedAt(Journaled(Full(e, n)), d, l.key, i)
  PROVE  \A s \in Texts(e, n) : Backed(Journaled(s), e)
<1>1. ASSUME NEW f, Backed(f, d) PROVE Backed(f, e)
  BY <1>1 DEF Backed, BackedAt, SameValues
<1>2. Backed(Journaled(Full(e, n)), d)
  <2> SUFFICES ASSUME NEW k \in Keys, NEW i \in Idx PROVE BackedAt(Journaled(Full(e, n)), d, k, i)
    BY DEF Backed
  <2>1. CASE k = l.key
    BY <2>1
  <2>2. CASE k # l.key
    <3>1. BackedAt(Journaled(Full(d, m)), d, k, i)
      BY DEF Lined, Backed
    <3>2. Journaled(Full(e, n))[k] = Journaled(Full(d, m))[k]
      BY <2>2 DEF Lined
    <3> QED
      BY <3>1, <3>2 DEF BackedAt, Marked
  <2> QED
    BY <2>1, <2>2
<1> SUFFICES ASSUME NEW s \in Texts(e, n) PROVE Backed(Journaled(s), e)
  OBVIOUS
<1>3. s \in Texts(d, m) \/ s = Full(e, n)
  BY DEF Lined
<1> QED
  BY <1>1, <1>2, <1>3

\* And other edits are marked as before.
LEMMA LineMarked ==
  ASSUME NEW d, NEW m, NEW e, NEW n, NEW l, Lined(d, m, e, n, l), NEW k \in Keys,
         k # l.key \/ Marked(Journaled(Full(e, n)), k),
         \A s \in Texts(d, m) : Marked(Journaled(s), k)
  PROVE  \A s \in Texts(e, n) : Marked(Journaled(s), k)
<1>1. Marked(Journaled(Full(e, n)), k)
  BY DEF Lined, Marked
<1> QED
  BY <1>1 DEF Lined

\* set keeps it: a value is written while its edit is marked in the journal.
LEMMA setLeak == ASSUME IInv, LeakInv, NEW k \in Keys, NEW i \in Idx, NEW l \in Lengths, set(k, i, l) PROVE LeakInv'
<1>0. SetDoes(k, i) /\ Held(k) /\ leaky' = leaky /\ todo' = todo /\ phase' = phase
  BY SetIs DEF set
<1>1. HeldFacts(k) /\ mem \in Mems /\ disk \in Disks /\ todo = <<>> /\ phase = "up" /\ EditingIn(mem, k)
      /\ mem.ent[k].editor.held
  BY <1>0 DEF SetDoes, HeldFacts, IdleFacts, Held
<1>2. PICK e \in Editors : e.id = mem.ent[k].editor.id /\ e.held = mem.ent[k].editor.held
                          /\ mem' = [mem EXCEPT !.ent[k].editor = e]
  BY <1>0 DEF SetDoes
<1>3. /\ Alike(mem, mem') /\ Out(mem') = Out(mem)
      /\ \A x \in Keys : EditingIn(mem', x) <=> EditingIn(mem, x)
  BY <1>1, <1>2, PutAlike
<1>4. /\ disk'.clean = disk.clean /\ Journal(disk') = Journal(disk)
      /\ \A x \in Keys, j \in Idx : <<x, j>> # <<k, i>> => disk'.dirty[x][j] = disk.dirty[x][j]
  BY <1>0 DEF SetDoes, Journal
<1> SUFFICES ASSUME ~leaky PROVE Leak(disk', mem', todo', phase')
  BY <1>0 DEF LeakInv
<1>5. Leak(disk, mem, todo, phase) /\ Matched(disk, mem, todo) /\ Claims(disk, mem, todo)
  BY <1>1 DEF LeakInv, Leak, At
<1>6. Texts(disk', mem') \subseteq Texts(disk, mem)
  BY <1>3, <1>4, TextsSame
<1>7. k \in Claimed(mem, todo)
  BY <1>1 DEF Claimed
<1>8. \A s \in Texts(disk', mem') : Backed(Journaled(s), disk')
  <2> SUFFICES ASSUME NEW s \in Texts(disk', mem'), NEW x \in Keys, NEW j \in Idx
               PROVE  BackedAt(Journaled(s), disk', x, j)
    BY DEF Backed
  <2>1. BackedAt(Journaled(s), disk, x, j)
    BY <1>5, <1>6 DEF Leak, Backed
  <2>2. CASE <<x, j>> = <<k, i>>
    <3>1. Marked(Journaled(s), k)
      BY <1>5, <1>6, <1>7 DEF Claims
    <3> QED
      BY <1>4, <2>1, <2>2, <3>1 DEF BackedAt
  <2>3. CASE <<x, j>> # <<k, i>>
    BY <1>4, <2>1, <2>3 DEF BackedAt
  <2> QED
    BY <2>2, <2>3
<1>9. Matched(disk', mem', todo')
  <2> SUFFICES ASSUME NEW x \in Keys, NEW j \in Idx
               PROVE  /\ disk'.clean[x][j] # NoFile =>
                           /\ mem'.ent[x] # NoEntry /\ mem'.ent[x].len[j] = disk'.clean[x][j].len
                           /\ mem'.ent[x].readable \/ Publishes(todo', x)
                      /\ disk'.dirty[x][j] # NoFile => EditingIn(mem', x)
    BY DEF Matched
  <2>1. disk'.clean[x][j] # NoFile =>
           /\ mem'.ent[x] # NoEntry /\ mem'.ent[x].len[j] = disk'.clean[x][j].len
           /\ mem'.ent[x].readable \/ Publishes(todo', x)
    BY <1>0, <1>3, <1>4, <1>5 DEF Matched, Alike
  <2>2. disk'.dirty[x][j] # NoFile => EditingIn(mem', x)
    BY <1>1, <1>3, <1>4, <1>5 DEF Matched
  <2> QED
    BY <2>1, <2>2
<1>10. Claims(disk', mem', todo') /\ Worked(disk', todo')
  <2>1. Claimed(mem', todo') \subseteq Claimed(mem, todo)
    BY <1>0, <1>1, <1>3 DEF Claimed, Alike, At, Publishes
  <2> QED
    BY <1>0, <1>1, <1>5, <1>6, <2>1 DEF Claims, Worked, At
<1> QED
  BY <1>0, <1>1, <1>8, <1>9, <1>10 DEF Leak, Rewritten, At

\* get keeps it: an entry that is read is in the journal already.
LEMMA getLeak == ASSUME IInv, LeakInv, NEW k \in Keys, get(k) PROVE LeakInv'
<1> DEFINE m == [mem EXCEPT !.lru = Touch(@, k)]
           n == [m EXCEPT !.redundant = @ + 1]
           r == Line("READ", k)
           o == [n EXCEPT !.out = Append(@, r)]
<1>0. Idle /\ disk' = disk /\ phase' = phase /\ leaky' = leaky /\ todo' = todo
  BY DEF get, Calling
<1>1. mem \in Mems /\ disk \in Disks /\ todo = <<>> /\ phase = "up" /\ (mem.writer = "open" => disk.journal # NoFile)
  BY <1>0, IdleIs DEF IdleFacts
<1>2. n.ent = mem.ent /\ n.writer = mem.writer /\ n.out = mem.out /\ m.ent = mem.ent /\ m.out = mem.out
      /\ m.writer = mem.writer
  BY <1>1 DEF Mems
<1>3. o.ent = mem.ent /\ o.writer = mem.writer /\ o.out = Append(mem.out, r)
  <2>1. o.ent = n.ent /\ o.writer = n.writer /\ o.out = Append(n.out, r)
    BY <1>1 DEF Mems
  <2> QED
    BY <1>2, <2>1
<1>4. r \in Lines /\ r.key = k /\ r.state = "READ"
  BY DEF Line, Lines
<1> HIDE DEF m, n, o, r
<1>5. mem' \in {m, n} \/ (mem' = o /\ mem.writer = "open" /\ Visible(k))
  BY DEF get, m, n, o, r
<1>6. mem'.ent = mem.ent
  BY <1>2, <1>3, <1>5
<1>7. Alike(mem, mem') /\ SameValues(disk, disk')
  BY <1>0, <1>6, AlikeSame DEF SameValues
<1>8. CASE mem' \in {m, n}
  <2>1. Out(mem') = Out(mem)
    BY <1>2, <1>8 DEF Out
  <2>2. Texts(disk', mem') \subseteq Texts(disk, mem)
    BY <1>0, <2>1, TextsSame
  <2> QED
    BY <1>0, <1>1, <1>7, <2>2, LeakCalls DEF Plainly
<1>9. CASE mem' = o /\ mem.writer = "open" /\ Visible(k)
  <2> SUFFICES ASSUME ~leaky PROVE Leak(disk', mem', todo', phase')
    BY <1>0 DEF LeakInv
  <2>1. Leak(disk, mem, todo, phase) /\ Matched(disk, mem, todo) /\ Claims(disk, mem, todo)
    BY <1>1 DEF LeakInv, Leak, At
  <2>2. Lined(disk, mem, disk', mem', r)
    BY <1>0, <1>1, <1>3, <1>4, <1>9, LineIs
  <2> DEFINE a == Journaled(Full(disk, mem))  b == Journaled(Full(disk', mem'))
  <2>3. Backed(a, disk)
    BY <2>1, <2>2 DEF Leak, Lined
  <2>4. disk.clean[k][0] # NoFile /\ 0 \in Idx
    BY <1>9, IdxFacts DEF Visible, VisibleIn
  <2>5. a[k] # NoEntry
    <3> HIDE DEF a
    <3> QED
      BY <2>3, <2>4 DEF Backed, BackedAt
  <2>6. b[k] = a[k]
    <3>1. b[k] = LineEntry(a[k], r)
      BY <1>4, <2>2 DEF Lined
    <3> HIDE DEF a, b
    <3> QED
      BY <1>4, <2>5, <3>1 DEF LineEntry, EntryOf
  <2>7. \A i \in Idx : BackedAt(b, disk, k, i)
    <3> HIDE DEF a, b
    <3> QED
      BY <2>3, <2>6 DEF Backed, BackedAt, Marked
  <2>8. \A s \in Texts(disk', mem') : Backed(Journaled(s), disk')
    BY <1>4, <1>7, <2>1, <2>2, <2>7, LineBacked DEF Leak
  <2>9. Claimed(mem', todo') = Claimed(mem, todo)
    BY <1>0, <1>6 DEF Claimed, EditingIn
  <2>10. ASSUME NEW x \in Claimed(mem', todo') PROVE \A s \in Texts(disk', mem') : Marked(Journaled(s), x)
    <3>1. x \in Keys /\ \A s \in Texts(disk, mem) : Marked(Journaled(s), x)
      BY <2>1, <2>9, <2>10 DEF Claims, Claimed
    <3>2. Marked(a, x)
      BY <2>2, <3>1 DEF Lined
    <3>3. x # k \/ Marked(b, x)
      <4> HIDE DEF a, b
      <4> QED
        BY <2>6, <3>2 DEF Marked
    <3> QED
      BY <1>4, <2>2, <3>1, <3>3, LineMarked
  <2>11. Claims(disk', mem', todo')
    BY <1>0, <1>1, <2>10 DEF Claims, At
  <2>12. Matched(disk', mem', todo') /\ Worked(disk', todo')
    BY <1>0, <1>1, <1>6, <2>1 DEF Matched, Worked, EditingIn, At
  <2> QED
    BY <1>0, <1>1, <2>8, <2>11, <2>12 DEF Leak, Rewritten, At
<1> QED
  BY <1>5, <1>8, <1>9

\* edit keeps it: the edit is marked before its program goes on.
LEMMA editLeak == ASSUME IInv, LeakInv, NEW k \in Keys, NEW expected, edit(k, expected) PROVE LeakInv'
<1>0. Idle /\ disk' = disk /\ phase' = phase /\ leaky' = leaky /\ EditDoes(k)
  BY EditIs DEF edit, Calling
<1>1. mem \in Mems /\ disk \in Disks /\ todo = <<>> /\ phase = "up" /\ (mem.writer = "open" => disk.journal # NoFile)
      /\ mem' \in Mems /\ mem'.writer = mem.writer /\ SameValues(disk, disk')
  BY <1>0, IdleIs DEF IdleFacts, EditDoes, Sound, SameValues
<1>2. CASE EditRefused
  <2>1. Alike(mem, mem') /\ Out(mem') = Out(mem) /\ todo' = <<>>
    BY <1>1, <1>2, AlikeSame DEF EditRefused, Out
  <2>2. Texts(disk', mem') \subseteq Texts(disk, mem)
    BY <1>0, <2>1, TextsSame
  <2> QED
    BY <1>0, <1>1, <2>1, <2>2, LeakCalls DEF Plainly
<1>3. CASE EditBegun(k)
  <2> SUFFICES ASSUME ~leaky PROVE Leak(disk', mem', todo', phase')
    BY <1>0 DEF LeakInv
  <2>1. Leak(disk, mem, todo, phase) /\ Matched(disk, mem, todo) /\ Claims(disk, mem, todo)
    BY <1>1 DEF LeakInv, Leak, At
  <2>2. PICK f : EditorNew(mem, f, k, edits + 1) /\ mem'.ent = [mem.ent EXCEPT ![k] = f]
    BY <1>3 DEF EditBegun
  <2>3. /\ mem'.ent[k] = f /\ \A x \in Keys : x # k => mem'.ent[x] = mem.ent[x]
        /\ f # NoEntry /\ f.editor # NoEditor /\ ~f.editor.held
        /\ mem.ent[k] # NoEntry => f.len = mem.ent[k].len /\ f.readable = mem.ent[k].readable
    BY <1>1, <2>2, NullAssumption DEF EditorNew, Mems
  <2>4. /\ ~At(todo', {"give", "publish", "complete", "discard", "deleteClean", "removed", "backup", "install", "load"})
        /\ At(todo', {"flush"}) => /\ mem.writer = "open" /\ mem'.out = Append(mem.out, Line("DIRTY", k))
                                   /\ todo'[Len(todo')].key = k
        /\ ~At(todo', {"flush"}) => mem.writer # "open"
    <3>1. CASE mem.writer = "open" /\ mem'.out = Append(mem.out, Line("DIRTY", k)) /\ todo' = EditProgram(k)
      <4>1. /\ Whole(todo', "up") /\ todo'[1] = [do |-> "flush"] /\ Final(todo') = "give"
            /\ todo'[Len(todo')].key = k
        BY <3>1, EditProgramIs
      <4>2. todo' # <<>> /\ Head(todo') = [do |-> "flush"]
        BY <4>1, Begins
      <4> QED
        BY <3>1, <4>1, <4>2 DEF At
    <3>2. CASE mem.writer # "open" /\ todo' = <<>>
      BY <3>2 DEF At
    <3> QED
      BY <1>3, <3>1, <3>2 DEF EditBegun
  <2>5. Matched(disk', mem', todo')
    <3> SUFFICES ASSUME NEW x \in Keys, NEW j \in Idx
                 PROVE  /\ disk.clean[x][j] # NoFile =>
                             /\ mem'.ent[x] # NoEntry /\ mem'.ent[x].len[j] = disk.clean[x][j].len
                             /\ mem'.ent[x].readable \/ Publishes(todo', x)
                        /\ disk.dirty[x][j] # NoFile => EditingIn(mem', x)
      BY <1>0 DEF Matched
    <3>1. /\ disk.clean[x][j] # NoFile =>
               mem.ent[x] # NoEntry /\ mem.ent[x].len[j] = disk.clean[x][j].len /\ mem.ent[x].readable
          /\ disk.dirty[x][j] # NoFile => EditingIn(mem, x)
      BY <1>1, <2>1 DEF Matched, Publishes, At
    <3>2. CASE x = k
      BY <2>3, <3>1, <3>2 DEF EditingIn
    <3>3. CASE x # k
      BY <2>3, <3>1, <3>3 DEF EditingIn
    <3> QED
      BY <3>2, <3>3
  <2>6. Claimed(mem', todo') \subseteq Claimed(mem, todo) \ {k}
    <3> SUFFICES ASSUME NEW x \in Claimed(mem', todo') PROVE x \in Claimed(mem, todo) \ {k}
      OBVIOUS
    <3>1. x \in Keys /\ EditingIn(mem', x) /\ mem'.ent[x].editor.held
      BY <2>4 DEF Claimed, Publishes, At
    <3>2. x # k
      BY <2>3, <3>1
    <3> QED
      BY <2>3, <3>1, <3>2 DEF Claimed, EditingIn
  <2>7. CASE ~At(todo', {"flush"})
    <3>1. Out(mem') = Out(mem)
      BY <1>1, <2>4, <2>7 DEF Out
    <3>2. Texts(disk', mem') \subseteq Texts(disk, mem)
      BY <1>0, <3>1, TextsSame
    <3>3. Claims(disk', mem', todo')
      BY <2>1, <2>6, <2>7, <3>2 DEF Claims
    <3>4. \A s \in Texts(disk', mem') : Backed(Journaled(s), disk')
      BY <1>0, <2>1, <3>2 DEF Leak
    <3> QED
      BY <1>0, <1>1, <2>4, <2>5, <3>3, <3>4 DEF Leak, Rewritten, Worked, At
  <2>8. CASE At(todo', {"flush"})
    <3> DEFINE r == Line("DIRTY", k)
    <3>1. r \in Lines /\ r.key = k /\ r.state = "DIRTY"
      BY DEF Line, Lines
    <3>2. mem.writer = "open" /\ mem'.out = Append(mem.out, r)
      BY <2>4, <2>8
    <3> HIDE DEF r
    <3>3. Lined(disk, mem, disk', mem', r)
      BY <1>0, <1>1, <3>1, <3>2, LineIs
    <3> DEFINE a == Journaled(Full(disk, mem))  b == Journaled(Full(disk', mem'))
    <3>4. Marked(b, k)
      <4>1. b[k] = LineEntry(a[k], r) /\ a[k] \in Entries \cup {NoEntry}
        BY <3>1, <3>3 DEF Lined, Ents
      <4> HIDE DEF a, b
      <4>2. b[k] = [EntryOf(a[k]) EXCEPT !.editor = NewEditor(0)] /\ b[k] # NoEntry
        BY <3>1, <4>1, LineEntryType DEF LineEntry
      <4>3. EntryOf(a[k]) \in Entries
        BY <4>1, EntryType DEF EntryOf
      <4>4. b[k].editor = NewEditor(0) /\ NewEditor(0) # NoEditor
        BY <4>2, <4>3, EditorType DEF Entries
      <4> QED
        BY <4>2, <4>4 DEF Marked
    <3>5. \A i \in Idx : BackedAt(b, disk, k, i)
      <4> HIDE DEF a, b
      <4> QED
        BY <3>4 DEF BackedAt, Marked
    <3>6. \A s \in Texts(disk', mem') : Backed(Journaled(s), disk')
      BY <1>1, <2>1, <3>1, <3>3, <3>5, LineBacked DEF Leak
    <3>7. ASSUME NEW x \in Claimed(mem', todo') PROVE \A s \in Texts(disk', mem') : Marked(Journaled(s), x)
      <4>1. x \in Keys /\ x # k /\ \A s \in Texts(disk, mem) : Marked(Journaled(s), x)
        BY <2>1, <2>6, <3>7 DEF Claims, Claimed
      <4> QED
        BY <3>1, <3>3, <4>1, LineMarked
    <3>8. Claims(disk', mem', todo')
      BY <2>4, <2>8, <3>4, <3>7 DEF Claims
    <3> QED
      BY <1>0, <1>1, <2>4, <2>5, <2>8, <3>6, <3>8 DEF Leak, Rewritten, Worked, At
  <2> QED
    BY <2>7, <2>8
<1> QED
  BY <1>0, <1>2, <1>3 DEF EditDoes

\* SnapshotEdit keeps it.
LEMMA SnapshotEditLeak == ASSUME IInv, LeakInv, SnapshotEdit PROVE LeakInv'
<1>1. snap.key \in Keys /\ edit(snap.key, {snap.seq})
  BY DEF SnapshotEdit, IInv, TypeInv, Snapshots
<1> QED
  BY <1>1, editLeak

-----------------------------------------------------------------------------
\* A step that works on an entry is one of a cache that is open.
UpOps == {"publish", "discard", "complete", "flush", "give", "deleteClean", "removed"}
UpStep(op) ==
    /\ todo # <<>> /\ Head(todo).do = op /\ Head(todo) \in StepRec /\ phase = "up"
    /\ mem \in Mems /\ Listed(mem) /\ HeldKnown(mem) /\ disk \in Disks
    /\ Running(todo, phase) /\ Final(todo) \in UpEnds /\ op \in StepsOf(Final(todo))
    /\ Matched(disk, mem, todo) /\ Worked(disk, todo) /\ Claims(disk, mem, todo)
    /\ \A s \in Texts(disk, mem) : Backed(Journaled(s), disk)

\* What is so at such a step.
LEMMA UpStepIs ==
  ASSUME IInv, LeakInv, ~leaky, NEW op \in UpOps, Step(op)
  PROVE  UpStep(op)
<1>1. /\ Running(todo, phase) /\ HeadFacts(todo) /\ Head(todo).do = op /\ todo # <<>> /\ phase # "down"
      /\ op \in StepsOf(Final(todo)) /\ Final(todo) \in OpenEnds \cup UpEnds
      /\ phase = (IF Final(todo) \in OpenEnds THEN "opening" ELSE "up")
  BY StepIs
<1>2. Leak(disk, mem, todo, phase)
  BY DEF LeakInv
<1>3. Final(todo) \notin OpenEnds
  <2>1. Final(todo) \notin {"load", "created", "opened"}
    BY <1>1 DEF StepsOf, UpOps, Rebuild, Drops
  <2>2. ASSUME Final(todo) = "fresh" PROVE FALSE
    <3>1. phase = "opening"
      BY <1>1, <2>2 DEF OpenEnds
    <3>2. At(todo, {"wipe", "fresh"})
      BY <1>2, <2>2, <3>1 DEF Leak, Emptied
    <3> QED
      BY <1>1, <3>2 DEF At, UpOps
  <2> QED
    BY <2>1, <2>2 DEF OpenEnds
<1>4. phase = "up" /\ Final(todo) \in UpEnds
  BY <1>1, <1>3
<1>5. ~At(todo, {"down"})
  BY <1>1 DEF At, UpOps
<1>6. Matched(disk, mem, todo) /\ Worked(disk, todo) /\ Claims(disk, mem, todo)
      /\ \A s \in Texts(disk, mem) : Backed(Journaled(s), disk)
  BY <1>2, <1>4, <1>5 DEF Leak
<1>7. mem \in Mems /\ Listed(mem) /\ HeldKnown(mem) /\ disk \in Disks
  BY DEF IInv, TypeInv, Core
<1> QED
  BY <1>1, <1>4, <1>6, <1>7 DEF UpStep, HeadFacts

\* Give keeps it: the edit is in the journal.
LEMMA GiveLeak == ASSUME IInv, LeakInv, Give PROVE LeakInv'
<1> DEFINE k == Head(todo).key  e == [mem.ent[k].editor EXCEPT !.held = TRUE]
<1>1. /\ Step("give") /\ disk' = disk /\ phase' = phase /\ leaky' = leaky
      /\ mem' = [mem EXCEPT !.ent[k].editor.held = TRUE]
  BY DEF Give, Quiet
<1> SUFFICES ASSUME ~leaky PROVE Leak(disk', mem', todo', phase')
  BY <1>1 DEF LeakInv
<1>2. UpStep("give")
  BY <1>1, UpStepIs DEF UpOps
<1>3. todo # <<>> /\ Head(todo).do = "give" /\ phase = "up" /\ mem \in Mems /\ k \in Keys
  BY <1>2 DEF UpStep, StepRec, PlainOps, IdxOps
<1>4. todo' = <<>> /\ Final(todo) = "give" /\ todo[Len(todo)] = Head(todo)
  BY <1>1, <1>3, Continues, LastStep DEF Give
<1>5. Known(mem, k) /\ EditingIn(mem, k)
  BY <1>3, <1>4 DEF IInv, Core, Given, Known
<1>6. mem.ent[k] \in Entries /\ mem.ent[k].editor \in Editors
  BY <1>3, <1>5 DEF EditingIn, Mems, Entries
<1>7. e \in Editors /\ e.id = mem.ent[k].editor.id
  BY <1>6 DEF Editors
<1>8. mem' = [mem EXCEPT !.ent[k].editor = e]
  BY <1>1, <1>3, <1>6 DEF Mems, Entries, Editors
<1> HIDE DEF e
<1>9. Edited(mem, mem', k)
  BY <1>3, <1>5, <1>7, <1>8, PutIs
<1>10. Out(mem') = Out(mem)
  BY <1>3, <1>8 DEF Mems, Out
<1>k. k = Head(todo).key
  OBVIOUS
<1> HIDE DEF k
<1>11. PICK f : /\ Replaced(mem, mem', k, f) /\ f.len = mem.ent[k].len /\ f.readable = mem.ent[k].readable
                /\ f.editor # NoEditor
  BY <1>9 DEF Edited
<1>12. /\ mem'.ent[k] = f /\ f # NoEntry /\ \A x \in Keys : x # k => mem'.ent[x] = mem.ent[x]
  BY <1>3, <1>11, NullAssumption DEF Replaced, Mems
<1>13. Texts(disk', mem') \subseteq Texts(disk, mem)
  BY <1>1, <1>10, TextsSame
<1>14. Matched(disk', mem', todo')
  <2> SUFFICES ASSUME NEW x \in Keys, NEW j \in Idx
               PROVE  /\ disk.clean[x][j] # NoFile =>
                           /\ mem'.ent[x] # NoEntry /\ mem'.ent[x].len[j] = disk.clean[x][j].len
                           /\ mem'.ent[x].readable \/ Publishes(todo', x)
                      /\ disk.dirty[x][j] # NoFile => EditingIn(mem', x)
    BY <1>1 DEF Matched
  <2>1. /\ disk.clean[x][j] # NoFile =>
             mem.ent[x] # NoEntry /\ mem.ent[x].len[j] = disk.clean[x][j].len /\ mem.ent[x].readable
        /\ disk.dirty[x][j] # NoFile => EditingIn(mem, x)
    BY <1>2, <1>3 DEF UpStep, Matched, Publishes, At
  <2>2. CASE x = k
    BY <1>11, <1>12, <2>1, <2>2 DEF EditingIn
  <2>3. CASE x # k
    BY <1>12, <2>1, <2>3 DEF EditingIn
  <2> QED
    BY <2>2, <2>3
<1>15. Claims(disk', mem', todo')
  <2>1. Claimed(mem', todo') \subseteq Claimed(mem, todo)
    <3> SUFFICES ASSUME NEW x \in Claimed(mem', todo') PROVE x \in Claimed(mem, todo)
      OBVIOUS
    <3>1. x \in Keys /\ EditingIn(mem', x) /\ mem'.ent[x].editor.held
      BY <1>4 DEF Claimed, Publishes, At
    <3>2. CASE x = k
      BY <1>3, <1>k, <3>1, <3>2 DEF Claimed, At
    <3>3. CASE x # k
      BY <1>12, <3>1, <3>3 DEF Claimed, EditingIn
    <3> QED
      BY <3>2, <3>3
  <2> QED
    BY <1>2, <1>4, <1>13, <2>1 DEF Claims, At, UpStep
<1>16. \A s \in Texts(disk', mem') : Backed(Journaled(s), disk')
  BY <1>1, <1>2, <1>13 DEF UpStep
<1> QED
  BY <1>1, <1>3, <1>4, <1>14, <1>15, <1>16 DEF Leak, Rewritten, Worked, At

\* FlushStep keeps it: what was held back is in the file, so an edit is marked there.
LEMMA FlushLeak == ASSUME IInv, LeakInv, FlushStep PROVE LeakInv'
<1>1. Step("flush") /\ todo # <<>> /\ Head(todo).do = "flush" /\ mem \in Mems /\ disk \in Disks
      /\ mem.out \in Seq(Lines)
  BY DEF FlushStep, Step, IInv, TypeInv, Mems
<1>2. CASE /\ mem.writer = "open" /\ disk' = [disk EXCEPT !.journal.lines = @ \o mem.out]
           /\ mem' = [mem EXCEPT !.out = <<>>] /\ Continue(<<>>) /\ Done
  <2>1. todo' = Tail(todo) /\ phase' = phase /\ leaky' = leaky
    BY <1>1, <1>2, Continues DEF Done
  <2> SUFFICES ASSUME ~leaky PROVE Leak(disk', mem', todo', phase')
    BY <2>1 DEF LeakInv
  <2>2. UpStep("flush")
    BY <1>1, UpStepIs DEF UpOps
  <2>3. phase = "up" /\ disk.journal # NoFile /\ disk.journal \in Journals
        /\ disk.journal.lines \in Seq(Lines)
    BY <1>1, <1>2, <2>2 DEF UpStep, IInv, Files, Disks, Journals
  <2>4. disk'.journal # NoFile
    BY <1>1, <1>2, <2>3, AppendedType
  <2>5. SameValues(disk, disk') /\ disk'.journal.lines = disk.journal.lines \o mem.out
    BY <1>1, <1>2, <2>3 DEF Disks, Journals, SameValues
  <2>8. mem'.ent = mem.ent /\ Out(mem') = <<>>
    BY <1>1, <1>2 DEF Mems, Out
  <2>9. Texts(disk', mem') \subseteq Texts(disk, mem) /\ Texts(disk', mem') = {Full(disk, mem)}
    <3>1. mem.writer = "open"
      BY <1>2
    <3> QED
      BY <1>1, <2>3, <2>4, <2>5, <2>8, <3>1, TextsAll
  <2>10. /\ Popped(todo, todo', phase)
         /\ todo' # <<>> => Follows(Head(todo), Head(todo'))
    BY <1>1, <2>1, NextIs DEF OpenEnds
  <2>11. todo' # <<>> => Head(todo').do \in {"give", "submit"}
    BY <1>1, <2>10 DEF Follows
  <2>12. \A s \in Texts(disk', mem') : Backed(Journaled(s), disk')
    BY <2>2, <2>5, <2>9 DEF UpStep, Backed, BackedAt, SameValues
  <2>13. Matched(disk', mem', todo')
    BY <1>1, <2>2, <2>5, <2>8 DEF UpStep, Matched, SameValues, EditingIn, Publishes, At
  <2>14. Claims(disk', mem', todo')
    <3> SUFFICES ASSUME NEW x \in Claimed(mem', todo') PROVE Marked(Journaled(Full(disk, mem)), x)
      BY <2>9, <2>11 DEF Claims, At
    <3>1. CASE x \in Claimed(mem, todo)
      BY <2>2, <2>9, <3>1 DEF UpStep, Claims
    <3>2. CASE x \notin Claimed(mem, todo)
      <4>1. todo' # <<>> /\ Head(todo').do = "give" /\ Head(todo').key = x
        BY <2>8, <2>11, <3>2 DEF Claimed, EditingIn, Publishes, At
      <4>2. Final(todo) = "give" /\ todo[Len(todo)] = Head(todo')
        <5>1. todo' \in Seq(StepRec) /\ Chain(todo') /\ Final(todo') = Final(todo)
          BY <2>10, <4>1 DEF Popped, Control
        <5>2. Tail(todo') = <<>> /\ Len(todo') = 1 /\ Final(todo') = "give" /\ todo'[1] = Head(todo')
          BY <4>1, <5>1, LastOf
        <5>3. Len(todo) = 2 /\ todo'[1] = todo[2]
          <6>1. todo \in Seq(StepRec) /\ Chain(todo) /\ Within(todo, StepsOf(Final(todo)))
            BY <1>1, <2>2 DEF UpStep, Running, Control
          <6>2. Len(todo') = Len(todo) - 1
            BY <1>1, <2>1, <6>1, Tails
          <6>h. todo' # <<>> => Head(todo') = todo[2]
            BY <1>1, <2>1, <6>1, Tails
          <6>3. Len(todo) \in Nat
            BY <6>1
          <6>4. Len(todo) = 2
            <7>1. Len(todo') = 1
              BY <5>2
            <7> DEFINE a == Len(todo)  b == Len(todo')
            <7>2. a \in Nat /\ b = a - 1 /\ b = 1
              BY <6>2, <6>3, <7>1
            <7> HIDE DEF a, b
            <7>3. a = 2
              BY <7>2
            <7> QED
              BY <7>3 DEF a
          <6>5. todo'[1] = todo[2]
            BY <4>1, <5>2, <6>h
          <6> QED
            BY <6>4, <6>5
        <5> QED
          BY <5>1, <5>2, <5>3
      <4>3. Marked(Journaled(Full(disk, mem)), todo[Len(todo)].key)
        BY <1>1, <1>2, <2>2, <4>2 DEF UpStep, Claims, At
      <4> QED
        BY <4>1, <4>2, <4>3
    <3> QED
      BY <3>1, <3>2
  <2> QED
    BY <2>1, <2>3, <2>11, <2>12, <2>13, <2>14 DEF Leak, Rewritten, Worked, At
<1>3. CASE mem.writer # "open" /\ Throw /\ disk' = disk /\ mem' = mem
  BY <1>1, <1>3, LeakThrow, AlikeSame, TextsSame DEF SameValues, At
<1>4. CASE Throw /\ disk' = disk /\ \E o \in {mem.out, <<>>} : mem' = [mem EXCEPT !.out = o]
  <2>1. mem'.ent = mem.ent /\ (Out(mem') = Out(mem) \/ Out(mem') = <<>>)
    BY <1>1, <1>4 DEF Mems, Out
  <2>2. Texts(disk', mem') \subseteq Texts(disk, mem)
    BY <1>1, <1>4, <2>1, TextsSame, TextsDry
  <2> QED
    BY <1>1, <1>4, <2>1, <2>2, LeakThrow, AlikeSame DEF SameValues, At
<1> QED
  BY <1>2, <1>3, <1>4 DEF FlushStep

\* A step for each value of an entry, and the step after it: it has this value
\* behind it, too.
AfterOps(op) ==
    CASE op \in {"publish", "discard"} -> {op, "complete"}
      [] op = "deleteClean" -> {op, "removed"}
      [] OTHER -> {op, "dropEntry"}
Advances(t, u) ==
    /\ u # <<>> /\ Head(t).key \in Keys /\ Head(t).idx \in Idx /\ Head(u).key = Head(t).key
    /\ Head(u).do \in AfterOps(Head(t).do)
    /\ Head(u).do = "complete" => Head(u).ok = (Head(t).do = "publish")
    /\ \A j \in Idx : Behind(u, j) => Behind(t, j) \/ j = Head(t).idx

\* Each such step is followed by one of these.
LEMMA IndexNext ==
  ASSUME IInv, todo # <<>>, Head(todo).do \in IdxOps
  PROVE  Advances(todo, Tail(todo))
<1> DEFINE s == Head(todo)  u == Tail(todo)  t == Head(u)
<1>1. Running(todo, phase) /\ HeadFacts(todo) /\ todo \in Seq(StepRec)
  <2>1. Step(s.do)
    BY DEF Step
  <2>2. Running(todo, phase) /\ HeadFacts(todo)
    BY <2>1, StepIs
  <2> QED
    BY <2>2 DEF Running
<1>2. Popped(todo, u, phase) /\ u # <<>>
  <2>1. s.do \notin OpenEnds \cup UpEnds \cup {"down"}
    BY DEF IdxOps, OpenEnds, UpEnds
  <2> QED
    BY <1>1, <2>1, NotLast, Pops
<1>3. s \in StepRec /\ s.key \in Keys /\ s.idx \in Idx
  BY <1>1 DEF HeadFacts, StepRec, PlainOps, KeyOps, IdxOps
<1>4. Follows(s, t) /\ t \in StepRec
  BY <1>2 DEF Popped
<1> DEFINE after == IF s.do \in {"publish", "discard"} THEN "complete"
                    ELSE IF s.do = "deleteClean" THEN "removed" ELSE "dropEntry"
<1>5. NextIndex(s, t, s.do, after) /\ (t.do = "complete" => t.ok = (s.do = "publish"))
  <2>1. t.do = "complete" => t.ok \in BOOLEAN
    BY <1>4 DEF StepRec, PlainOps, KeyOps, IdxOps
  <2> HIDE DEF s, t
  <2>2. s.do \in IdxOps
    BY DEF s
  <2>3. CASE s.do = "publish"
    BY <1>4, <2>1, <2>3 DEF Follows
  <2>4. CASE s.do = "discard"
    BY <1>4, <2>1, <2>4 DEF Follows
  <2>5. CASE s.do = "deleteClean"
    <3>1. NextIndex(s, t, "deleteClean", "removed")
      BY <1>4, <2>5 DEF Follows
    <3> QED
      BY <2>5, <3>1 DEF NextIndex
  <2>6. CASE s.do = "unlink"
    <3>1. NextIndex(s, t, "unlink", "dropEntry")
      BY <1>4, <2>6 DEF Follows
    <3> QED
      BY <2>6, <3>1 DEF NextIndex
  <2> QED
    BY <2>2, <2>3, <2>4, <2>5, <2>6 DEF IdxOps
<1>6. t.key = s.key /\ t.do \in {s.do, after}
  <2> HIDE DEF s, t, after
  <2> QED
    BY <1>5 DEF NextIndex
<1>7. ASSUME NEW j \in Idx, Behind(u, j) PROVE Behind(todo, j) \/ j = s.idx
  <2>1. s.idx \in Int /\ j \in Int /\ j < valueCount /\ valueCount \in Int
    BY <1>3, LimitAssumption DEF Idx
  <2>2. Behind(todo, j) <=> j < s.idx
    BY DEF Behind
  <2>3. CASE s.idx = valueCount - 1
    BY <2>1, <2>2, <2>3
  <2>4. CASE s.idx # valueCount - 1
    <3>1. t.do = s.do /\ t.idx = s.idx + 1
      <4> HIDE DEF s, t, after
      <4> QED
        BY <1>5, <2>4 DEF NextIndex
    <3> DEFINE n == s.idx
    <3>2. j < n + 1
      BY <1>7, <3>1 DEF Behind
    <3>3. n \in Int /\ j \in Int
      BY <2>1
    <3>4. n = s.idx
      OBVIOUS
    <3> HIDE DEF n
    <3>5. j < n \/ j = n
      BY <3>2, <3>3
    <3> QED
      BY <2>2, <3>4, <3>5
  <2> QED
    BY <2>3, <2>4
<1>8. t.do \in AfterOps(s.do)
  <2> HIDE DEF s, t
  <2>1. s.do \in IdxOps
    BY DEF s
  <2> QED
    BY <1>6, <2>1 DEF AfterOps, IdxOps
<1> QED
  BY <1>2, <1>3, <1>5, <1>6, <1>7, <1>8 DEF Advances

\* Discard keeps it.
LEMMA DiscardLeak == ASSUME IInv, LeakInv, Discard PROVE LeakInv'
<1> DEFINE k == Head(todo).key  i == Head(todo).idx
<1>1. Step("discard") /\ todo # <<>> /\ Head(todo).do = "discard" /\ mem' = mem /\ disk \in Disks
  BY DEF Discard, Step, IInv, TypeInv
<1>2. CASE disk' = [disk EXCEPT !.dirty[k][i] = NoFile] /\ Continue(<<>>) /\ Done
  <2>1. todo' = Tail(todo) /\ phase' = phase /\ leaky' = leaky
    BY <1>1, <1>2, Continues DEF Done
  <2> SUFFICES ASSUME ~leaky PROVE Leak(disk', mem', todo', phase')
    BY <2>1 DEF LeakInv
  <2>2. UpStep("discard")
    BY <1>1, UpStepIs DEF UpOps
  <2>3. Advances(todo, todo')
    BY <1>1, <2>1, IndexNext DEF IdxOps
  <2>4. k \in Keys /\ i \in Idx /\ todo' # <<>> /\ Head(todo').key = k /\ Head(todo').do \in {"discard", "complete"}
        /\ (Head(todo').do = "complete" => ~Head(todo').ok)
        /\ \A j \in Idx : Behind(todo', j) => Behind(todo, j) \/ j = i
    BY <1>1, <2>3 DEF Advances, AfterOps
  <2>5. /\ disk'.clean = disk.clean /\ disk'.journal = disk.journal /\ disk'.backup = disk.backup
        /\ \A x \in Keys, j \in Idx : disk'.dirty[x][j] \in {disk.dirty[x][j], NoFile}
        /\ disk'.dirty[k][i] = NoFile
    BY <1>1, <1>2, <2>4 DEF Disks, Values
  <2> HIDE DEF k, i
  <2>6. Texts(disk', mem') \subseteq Texts(disk, mem)
    BY <1>1, <2>5, TextsSame DEF Journal
  <2>7. \A s \in Texts(disk', mem') : Backed(Journaled(s), disk')
    BY <2>2, <2>5, <2>6 DEF UpStep, Backed, BackedAt
  <2>8. \A x : ~Publishes(todo, x) /\ ~Publishes(todo', x)
    BY <1>1, <2>4 DEF Publishes, At
  <2>9. Matched(disk', mem', todo')
    BY <1>1, <2>2, <2>5, <2>8 DEF UpStep, Matched
  <2>10. Worked(disk', todo')
    <3> SUFFICES ASSUME NEW j \in Idx, Behind(todo', j) PROVE disk'.dirty[k][j] = NoFile
      BY <2>4 DEF Worked, At
    <3>1. CASE j = i
      BY <2>5, <3>1
    <3>2. CASE Behind(todo, j)
      <4>1. disk.dirty[k][j] = NoFile
        BY <1>1, <2>2, <3>2 DEF UpStep, Worked, At, k
      <4> QED
        BY <2>4, <2>5, <4>1
    <3> QED
      BY <2>4, <3>1, <3>2
  <2>11. Claims(disk', mem', todo')
    <3>1. Claimed(mem', todo') \subseteq Claimed(mem, todo)
      BY <1>1, <2>4, <2>8 DEF Claimed, At
    <3> QED
      BY <2>2, <2>4, <2>6, <3>1 DEF UpStep, Claims, At
  <2> QED
    BY <2>1, <2>2, <2>4, <2>7, <2>9, <2>10, <2>11 DEF Leak, Rewritten, At, UpStep
<1>3. CASE Throw /\ disk' = disk
  BY <1>1, <1>3, LeakThrow, AlikeSame, TextsSame DEF SameValues, At
<1> QED
  BY <1>1, <1>2, <1>3 DEF Discard

\* DeleteClean keeps it.
LEMMA DeleteCleanLeak == ASSUME IInv, LeakInv, DeleteClean PROVE LeakInv'
<1> DEFINE k == Head(todo).key  i == Head(todo).idx
<1>1. Step("deleteClean") /\ todo # <<>> /\ Head(todo).do = "deleteClean" /\ disk \in Disks
  BY DEF DeleteClean, Step, IInv, TypeInv
<1>2. CASE disk' = [disk EXCEPT !.clean[k][i] = NoFile] /\ mem' = Resized(mem, k, i, 0) /\ Continue(<<>>) /\ Done
  <2>1. todo' = Tail(todo) /\ phase' = phase /\ leaky' = leaky
    BY <1>1, <1>2, Continues DEF Done
  <2> SUFFICES ASSUME ~leaky PROVE Leak(disk', mem', todo', phase')
    BY <2>1 DEF LeakInv
  <2>2. UpStep("deleteClean")
    BY <1>1, UpStepIs DEF UpOps
  <2>3. Advances(todo, todo')
    BY <1>1, <2>1, IndexNext DEF IdxOps
  <2>4. k \in Keys /\ i \in Idx /\ todo' # <<>> /\ Head(todo').key = k /\ Head(todo').do \in {"deleteClean", "removed"}
        /\ \A j \in Idx : Behind(todo', j) => Behind(todo, j) \/ j = i
    BY <1>1, <2>3 DEF Advances, AfterOps
  <2>5. /\ disk'.dirty = disk.dirty /\ disk'.journal = disk.journal /\ disk'.backup = disk.backup
        /\ \A x \in Keys, j \in Idx : disk'.clean[x][j] \in {disk.clean[x][j], NoFile}
        /\ disk'.clean[k][i] = NoFile
    BY <1>1, <1>2, <2>4 DEF Disks, Values
  <2>r. Resting(mem, k)
    BY <1>1 DEF IInv, Core, Ready, At
  <2>e. IsResized(mem, mem', k, i, 0)
    <3>1. Resizes(mem, mem', k, i, 0)
      BY <1>2, <2>4, <2>r DEF Resizes, Resting
    <3> QED
      BY <2>2, <3>1, ResizedIs DEF UpStep
  <2>o. Out(mem') = Out(mem)
    BY <1>2, <2>2 DEF Out, Resized, UpStep, Mems
  <2> HIDE DEF i
  <2>k. k = Head(todo).key
    OBVIOUS
  <2> HIDE DEF k
  <2>6. Texts(disk', mem') \subseteq Texts(disk, mem)
    BY <2>5, <2>o, TextsSame DEF Journal
  <2>7. \A s \in Texts(disk', mem') : Backed(Journaled(s), disk')
    BY <2>2, <2>5, <2>6 DEF UpStep, Backed, BackedAt
  <2>8. \A x : ~Publishes(todo, x) /\ ~Publishes(todo', x)
    BY <1>1, <2>4 DEF Publishes, At
  <2>m. \A x \in Keys : /\ EditingIn(mem', x) <=> EditingIn(mem, x)
                        /\ x # k => mem'.ent[x] = mem.ent[x]
    BY <2>e DEF IsResized, EditingKeys
  <2>9. Matched(disk', mem', todo')
    <3> SUFFICES ASSUME NEW x \in Keys, NEW j \in Idx
                 PROVE  /\ disk'.clean[x][j] # NoFile =>
                             /\ mem'.ent[x] # NoEntry /\ mem'.ent[x].len[j] = disk'.clean[x][j].len
                             /\ mem'.ent[x].readable \/ Publishes(todo', x)
                        /\ disk'.dirty[x][j] # NoFile => EditingIn(mem', x)
      BY DEF Matched
    <3>1. disk'.dirty[x][j] # NoFile => EditingIn(mem', x)
      BY <2>2, <2>5, <2>m DEF UpStep, Matched
    <3>2. ASSUME disk'.clean[x][j] # NoFile
          PROVE  mem'.ent[x] # NoEntry /\ mem'.ent[x].len[j] = disk'.clean[x][j].len /\ mem'.ent[x].readable
      <4>1. disk'.clean[x][j] = disk.clean[x][j] /\ disk.clean[x][j] # NoFile /\ <<x, j>> # <<k, i>>
        BY <2>5, <3>2
      <4>2. mem.ent[x] # NoEntry /\ mem.ent[x].len[j] = disk.clean[x][j].len /\ mem.ent[x].readable
        BY <2>2, <2>8, <4>1 DEF UpStep, Matched
      <4>3. CASE x # k
        BY <2>m, <4>1, <4>2, <4>3
      <4>4. CASE x = k
        <5>1. j # i /\ mem'.ent[k].len = [mem.ent[k].len EXCEPT ![i] = 0] /\ mem.ent[k].len \in [Idx -> Nat]
              /\ mem'.ent[k] # NoEntry /\ mem'.ent[k].readable = mem.ent[k].readable
          BY <2>e, <4>1, <4>4 DEF IsResized
        <5>2. mem'.ent[k].len[j] = mem.ent[k].len[j]
          BY <5>1
        <5> QED
          BY <4>1, <4>2, <4>4, <5>1, <5>2
      <4> QED
        BY <4>3, <4>4
    <3> QED
      BY <3>1, <3>2
  <2>10. Worked(disk', todo')
    <3> SUFFICES ASSUME NEW j \in Idx, Behind(todo', j) PROVE disk'.clean[k][j] = NoFile
      BY <2>4 DEF Worked, At
    <3>1. CASE j = i
      BY <2>5, <3>1
    <3>2. CASE Behind(todo, j)
      <4>1. disk.clean[k][j] = NoFile
        BY <1>1, <2>2, <2>k, <3>2 DEF UpStep, Worked, At
      <4> QED
        BY <2>4, <2>5, <4>1
    <3> QED
      BY <2>4, <3>1, <3>2
  <2>11. Claims(disk', mem', todo')
    <3>1. Claimed(mem', todo') \subseteq Claimed(mem, todo)
      <4> SUFFICES ASSUME NEW x \in Claimed(mem', todo') PROVE x \in Claimed(mem, todo)
        OBVIOUS
      <4>1. x \in Keys /\ EditingIn(mem', x) /\ mem'.ent[x].editor.held
        BY <2>4, <2>8 DEF Claimed, At
      <4>2. mem'.ent[x].editor = mem.ent[x].editor
        BY <2>e, <2>m, <4>1 DEF IsResized
      <4> QED
        BY <2>m, <4>1, <4>2 DEF Claimed
    <3> QED
      BY <2>2, <2>4, <2>6, <3>1 DEF UpStep, Claims, At
  <2> QED
    BY <2>1, <2>2, <2>4, <2>7, <2>9, <2>10, <2>11 DEF Leak, Rewritten, At, UpStep
<1>3. CASE Throw /\ disk' = disk /\ mem' = mem
  BY <1>1, <1>3, LeakThrow, AlikeSame, TextsSame DEF SameValues, At
<1> QED
  BY <1>2, <1>3 DEF DeleteClean

\* PublishStep keeps it, when renaming a file that is there does not fail: a
\* value is moved while the edit is marked.
LEMMA PublishLeak == ASSUME IInv, LeakInv, ~Fault("publish"), PublishStep PROVE LeakInv'
<1> DEFINE k == Head(todo).key  i == Head(todo).idx  c == disk.dirty[k][i]
<1>1. Step("publish") /\ todo # <<>> /\ Head(todo).do = "publish" /\ disk \in Disks /\ phase' = phase /\ leaky' = leaky
  BY DEF PublishStep, Step, IInv, TypeInv
<1>2. todo' = Tail(todo)
  BY <1>1, Continues DEF PublishStep
<1> SUFFICES ASSUME ~leaky PROVE Leak(disk', mem', todo', phase')
  BY <1>1 DEF LeakInv
<1>3. UpStep("publish")
  BY <1>1, UpStepIs DEF UpOps
<1>4. Advances(todo, todo')
  BY <1>1, <1>2, IndexNext DEF IdxOps
<1>5. k \in Keys /\ i \in Idx /\ todo' # <<>> /\ Head(todo').key = k /\ Head(todo').do \in {"publish", "complete"}
      /\ (Head(todo').do = "complete" => Head(todo').ok)
      /\ \A j \in Idx : Behind(todo', j) => Behind(todo, j) \/ j = i
  BY <1>1, <1>4 DEF Advances, AfterOps
<1>6. EditingIn(mem, k) /\ \A x : (Publishes(todo, x) <=> x = k) /\ (Publishes(todo', x) <=> x = k)
  BY <1>1, <1>5 DEF IInv, Core, Ready, At, Publishes
<1>7. k \in Claimed(mem, todo)
  BY <1>5, <1>6 DEF Claimed
<1>8. \/ c = NoFile /\ disk' = disk /\ mem' = mem
      \/ /\ c # NoFile /\ mem' = Resized(mem, k, i, c.len)
         /\ disk' = [disk EXCEPT !.clean[k][i] = c, !.dirty[k][i] = NoFile]
  BY DEF PublishStep
<1>9. /\ Out(mem') = Out(mem) /\ \A x \in Keys : EditingIn(mem', x) <=> EditingIn(mem, x)
      /\ \A x \in Keys : EditingIn(mem, x) => mem'.ent[x].editor = mem.ent[x].editor
      /\ \A x \in Keys : x # k => mem'.ent[x] = mem.ent[x]
      /\ mem'.ent[k] # NoEntry
      /\ \A j \in Idx : j # i => mem'.ent[k].len[j] = mem.ent[k].len[j]
      /\ mem' # mem => mem'.ent[k].len[i] = c.len
  <2>1. CASE mem' = mem
    BY <1>6, <2>1 DEF EditingIn
  <2>2. CASE c # NoFile /\ mem' = Resized(mem, k, i, c.len)
    <3> DEFINE v == c.len
    <3>1. v \in Nat
      <4>1. c \in Contents
        BY <1>1, <1>5, <2>2 DEF Disks, Values
      <4> QED
        BY <4>1, LimitAssumption DEF Contents
    <3>2. mem' = Resized(mem, k, i, v)
      BY <2>2
    <3>3. Out(mem') = Out(mem)
      BY <1>3, <3>2 DEF Out, Resized, UpStep, Mems
    <3>v. v = c.len
      OBVIOUS
    <3> HIDE DEF v, k, i, c
    <3>4. IsResized(mem, mem', k, i, v)
      <4>1. Resizes(mem, mem', k, i, v)
        BY <1>5, <1>6, <3>1, <3>2 DEF Resizes, EditingIn
      <4> QED
        BY <1>3, <4>1, ResizedIs DEF UpStep
    <3>5. \A x \in Keys : /\ EditingIn(mem', x) <=> EditingIn(mem, x)
                          /\ mem'.ent[x].editor = mem.ent[x].editor
                          /\ x # k => mem'.ent[x] = mem.ent[x]
      BY <3>4 DEF IsResized, EditingKeys
    <3>6. mem'.ent[k] # NoEntry /\ mem'.ent[k].len = [mem.ent[k].len EXCEPT ![i] = v] /\ mem.ent[k].len \in [Idx -> Nat]
      BY <3>4 DEF IsResized
    <3>7. mem'.ent[k].len[i] = v /\ \A j \in Idx : j # i => mem'.ent[k].len[j] = mem.ent[k].len[j]
      BY <1>5, <3>6
    <3> QED
      BY <3>3, <3>5, <3>6, <3>7, <3>v
  <2> QED
    BY <1>8, <2>1, <2>2
<1>10. /\ disk'.journal = disk.journal /\ disk'.backup = disk.backup
       /\ disk'.dirty[k][i] = NoFile /\ (disk' # disk => disk'.clean[k][i] = c /\ mem'.ent[k].len[i] = c.len)
       /\ \A x \in Keys, j \in Idx : /\ <<x, j>> # <<k, i>> => disk'.clean[x][j] = disk.clean[x][j]
                                     /\ disk'.dirty[x][j] \in {disk.dirty[x][j], NoFile}
  <2>1. CASE c = NoFile /\ disk' = disk
    BY <2>1
  <2>2. CASE c # NoFile /\ mem' = Resized(mem, k, i, c.len)
              /\ disk' = [disk EXCEPT !.clean[k][i] = c, !.dirty[k][i] = NoFile]
    <3>1. mem'.ent[k].len[i] = c.len
      <4>1. CASE mem' = mem
        <5>1. mem.ent[k].len[i] = c.len
          <6> DEFINE v == c.len
          <6>1. v \in Nat
            <7>1. c \in Contents
              BY <1>1, <1>5, <2>2 DEF Disks, Values
            <7> QED
              BY <7>1, LimitAssumption DEF Contents
          <6>2. Resizes(mem, mem', k, i, v)
            BY <1>5, <1>6, <2>2, <6>1 DEF Resizes, EditingIn
          <6>v. v = c.len
            OBVIOUS
          <6> HIDE DEF v, k, i, c
          <6>3. IsResized(mem, mem', k, i, v)
            BY <1>3, <6>2, ResizedIs DEF UpStep
          <6> QED
            BY <1>5, <4>1, <6>3, <6>v DEF IsResized
        <5> QED
          BY <4>1, <5>1
      <4>2. CASE mem' # mem
        BY <1>9, <4>2
      <4> QED
        BY <4>1, <4>2
    <3> DEFINE d == disk.clean  e == disk.dirty
    <3>2. d \in [Keys -> Values] /\ e \in [Keys -> Values] /\ d[k] \in Values /\ e[k] \in Values
      BY <1>1, <1>5 DEF Disks
    <3>3. disk'.clean = [d EXCEPT ![k][i] = c] /\ disk'.dirty = [e EXCEPT ![k][i] = NoFile]
          /\ disk'.journal = disk.journal /\ disk'.backup = disk.backup
      BY <1>1, <2>2 DEF Disks
    <3> HIDE DEF d, e, c
    <3>4. disk'.clean[k][i] = c /\ disk'.dirty[k][i] = NoFile
      BY <1>5, <3>2, <3>3 DEF Values
    <3>5. \A x \in Keys, j \in Idx : /\ <<x, j>> # <<k, i>> => disk'.clean[x][j] = d[x][j]
                                     /\ disk'.dirty[x][j] \in {e[x][j], NoFile}
      BY <1>5, <3>2, <3>3 DEF Values
    <3> QED
      BY <3>1, <3>3, <3>4, <3>5 DEF d, e
  <2> QED
    BY <1>8, <2>1, <2>2
<1>k. k = Head(todo).key
  OBVIOUS
<1> HIDE DEF k, i, c
<1>11. Texts(disk', mem') \subseteq Texts(disk, mem)
  BY <1>9, <1>10, TextsSame DEF Journal
<1>12. \A s \in Texts(disk', mem') : Backed(Journaled(s), disk')
  <2> SUFFICES ASSUME NEW s \in Texts(disk', mem'), NEW x \in Keys, NEW j \in Idx
               PROVE  BackedAt(Journaled(s), disk', x, j)
    BY DEF Backed
  <2>1. BackedAt(Journaled(s), disk, x, j) /\ Marked(Journaled(s), k)
    BY <1>3, <1>7, <1>11 DEF UpStep, Backed, Claims
  <2> DEFINE a == Journaled(s)
  <2> HIDE DEF a
  <2>2. CASE <<x, j>> = <<k, i>>
    BY <1>10, <2>1, <2>2 DEF BackedAt, Marked
  <2>3. CASE <<x, j>> # <<k, i>>
    BY <1>10, <2>1, <2>3 DEF BackedAt
  <2> QED
    BY <2>2, <2>3
<1>13. Matched(disk', mem', todo')
  <2> SUFFICES ASSUME NEW x \in Keys, NEW j \in Idx
               PROVE  /\ disk'.clean[x][j] # NoFile =>
                           /\ mem'.ent[x] # NoEntry /\ mem'.ent[x].len[j] = disk'.clean[x][j].len
                           /\ mem'.ent[x].readable \/ Publishes(todo', x)
                      /\ disk'.dirty[x][j] # NoFile => EditingIn(mem', x)
    BY DEF Matched
  <2>1. /\ disk.clean[x][j] # NoFile =>
             /\ mem.ent[x] # NoEntry /\ mem.ent[x].len[j] = disk.clean[x][j].len
             /\ mem.ent[x].readable \/ x = k
        /\ disk.dirty[x][j] # NoFile => EditingIn(mem, x)
    BY <1>3, <1>6 DEF UpStep, Matched
  <2>2. disk'.dirty[x][j] # NoFile => EditingIn(mem', x)
    BY <1>9, <1>10, <2>1
  <2>3. CASE x # k
    BY <1>6, <1>9, <1>10, <2>1, <2>2, <2>3
  <2>4. CASE x = k /\ j # i
    BY <1>6, <1>9, <1>10, <2>1, <2>2, <2>4
  <2>5. CASE x = k /\ j = i
    <3>1. ASSUME disk'.clean[k][i] # NoFile PROVE mem'.ent[k].len[i] = disk'.clean[k][i].len
      <4>1. CASE disk' # disk
        BY <1>10, <4>1
      <4>2. CASE disk' = disk
        <5>1. c = NoFile
          BY <1>10, <4>2 DEF c
        <5>2. mem' = mem
          BY <1>8, <5>1
        <5> QED
          BY <2>1, <2>5, <3>1, <4>2, <5>2
      <4> QED
        BY <4>1, <4>2
    <3> QED
      BY <1>6, <1>9, <2>2, <2>5, <3>1
  <2> QED
    BY <2>3, <2>4, <2>5
<1>14. Worked(disk', todo')
  <2> SUFFICES ASSUME NEW j \in Idx, Behind(todo', j) PROVE disk'.dirty[k][j] = NoFile
    BY <1>5 DEF Worked, At
  <2>1. CASE j = i
    BY <1>10, <2>1
  <2>2. CASE Behind(todo, j)
    <3>1. disk.dirty[k][j] = NoFile
      BY <1>1, <1>3, <1>k, <2>2 DEF UpStep, Worked, At
    <3> QED
      BY <1>5, <1>10, <3>1
  <2> QED
    BY <1>5, <2>1, <2>2
<1>15. Claims(disk', mem', todo')
  <2>1. Claimed(mem', todo') \subseteq Claimed(mem, todo)
    <3> SUFFICES ASSUME NEW x \in Claimed(mem', todo') PROVE x \in Claimed(mem, todo)
      OBVIOUS
    <3>1. x = k \/ (x \in Keys /\ EditingIn(mem', x) /\ mem'.ent[x].editor.held)
      BY <1>5, <1>6 DEF Claimed, At
    <3> QED
      BY <1>7, <1>9, <3>1 DEF Claimed
  <2> QED
    BY <1>3, <1>5, <1>11, <2>1 DEF UpStep, Claims, At
<1> QED
  BY <1>1, <1>3, <1>5, <1>12, <1>13, <1>14, <1>15 DEF Leak, Rewritten, At, UpStep

\* Removed keeps it: the files are gone.
LEMMA RemovedLeak == ASSUME IInv, LeakInv, Removed PROVE LeakInv'
<1> DEFINE k == Head(todo).key
           m == [mem EXCEPT !.redundant = @ + 1]
           r == Line("REMOVE", k)
           n == [m EXCEPT !.out = Append(@, r), !.lru = Without(@, k), !.ent[k] = NoEntry]
<1>1. Step("removed") /\ todo # <<>> /\ Head(todo).do = "removed" /\ disk' = disk /\ mem \in Mems /\ disk \in Disks
  BY DEF Removed, Step, IInv, TypeInv
<1>2. m.ent = mem.ent /\ m.out = mem.out /\ m.writer = mem.writer
  BY <1>1 DEF Mems
<1>3. CASE mem.writer = "open" /\ mem' = n /\ Continue(<<>>) /\ Done
  <2>1. todo' = Tail(todo) /\ phase' = phase /\ leaky' = leaky
    BY <1>1, <1>3, Continues DEF Done
  <2> SUFFICES ASSUME ~leaky PROVE Leak(disk', mem', todo', phase')
    BY <2>1 DEF LeakInv
  <2>2. UpStep("removed")
    BY <1>1, UpStepIs DEF UpOps
  <2>3. k \in Keys /\ phase = "up" /\ disk.journal # NoFile
    BY <1>1, <1>3, <2>2 DEF UpStep, StepRec, PlainOps, IdxOps, IInv, Files
  <2>4. Resting(mem, k)
    BY <1>1 DEF IInv, Core, Ready, At
  <2>5. mem'.writer = "open" /\ mem'.out = Append(mem.out, r) /\ mem'.ent = [mem.ent EXCEPT ![k] = NoEntry]
    <3>1. mem'.writer = m.writer /\ mem'.out = Append(m.out, r) /\ mem'.ent = [m.ent EXCEPT ![k] = NoEntry]
      BY <1>1, <1>3 DEF Mems
    <3> QED
      BY <1>2, <1>3, <3>1
  <2>6. mem'.ent[k] = NoEntry /\ \A x \in Keys : x # k => mem'.ent[x] = mem.ent[x]
    BY <1>1, <2>3, <2>5 DEF Mems
  <2>7. r \in Lines /\ r.key = k /\ r.state = "REMOVE"
    BY <2>3 DEF Line, Lines
  <2>8. \A i \in Idx : NoValue(disk, k, i)
    <3> SUFFICES ASSUME NEW i \in Idx PROVE NoValue(disk, k, i)
      OBVIOUS
    <3>1. disk.clean[k][i] = NoFile
      BY <1>1, <2>2 DEF UpStep, Worked, Behind, At, IdxOps
    <3>2. disk.dirty[k][i] = NoFile
      BY <2>2, <2>3, <2>4 DEF UpStep, Matched, EditingIn, Resting
    <3> QED
      BY <3>1, <3>2 DEF NoValue
  <2>9. todo' # <<>> => Head(todo').do = "trim"
    BY <1>1, <2>1, NextIs DEF OpenEnds, Follows
  <2>k. k = Head(todo).key
    OBVIOUS
  <2> HIDE DEF k, m, n, r
  <2>10. Lined(disk, mem, disk', mem', r)
    BY <1>1, <1>3, <2>3, <2>5, <2>7, LineIs
  <2>11. \A s \in Texts(disk', mem') : Backed(Journaled(s), disk')
    <3>1. \A i \in Idx : BackedAt(Journaled(Full(disk', mem')), disk, r.key, i)
      BY <2>7, <2>8 DEF BackedAt, NoValue
    <3> QED
      BY <1>1, <2>2, <2>10, <3>1, LineBacked DEF UpStep, SameValues
  <2>12. Matched(disk', mem', todo')
    <3> SUFFICES ASSUME NEW x \in Keys, NEW j \in Idx
                 PROVE  /\ disk.clean[x][j] # NoFile =>
                             /\ mem'.ent[x] # NoEntry /\ mem'.ent[x].len[j] = disk.clean[x][j].len
                             /\ mem'.ent[x].readable \/ Publishes(todo', x)
                        /\ disk.dirty[x][j] # NoFile => EditingIn(mem', x)
      BY <1>1 DEF Matched
    <3>1. CASE x = k
      BY <2>8, <3>1 DEF NoValue
    <3>2. CASE x # k
      BY <1>1, <2>2, <2>6, <3>2 DEF UpStep, Matched, EditingIn, Publishes, At
    <3> QED
      BY <3>1, <3>2
  <2>13. Claims(disk', mem', todo')
    <3> SUFFICES ASSUME NEW x \in Claimed(mem', todo') PROVE \A s \in Texts(disk', mem') : Marked(Journaled(s), x)
      BY <2>9 DEF Claims, At
    <3>1. x \in Keys /\ EditingIn(mem', x) /\ mem'.ent[x].editor.held
      BY <2>9 DEF Claimed, Publishes, At
    <3>2. x # k /\ x \in Claimed(mem, todo)
      BY <2>6, <3>1 DEF Claimed, EditingIn
    <3>3. \A s \in Texts(disk, mem) : Marked(Journaled(s), x)
      BY <2>2, <3>2 DEF UpStep, Claims
    <3> QED
      BY <2>7, <2>10, <3>1, <3>2, <3>3, LineMarked
  <2> QED
    BY <2>1, <2>3, <2>9, <2>11, <2>12, <2>13 DEF Leak, Rewritten, Worked, At
<1>4. CASE mem.writer # "open" /\ mem' = m /\ Throw
  <2>1. mem'.ent = mem.ent /\ Out(mem') = Out(mem)
    BY <1>2, <1>4 DEF Out
  <2> QED
    BY <1>1, <1>4, <2>1, LeakThrow, AlikeSame, TextsSame DEF SameValues, At
<1> QED
  BY <1>3, <1>4 DEF Removed

\* What Complete does to the entry.
Completed(m, n, k, st) ==
    /\ n.writer = m.writer /\ \A x \in Keys : x # k => n.ent[x] = m.ent[x]
    /\ IF st THEN /\ n.ent[k] # NoEntry /\ n.ent[k].editor = NoEditor
                  /\ n.ent[k].readable /\ n.ent[k].len = m.ent[k].len
             ELSE n.ent[k] = NoEntry

\* And the line it writes.
CompletedLine(m, n, k, st, l) ==
    /\ l \in Lines /\ l.key = k /\ n.out = Append(m.out, l)
    /\ l.state = (IF st THEN "CLEAN" ELSE "REMOVE")
    /\ st => l.len = m.ent[k].len

\* And the number it gives.
CompletedNumber(m, n, k, ok) ==
    /\ n.base = m.base
    /\ IF ok THEN n.ent[k].seq = m.nextSeq /\ n.nextSeq = m.nextSeq + 1
             ELSE n.nextSeq = m.nextSeq /\ (m.ent[k].readable => n.ent[k].seq = m.ent[k].seq)

\* Complete does this: it writes the line, or the writer is closed and it throws.
LEMMA CompletedIs ==
  ASSUME IInv, Complete
  PROVE  LET k == Head(todo).key
             st == mem.ent[k].readable \/ Head(todo).ok
         IN  /\ Completed(mem, mem', k, st)
             /\ \/ /\ mem.writer = "open" /\ Continue(<<>>) /\ Done /\ \E l : CompletedLine(mem, mem', k, st, l)
                   /\ CompletedNumber(mem, mem', k, Head(todo).ok)
                \/ mem.writer # "open" /\ Throw
<1> DEFINE k == Head(todo).key  ok == Head(todo).ok  e == mem.ent[k]
           stays == e.readable \/ ok
           f == [e EXCEPT !.editor = NoEditor, !.readable = TRUE]
           m == [mem EXCEPT !.redundant = @ + 1,
                   !.lru = IF stays THEN @ ELSE Without(@, k),
                   !.ent[k] = IF stays THEN [@ EXCEPT !.editor = NoEditor, !.readable = TRUE]
                                       ELSE NoEntry]
           n == IF ok THEN Numbered(m, k) ELSE m
           l == IF stays THEN CleanLine(k, m.ent[k]) ELSE Line("REMOVE", k)
<1>1. Step("complete")
  BY DEF Complete
<1>2. /\ Head(todo).do = "complete" /\ Head(todo) \in StepRec /\ Core(mem, todo, phase) /\ mem \in Mems /\ todo # <<>>
  BY <1>1, WorkStep DEF WorkOps
<1>3. k \in Keys /\ ok \in BOOLEAN
  BY <1>2 DEF StepRec, PlainOps, IdxOps, KeyOps
<1>4. e \in Entries /\ e # NoEntry
  <2>1. EditingIn(mem, k)
    BY <1>2 DEF Core, Ready, At
  <2> QED
    BY <1>2, <1>3, <2>1 DEF Mems, EditingIn
<1>5. f \in Entries /\ f.editor = NoEditor /\ f.readable /\ f.len = e.len /\ f # NoEntry /\ f.len \in [Idx -> Nat]
      /\ f.seq = e.seq
  <2>1. f \in Entries
    BY <1>4 DEF Entries
  <2> QED
    BY <1>4, <2>1, NullAssumption DEF Entries
<1> DEFINE g == IF stays THEN f ELSE NoEntry
<1>6. m.writer = mem.writer /\ m.out = mem.out /\ m.ent = [mem.ent EXCEPT ![k] = g] /\ m.ent[k] = g
      /\ m.nextSeq = mem.nextSeq /\ m.base = mem.base
  BY <1>2, <1>3 DEF Mems
<1>7. \A x \in Keys : x # k => m.ent[x] = mem.ent[x]
  BY <1>2, <1>3, <1>6 DEF Mems
<1> HIDE DEF f, m
<1>8. Completed(mem, m, k, stays)
  BY <1>5, <1>6, <1>7 DEF Completed
<1>9. l \in Lines /\ l.key = k /\ l.state = (IF stays THEN "CLEAN" ELSE "REMOVE") /\ (stays => l.len = e.len)
  <2>1. CASE stays
    <3>1. l = CleanLine(k, f)
      BY <1>6, <2>1
    <3> HIDE DEF k, e, l
    <3> QED
      BY <1>3, <1>5, <2>1, <3>1 DEF CleanLine, Lines
  <2>2. CASE ~stays
    <3> HIDE DEF e, k
    <3> QED
      BY <1>3, <2>2 DEF Line, Lines
  <2> QED
    BY <2>1, <2>2
<1> HIDE DEF l
<1>10. CASE mem.writer # "open" /\ mem' = m /\ Throw
  BY <1>8, <1>10
<1>11. CASE mem.writer = "open" /\ mem' = [n EXCEPT !.out = Append(@, l)] /\ Continue(<<>>) /\ Done
  <2>m. m \in [base : Nat, lru : Seq(Keys), ent : [Keys -> Entries \cup {NoEntry}], size : Int,
               maxSize : Nat \ {0}, redundant : Nat, nextSeq : Nat,
               writer : {"none", "open", "broken"}, out : Seq(Lines), version : Versions]
    <3>1. g \in Entries \cup {NoEntry} /\ m.ent \in [Keys -> Entries \cup {NoEntry}]
      <4>1. g \in Entries \cup {NoEntry}
        BY <1>5
      <4> HIDE DEF g
      <4> QED
        BY <1>2, <1>3, <1>6, <4>1 DEF Mems
    <3> DEFINE p == mem.redundant + 1  w == IF stays THEN mem.lru ELSE Without(mem.lru, k)  h == m.ent
    <3>2. p \in Nat /\ w \in Seq(Keys)
      <4>1. mem.redundant \in Nat /\ mem.lru \in Seq(Keys) /\ Distinct(mem.lru)
        BY <1>2 DEF Mems, Core, Listed
      <4>2. Without(mem.lru, k) \in Seq(Keys)
        BY <4>1, WithoutIs
      <4> QED
        BY <4>1, <4>2
    <3>3. m = [mem EXCEPT !.redundant = p, !.lru = w, !.ent = h]
      BY <1>2, <1>3 DEF Mems, m
    <3>4. h \in [Keys -> Entries \cup {NoEntry}]
      BY <3>1
    <3> HIDE DEF p, w, h
    <3> QED
      BY <1>2, <3>2, <3>3, <3>4 DEF Mems
  <2>1. CASE ok
    <3> DEFINE fs == [f EXCEPT !.seq = m.nextSeq]
    <3>1. fs \in Entries /\ fs.editor = NoEditor /\ fs.readable /\ fs.len = e.len /\ fs.seq = m.nextSeq
      <4>1. m.nextSeq \in Nat
        BY <1>2, <1>6 DEF Mems
      <4> QED
        BY <1>5, <4>1 DEF Entries
    <3>2. m.ent[k] = f
      BY <1>6, <2>1
    <3>3. n = [m EXCEPT !.ent[k].seq = m.nextSeq, !.nextSeq = @ + 1]
      BY <2>1 DEF Numbered
    <3>4. mem'.writer = m.writer /\ mem'.out = Append(m.out, l) /\ mem'.ent = [m.ent EXCEPT ![k] = [@ EXCEPT !.seq = m.nextSeq]]
          /\ mem'.base = m.base /\ mem'.nextSeq = m.nextSeq + 1
      <4> HIDE DEF n
      <4>1. n.writer = m.writer /\ n.out = m.out /\ n.ent = [m.ent EXCEPT ![k] = [@ EXCEPT !.seq = m.nextSeq]]
            /\ n.base = m.base /\ n.nextSeq = m.nextSeq + 1
        BY <2>m, <3>3
      <4>2. mem'.writer = n.writer /\ mem'.out = Append(n.out, l) /\ mem'.ent = n.ent
            /\ mem'.base = n.base /\ mem'.nextSeq = n.nextSeq
        BY <1>11, <2>m, <3>3
      <4> QED
        BY <4>1, <4>2
    <3>5. mem'.ent[k] = fs /\ \A x \in Keys : x # k => mem'.ent[x] = m.ent[x]
      BY <1>3, <2>m, <3>2, <3>4
    <3>6. fs # NoEntry
      BY <3>1, NullAssumption
    <3> HIDE DEF fs, n
    <3>7. Completed(mem, mem', k, stays) /\ CompletedLine(mem, mem', k, stays, l)
      BY <1>6, <1>7, <1>9, <2>1, <3>1, <3>4, <3>5, <3>6 DEF Completed, CompletedLine
    <3>8. CompletedNumber(mem, mem', k, ok)
      BY <1>6, <2>1, <3>1, <3>4, <3>5 DEF CompletedNumber
    <3> QED
      BY <1>11, <3>7, <3>8
  <2>2. CASE ~ok
    <3>1. mem' = [m EXCEPT !.out = Append(@, l)]
      BY <1>11, <2>2
    <3>2. mem'.writer = m.writer /\ mem'.out = Append(m.out, l) /\ mem'.ent = m.ent
          /\ mem'.base = m.base /\ mem'.nextSeq = m.nextSeq
      BY <2>m, <3>1
    <3>3. Completed(mem, mem', k, stays) /\ CompletedLine(mem, mem', k, stays, l)
      BY <1>6, <1>8, <1>9, <3>2 DEF Completed, CompletedLine
    <3>4. CompletedNumber(mem, mem', k, ok)
      BY <1>5, <1>6, <2>2, <3>2 DEF CompletedNumber
    <3> QED
      BY <1>11, <3>3, <3>4
  <2> QED
    BY <1>3, <2>1, <2>2
<1> QED
  BY <1>10, <1>11 DEF Complete, m, l, n

\* Complete keeps it: what a line says of the entry is what the files are.
LEMMA CompleteLeak == ASSUME IInv, LeakInv, Complete PROVE LeakInv'
<1> DEFINE k == Head(todo).key  st == mem.ent[k].readable \/ Head(todo).ok
<1>1. Step("complete") /\ todo # <<>> /\ Head(todo).do = "complete" /\ disk' = disk /\ mem \in Mems /\ disk \in Disks
  BY DEF Complete, Step, IInv, TypeInv
<1>2. /\ Completed(mem, mem', k, st)
      /\ \/ mem.writer = "open" /\ Continue(<<>>) /\ Done /\ \E l : CompletedLine(mem, mem', k, st, l)
         \/ mem.writer # "open" /\ Throw
  BY CompletedIs
<1>3. CASE leaky
  <2>1. leaky' = TRUE
    BY <1>2, <1>3 DEF Throw, Done
  <2> QED
    BY <2>1 DEF LeakInv
<1>4. CASE ~leaky
  <2>1. UpStep("complete")
    BY <1>1, <1>4, UpStepIs DEF UpOps
  <2>2. k \in Keys /\ phase = "up" /\ Head(todo).ok \in BOOLEAN /\ Final(todo) # "give" /\ Head(todo) \in StepRec
    <3>1. Head(todo) \in StepRec /\ Head(todo).do = "complete" /\ phase = "up" /\ "complete" \in StepsOf(Final(todo))
      BY <2>1 DEF UpStep
    <3>2. Final(todo) # "give"
      BY <3>1 DEF StepsOf
    <3> QED
      BY <3>1, <3>2 DEF StepRec, PlainOps, KeyOps, IdxOps
  <2>3. \A i \in Idx : /\ disk.dirty[k][i] = NoFile
                       /\ disk.clean[k][i] # NoFile => st /\ mem.ent[k].len[i] = disk.clean[k][i].len
    <3> SUFFICES ASSUME NEW i \in Idx
                 PROVE  /\ disk.dirty[k][i] = NoFile
                        /\ disk.clean[k][i] # NoFile => st /\ mem.ent[k].len[i] = disk.clean[k][i].len
      OBVIOUS
    <3>1. disk.dirty[k][i] = NoFile
      BY <1>1, <2>1 DEF UpStep, Worked, Behind, At, IdxOps
    <3>2. Publishes(todo, k) => Head(todo).ok
      BY <1>1 DEF Publishes
    <3> QED
      BY <2>1, <2>2, <3>1, <3>2 DEF UpStep, Matched
  <2>4. \A x \in Keys : EditingIn(mem', x) => x # k /\ EditingIn(mem, x) /\ mem'.ent[x] = mem.ent[x]
    BY <1>2, <2>2 DEF Completed, EditingIn
  <2>5. \A x : Publishes(todo, x) => x = k
    BY DEF Publishes
  <2>6. ASSUME NEW u, ~At(u, {"give", "publish", "complete"})
        PROVE  Matched(disk', mem', u) /\ Claimed(mem', u) \subseteq Claimed(mem, todo)
               /\ \A x \in Claimed(mem', u) : x \in Keys /\ x # k
    <3>1. Matched(disk', mem', u)
      <4> SUFFICES ASSUME NEW x \in Keys, NEW j \in Idx
                   PROVE  /\ disk.clean[x][j] # NoFile =>
                               /\ mem'.ent[x] # NoEntry /\ mem'.ent[x].len[j] = disk.clean[x][j].len
                               /\ mem'.ent[x].readable \/ Publishes(u, x)
                          /\ disk.dirty[x][j] # NoFile => EditingIn(mem', x)
        BY <1>1 DEF Matched
      <4>1. CASE x = k
        <5> HIDE DEF k, st
        <5> QED
          BY <1>2, <2>3, <4>1 DEF Completed
      <4>2. CASE x # k
        <5>1. mem'.ent[x] = mem.ent[x] /\ ~Publishes(todo, x)
          BY <1>2, <2>5, <4>2 DEF Completed
        <5> QED
          BY <2>1, <5>1 DEF UpStep, Matched, EditingIn
      <4> QED
        BY <4>1, <4>2
    <3>2. \A x \in Claimed(mem', u) : x \in Keys /\ EditingIn(mem', x) /\ mem'.ent[x].editor.held
      BY <2>6 DEF Claimed, At, Publishes
    <3> HIDE DEF k
    <3>3. \A x \in Claimed(mem', u) : x \in Keys /\ x # k /\ EditingIn(mem, x) /\ mem.ent[x].editor.held
      BY <2>4, <3>2
    <3>4. Claimed(mem', u) \subseteq Claimed(mem, todo)
      BY <3>3 DEF Claimed
    <3> QED
      BY <3>1, <3>3, <3>4
  <2>7. CASE mem.writer = "open" /\ Continue(<<>>) /\ Done /\ \E l : CompletedLine(mem, mem', k, st, l)
    <3>1. todo' = Tail(todo) /\ phase' = phase /\ leaky' = leaky
      BY <1>1, <2>7, Continues DEF Done
    <3>2. todo' # <<>> => Head(todo').do = "flush" /\ Final(todo') # "give"
      BY <1>1, <2>2, <3>1, NextIs DEF OpenEnds, Follows, Popped
    <3>3. PICK l : CompletedLine(mem, mem', k, st, l)
      BY <2>7
    <3>4. disk.journal # NoFile /\ mem'.writer = "open" /\ mem.writer = "open"
      BY <1>2, <2>2, <2>7 DEF Completed, IInv, Files
    <3>k. k = Head(todo).key
      OBVIOUS
    <3> HIDE DEF k, st
    <3>5. Lined(disk, mem, disk', mem', l) /\ l \in Lines /\ l.key = k
      <4>1. l \in Lines /\ mem'.out = Append(mem.out, l) /\ l.key = k /\ disk'.journal = disk.journal
        BY <1>1, <3>3 DEF CompletedLine
      <4> QED
        BY <1>1, <3>4, <4>1, LineIs
    <3>6. \A i \in Idx : BackedAt(Journaled(Full(disk', mem')), disk, l.key, i)
      <4> DEFINE e == Journaled(Full(disk, mem))[k]  f == Journaled(Full(disk', mem'))[k]
      <4>1. e \in Entries \cup {NoEntry} /\ f = LineEntry(e, l)
        BY <3>5 DEF Lined, Ents
      <4>2. st => f # NoEntry /\ f.editor = NoEditor /\ f.readable /\ f.len = mem.ent[k].len
        <5> SUFFICES ASSUME st PROVE f # NoEntry /\ f.editor = NoEditor /\ f.readable /\ f.len = mem.ent[k].len
          OBVIOUS
        <5>1. l.state = "CLEAN" /\ l.len = mem.ent[k].len
          BY <3>3 DEF CompletedLine
        <5>2. f # NoEntry
          BY <3>5, <4>1, <5>1, LineEntryType
        <5>3. EntryOf(e) \in Entries
          BY <4>1, EntryType DEF EntryOf
        <5> HIDE DEF e, f
        <5>4. f = [EntryOf(e) EXCEPT !.readable = TRUE, !.editor = NoEditor, !.len = l.len]
          BY <4>1, <5>1 DEF LineEntry
        <5> QED
          BY <5>1, <5>2, <5>3, <5>4 DEF Entries
      <4> HIDE DEF e
      <4> QED
        BY <2>3, <3>5, <4>2 DEF BackedAt
    <3>7. \A s \in Texts(disk', mem') : Backed(Journaled(s), disk')
      BY <1>1, <2>1, <3>5, <3>6, LineBacked DEF UpStep, SameValues
    <3>8. /\ Matched(disk', mem', todo') /\ Claimed(mem', todo') \subseteq Claimed(mem, todo)
          /\ \A x \in Claimed(mem', todo') : x \in Keys /\ x # k
      BY <2>6, <3>2 DEF At
    <3>9. Claims(disk', mem', todo')
      <4> SUFFICES ASSUME NEW x \in Claimed(mem', todo') PROVE \A s \in Texts(disk', mem') : Marked(Journaled(s), x)
        BY <3>2 DEF Claims, At
      <4>1. x \in Keys /\ x # l.key /\ \A s \in Texts(disk, mem) : Marked(Journaled(s), x)
        BY <2>1, <3>5, <3>8 DEF UpStep, Claims
      <4> QED
        BY <3>5, <4>1, LineMarked
    <3>10. Leak(disk', mem', todo', phase')
      BY <2>2, <3>1, <3>2, <3>7, <3>8, <3>9 DEF Leak, Rewritten, Worked, At
    <3> QED
      BY <3>10 DEF LeakInv
  <2>8. CASE mem.writer # "open" /\ Throw
    <3>1. todo' = <<>> /\ phase' \in {"up", "down"}
      BY <2>2, <2>8 DEF Throw
    <3>2. Out(mem') = <<>> /\ Texts(disk', mem') \subseteq Texts(disk, mem)
      <4>1. Out(mem') = <<>>
        BY <1>2, <2>8 DEF Out, Completed
      <4> QED
        BY <1>1, <4>1, TextsDry
    <3>3. Matched(disk', mem', todo') /\ Claimed(mem', todo') \subseteq Claimed(mem, todo)
      BY <2>6, <3>1 DEF At
    <3>4. Claims(disk', mem', todo')
      BY <2>1, <3>1, <3>2, <3>3 DEF UpStep, Claims, At
    <3>5. \A s \in Texts(disk', mem') : Backed(Journaled(s), disk')
      BY <1>1, <2>1, <3>2 DEF UpStep
    <3>6. Leak(disk', mem', todo', phase')
      BY <3>1, <3>3, <3>4, <3>5 DEF Leak, Rewritten, Worked, At
    <3> QED
      BY <3>6 DEF LeakInv
  <2> QED
    BY <1>2, <2>7, <2>8
<1> QED
  BY <1>3, <1>4 DEF IInv, TypeInv

\* UseBackup keeps it: the journal that is read is the same, and has no backup.
LEMMA UseBackupLeak == ASSUME IInv, LeakInv, UseBackup PROVE LeakInv'
<1>1. Step("useBackup") /\ todo # <<>> /\ Head(todo).do = "useBackup" /\ mem' = mem /\ disk \in Disks
  BY DEF UseBackup, Step, IInv, TypeInv
<1>2. CASE /\ disk' = IF disk.backup = NoFile THEN disk
                      ELSE [disk EXCEPT !.backup = NoFile,
                              !.journal = IF @ = NoFile THEN disk.backup ELSE @]
           /\ Continue(<<>>) /\ Done
  <2>1. todo' = Tail(todo) /\ phase' = phase /\ leaky' = leaky
    BY <1>1, <1>2, Continues DEF Done
  <2> SUFFICES ASSUME ~leaky PROVE Leak(disk', mem', todo', phase')
    BY <2>1 DEF LeakInv
  <2>2. SameValues(disk, disk') /\ disk'.backup = NoFile /\ Journal(disk') = Journal(disk)
    BY <1>1, <1>2 DEF Disks, SameValues, Journal
  <2>3. Texts(disk', mem') \subseteq Texts(disk, mem)
    BY <1>1, <2>2, TextsSame
  <2>4. Final(todo) = "load" /\ phase = "opening"
    <3>1. "useBackup" \in StepsOf(Final(todo)) /\ Final(todo) \in OpenEnds \cup UpEnds
          /\ phase = (IF Final(todo) \in OpenEnds THEN "opening" ELSE "up")
      BY <1>1, StepIs
    <3> QED
      BY <3>1 DEF StepsOf, OpenEnds, UpEnds, Rebuild, Drops, Closes, Aborts, Removes
  <2>5. todo' # <<>> /\ Head(todo').do = "load" /\ Final(todo') = "load"
    BY <1>1, <2>1, <2>4, NextIs DEF OpenEnds, Popped, Follows
  <2> QED
    BY <2>1, <2>2, <2>3, <2>4, <2>5 DEF LeakInv, Leak, Emptied, Rewritten, Backed, BackedAt, SameValues, At
<1>3. CASE Throw /\ disk' = disk
  BY <1>1, <1>3, LeakThrow, AlikeSame, TextsSame DEF SameValues, At
<1> QED
  BY <1>1, <1>2, <1>3 DEF UseBackup

\* While entries are gathered, the values of the others stay as they are.
GathersAt(k) ==
    /\ phase' = "opening" /\ todo' # <<>> /\ Final(todo') = "opened" /\ Head(todo').do \in Drops \cup {"opened"}
    /\ At(todo', {"unlink", "dropEntry"}) => Head(todo').key = k
    /\ \A x \in Keys : x # k => mem'.ent[x] = mem.ent[x]
    /\ \A x \in Keys, j \in Idx : /\ disk'.clean[x][j] \in {disk.clean[x][j], NoFile}
                                  /\ disk'.dirty[x][j] \in {disk.dirty[x][j], NoFile}
    /\ \A j \in Idx : IF At(todo', {"unlink", "dropEntry"})
                      THEN Behind(todo', j) => NoValue(disk', k, j)
                      ELSE BackedAt(mem'.ent, disk', k, j)
    /\ Texts(disk', mem') \subseteq Texts(disk, mem)

\* A step of processJournal on one entry keeps it: the others are as they were.
LEMMA GatherLeak ==
  ASSUME LeakInv, ~leaky, phase = "opening", Final(todo) = "opened", NEW k \in Keys, GathersAt(k),
         At(todo, {"unlink", "dropEntry"}) => Head(todo).key = k
  PROVE  Leak(disk', mem', todo', phase')
<1>1. Gathered(disk, mem, todo) /\ \A s \in Texts(disk, mem) : Backed(Journaled(s), disk)
  BY DEF LeakInv, Leak
<1>2. \A s \in Texts(disk', mem') : Backed(Journaled(s), disk')
  BY <1>1 DEF GathersAt, Backed, BackedAt
<1>3. Gathered(disk', mem', todo')
  <2> SUFFICES ASSUME NEW x \in Keys, NEW j \in Idx
               PROVE  IF At(todo', {"unlink", "dropEntry"}) /\ Head(todo').key = x
                      THEN Behind(todo', j) => NoValue(disk', x, j)
                      ELSE BackedAt(mem'.ent, disk', x, j)
    BY DEF Gathered
  <2>1. CASE x = k
    BY <2>1 DEF GathersAt
  <2>2. CASE x # k
    <3>1. BackedAt(mem.ent, disk, x, j)
      BY <1>1, <2>2 DEF Gathered
    <3>2. BackedAt(mem'.ent, disk', x, j)
      BY <2>2, <3>1 DEF BackedAt, GathersAt, Marked
    <3> QED
      BY <2>2, <3>2 DEF GathersAt
  <2> QED
    BY <2>1, <2>2
<1>4. Emptied(disk', todo') /\ Rewritten(disk', mem', todo', phase') /\ ~At(todo', {"load"}) /\ phase' = "opening"
  BY DEF GathersAt, Emptied, Rewritten, At, Drops
<1> QED
  BY <1>2, <1>3, <1>4 DEF Leak

\* Collect keeps it.
LEMMA CollectLeak == ASSUME IInv, LeakInv, Collect PROVE LeakInv'
<1> DEFINE k == Head(todo).key
<1>1. Step("collect") /\ disk' = disk /\ leaky' = leaky /\ phase' = phase /\ disk \in Disks
  BY DEF Collect, Quiet, IInv, TypeInv
<1>2. /\ todo # <<>> /\ Head(todo).do = "collect" /\ Head(todo) \in StepRec /\ phase = "opening"
      /\ Final(todo) = "opened" /\ mem \in Mems
  BY <1>1, GatherStep DEF GatherOps, Drops, Sound
<1>3. k \in Keys
  BY <1>2 DEF StepRec, PlainOps, IdxOps
<1>4. CASE ~Editing(k)
  <2>1. mem' = [mem EXCEPT !.size = @ + Total(mem.ent[k])] /\ Continue(<<>>)
    BY <1>4 DEF Collect
  <2>2. todo' = Tail(todo)
    BY <1>2, <2>1, Continues
  <2>3. mem'.ent = mem.ent /\ Out(mem') = Out(mem)
    BY <1>2, <2>1 DEF Mems, Out
  <2> QED
    BY <1>1, <1>2, <2>2, <2>3, LeakGoes, AlikeSame, TextsSame DEF LightOps, SameValues
<1>5. CASE Editing(k)
  <2> DEFINE p == PerIndex("unlink", k) \o DoKey("dropEntry", k)
  <2>1. mem' = [mem EXCEPT !.ent[k].editor = NoEditor] /\ todo' = p \o Tail(todo)
    BY <1>5 DEF Collect, Continue
  <2> SUFFICES ASSUME ~leaky PROVE Leak(disk', mem', todo', phase')
    BY <1>1 DEF LeakInv
  <2>2. Prog(p, Drops) /\ p[1] = [do |-> "unlink", key |-> k, idx |-> 0]
    BY <1>3, DropProgramIs
  <2> HIDE DEF p
  <2>3. Tail(todo) # <<>> /\ Tail(todo) \in Seq(StepRec) /\ Final(Tail(todo)) = "opened"
    BY <1>2, NextIs, Continues DEF OpenEnds, Popped
  <2>4. todo' # <<>> /\ Head(todo') = p[1] /\ Final(todo') = "opened"
    BY <2>1, <2>2, <2>3, FrontIs DEF Prog
  <2>5. Out(mem') = Out(mem) /\ \A x \in Keys : x # k => mem'.ent[x] = mem.ent[x]
    BY <1>2, <1>3, <2>1 DEF Mems, Out
  <2>6. Texts(disk', mem') \subseteq Texts(disk, mem)
    BY <1>1, <2>5, TextsSame
  <2> HIDE DEF k
  <2>7. At(todo', {"unlink", "dropEntry"}) /\ Head(todo').key = k /\ \A j \in Idx : ~Behind(todo', j)
    BY <2>2, <2>4, IdxFacts DEF At, Behind, IdxOps
  <2>8. GathersAt(k)
    BY <1>1, <1>2, <2>2, <2>4, <2>5, <2>6, <2>7 DEF GathersAt, Drops
  <2>9. ~At(todo, {"unlink", "dropEntry"})
    BY <1>2 DEF At
  <2> QED
    BY <1>2, <1>3, <2>8, <2>9, GatherLeak
<1> QED
  BY <1>4, <1>5

\* Unlink keeps it.
LEMMA UnlinkLeak == ASSUME IInv, LeakInv, Unlink PROVE LeakInv'
<1> DEFINE k == Head(todo).key  i == Head(todo).idx
<1>1. Step("unlink") /\ mem' = mem /\ disk \in Disks
  BY DEF Unlink, IInv, TypeInv
<1>2. /\ todo # <<>> /\ Head(todo).do = "unlink" /\ Head(todo) \in StepRec /\ phase = "opening"
      /\ Final(todo) = "opened"
  BY <1>1, GatherStep DEF GatherOps, Drops
<1>3. CASE disk' = [disk EXCEPT !.clean[k][i] = NoFile, !.dirty[k][i] = NoFile] /\ Continue(<<>>) /\ Done
  <2>1. todo' = Tail(todo) /\ phase' = phase /\ leaky' = leaky
    BY <1>2, <1>3, Continues DEF Done
  <2> SUFFICES ASSUME ~leaky PROVE Leak(disk', mem', todo', phase')
    BY <2>1 DEF LeakInv
  <2>2. Advances(todo, todo')
    BY <1>2, <2>1, IndexNext DEF IdxOps
  <2>3. k \in Keys /\ i \in Idx /\ todo' # <<>> /\ Head(todo').key = k /\ Head(todo').do \in {"unlink", "dropEntry"}
        /\ \A j \in Idx : Behind(todo', j) => Behind(todo, j) \/ j = i
    BY <1>2, <2>2 DEF Advances, AfterOps
  <2>4. Final(todo') = "opened"
    BY <1>2, <2>1, <2>3, NextIs DEF OpenEnds, Popped
  <2>5. /\ disk'.journal = disk.journal /\ disk'.backup = disk.backup
        /\ \A x \in Keys, j \in Idx : /\ disk'.clean[x][j] \in {disk.clean[x][j], NoFile}
                                      /\ disk'.dirty[x][j] \in {disk.dirty[x][j], NoFile}
        /\ disk'.clean[k][i] = NoFile /\ disk'.dirty[k][i] = NoFile
    BY <1>1, <1>3, <2>3 DEF Disks, Values
  <2>k. k = Head(todo).key
    OBVIOUS
  <2> HIDE DEF k, i
  <2>6. Texts(disk', mem') \subseteq Texts(disk, mem)
    BY <1>1, <2>5, TextsSame DEF Journal
  <2>7. \A j \in Idx : Behind(todo', j) => NoValue(disk', k, j)
    <3> SUFFICES ASSUME NEW j \in Idx, Behind(todo', j) PROVE NoValue(disk', k, j)
      OBVIOUS
    <3>1. CASE j = i
      BY <2>5, <3>1 DEF NoValue
    <3>2. CASE Behind(todo, j)
      <4>1. NoValue(disk, k, j)
        BY <1>2, <2>3, <2>k, <3>2 DEF LeakInv, Leak, Gathered, At
      <4> QED
        BY <2>3, <2>5, <4>1 DEF NoValue
    <3> QED
      BY <2>3, <3>1, <3>2
  <2>8. GathersAt(k)
    BY <1>1, <1>2, <2>1, <2>3, <2>4, <2>5, <2>6, <2>7 DEF GathersAt, Drops, At
  <2> QED
    BY <1>2, <2>3, <2>8, <2>k, GatherLeak
<1>4. CASE Throw /\ disk' = disk
  BY <1>1, <1>2, <1>4, LeakThrow, AlikeSame, TextsSame DEF SameValues, At
<1> QED
  BY <1>1, <1>3, <1>4 DEF Unlink

\* DropEntry keeps it: the files are gone.
LEMMA DropEntryLeak == ASSUME IInv, LeakInv, DropEntry PROVE LeakInv'
<1> DEFINE k == Head(todo).key
<1>1. /\ Step("dropEntry") /\ disk' = disk /\ leaky' = leaky /\ phase' = phase
      /\ mem' = [mem EXCEPT !.lru = Without(@, k), !.ent[k] = NoEntry] /\ Continue(<<>>)
  BY DEF DropEntry, Quiet
<1>2. /\ todo # <<>> /\ Head(todo).do = "dropEntry" /\ Head(todo) \in StepRec /\ phase = "opening"
      /\ Final(todo) = "opened" /\ mem \in Mems
  BY <1>1, GatherStep DEF GatherOps, Drops, Sound
<1>3. k \in Keys
  BY <1>2 DEF StepRec, PlainOps, IdxOps
<1>4. todo' = Tail(todo)
  BY <1>1, <1>2, Continues
<1> SUFFICES ASSUME ~leaky PROVE Leak(disk', mem', todo', phase')
  BY <1>1 DEF LeakInv
<1>5. todo' # <<>> /\ Head(todo').do \in {"collect", "opened"} /\ Final(todo') = "opened"
  BY <1>2, <1>4, NextIs DEF OpenEnds, Popped, Follows
<1>6. Out(mem') = Out(mem) /\ mem'.ent[k] = NoEntry /\ \A x \in Keys : x # k => mem'.ent[x] = mem.ent[x]
  BY <1>1, <1>2, <1>3 DEF Mems, Out
<1>7. Texts(disk', mem') \subseteq Texts(disk, mem)
  BY <1>1, <1>6, TextsSame
<1>8. \A j \in Idx : NoValue(disk, k, j)
  BY <1>2, <1>3 DEF LeakInv, Leak, Gathered, At, Behind, IdxOps
<1>k. k = Head(todo).key
  OBVIOUS
<1> HIDE DEF k
<1>9. \A j \in Idx : BackedAt(mem'.ent, disk', k, j)
  BY <1>1, <1>8 DEF BackedAt, NoValue
<1>10. GathersAt(k)
  BY <1>1, <1>2, <1>5, <1>6, <1>7, <1>9 DEF GathersAt, Drops, At
<1> QED
  BY <1>2, <1>3, <1>10, <1>k, GatherLeak

\* Opened keeps it: nothing is edited, and the files are those of the entries.
LEMMA OpenedLeak == ASSUME IInv, LeakInv, Opened PROVE LeakInv'
<1>1. /\ Step("opened") /\ Continue(<<>>) /\ disk' = disk /\ mem' = mem /\ phase' = "up" /\ leaky' = leaky
  BY DEF Opened
<1> SUFFICES ASSUME ~leaky PROVE Leak(disk', mem', todo', phase')
  BY <1>1 DEF LeakInv
<1>2. todo # <<>> /\ Head(todo).do = "opened" /\ phase # "down" /\ phase = (IF Final(todo) \in OpenEnds THEN "opening" ELSE "up")
  BY <1>1, StepIs
<1>3. Tail(todo) = <<>> /\ Final(todo) = "opened" /\ DOMAIN todo = {1} /\ todo[1] = Head(todo)
  BY <1>2, LastStep
<1>4. phase = "opening" /\ todo' = <<>>
  BY <1>1, <1>2, <1>3, Continues DEF OpenEnds
<1>5. Pend(mem, todo) = {}
  BY <1>2, <1>3 DEF Pend, At, Reloads, Rebuild, CollectKeys, Unlinked, Gathers
<1>6. \A x \in Keys : ~EditingIn(mem, x)
  BY <1>3, <1>4, <1>5 DEF IInv, Core, Sized, Uncounted, EditingKeys
<1>7. \A x \in Keys, j \in Idx : BackedAt(mem.ent, disk, x, j)
  BY <1>2, <1>3, <1>4 DEF LeakInv, Leak, Gathered, At
<1>8. Matched(disk', mem', todo')
  BY <1>1, <1>6, <1>7 DEF Matched, BackedAt, EditingIn, Marked
<1>9. Claims(disk', mem', todo') /\ Worked(disk', todo')
  BY <1>1, <1>4, <1>6 DEF Claims, Claimed, At, Publishes, Worked
<1> QED
  BY <1>1, <1>4, <1>8, <1>9 DEF LeakInv, Leak, Rewritten, At

\* Without values there is little to show.
Calmly(m, t, ph) ==
    /\ ph = "opening" /\ Final(t) = "fresh" => At(t, {"wipe", "fresh"})
    /\ ph = "up" /\ ~At(t, {"down"}) => Claimed(m, t) = {}
    /\ ~At(t, WorkOps \cup {"flush", "backup", "install", "load"})

\* A directory without values keeps it, whatever is in memory.
LEMMA EmptyLeak ==
  ASSUME NEW d, NEW m, NEW t, NEW ph, NoValues(d), Calmly(m, t, ph)
  PROVE  Leak(d, m, t, ph)
<1>1. \A e : Backed(e, d)
  BY DEF Backed, BackedAt, NoValues, NoValue
<1>2. ASSUME ph = "opening" PROVE Emptied(d, t) /\ Gathered(d, m, t)
  BY <1>1, <1>2 DEF Emptied, Gathered, NoValues, Calmly, Backed
<1>3. ASSUME ph = "up" PROVE Matched(d, m, t) /\ (~At(t, {"down"}) => Claims(d, m, t))
  BY <1>3 DEF Matched, NoValues, NoValue, Claims, Calmly, At
<1>4. Worked(d, t)
  BY DEF Worked, Calmly, At, WorkOps
<1> QED
  BY <1>1, <1>2, <1>3, <1>4 DEF Leak, Rewritten, Calmly, At

\* A new journal is written by this.
LEMMA CreateProgramIs ==
  LET p == RebuildProgram \o Do("created")
  IN  p \in Seq(StepRec) /\ p # <<>> /\ Head(p).do = "closeWriter" /\ Final(p) = "created" /\ p \o <<>> = p
<1> DEFINE a == RebuildProgram  b == Do("created")
<1>1. Prog(a, Rebuild) /\ a[1] = [do |-> "closeWriter"]
  BY RebuildProgramIs
<1>2. Prog(b, {"created"}) /\ Final(b) = "created"
  BY DoIs DEF PlainOps
<1> HIDE DEF a, b
<1>3. a \o b # <<>> /\ Head(a \o b) = a[1] /\ Final(a \o b) = Final(b) /\ a \o b \in Seq(StepRec)
  BY <1>1, <1>2, FrontIs DEF Prog
<1> DEFINE p == a \o b
<1>4. p \o <<>> = p
  <2> HIDE DEF p
  <2> QED
    BY <1>3 DEF p
<1> QED
  BY <1>1, <1>2, <1>3, <1>4 DEF a, b

\* Fresh and Created keep it: the directory is empty.
LEMMA FreshLeak == ASSUME IInv, LeakInv, Fresh PROVE LeakInv'
<1> DEFINE p == RebuildProgram \o Do("created")
<1>1. Step("fresh") /\ Continue(p) /\ disk' = disk /\ leaky' = leaky /\ phase' = phase
  BY DEF Fresh, Quiet
<1> SUFFICES ASSUME ~leaky PROVE Leak(disk', mem', todo', phase')
  BY <1>1 DEF LeakInv
<1>2. /\ todo # <<>> /\ Head(todo).do = "fresh" /\ phase # "down"
      /\ phase = (IF Final(todo) \in OpenEnds THEN "opening" ELSE "up")
  BY <1>1, StepIs
<1>3. Tail(todo) = <<>> /\ Final(todo) = "fresh" /\ phase = "opening"
  BY <1>2, LastStep DEF OpenEnds
<1>4. todo' = p /\ p # <<>> /\ Head(p).do = "closeWriter" /\ Final(p) = "created"
  BY <1>1, <1>3, CreateProgramIs DEF Continue
<1> HIDE DEF p
<1>5. NoValues(disk)
  BY <1>2, <1>3 DEF LeakInv, Leak, Emptied, At
<1>6. Calmly(mem', todo', phase')
  BY <1>1, <1>3, <1>4 DEF Calmly, At, WorkOps
<1> QED
  BY <1>1, <1>5, <1>6, EmptyLeak

\* The journal of a new directory is in place.
LEMMA CreatedLeak == ASSUME IInv, LeakInv, Created PROVE LeakInv'
<1>1. /\ Step("created") /\ Continue(<<>>) /\ disk' = disk /\ mem' = mem /\ phase' = "up" /\ leaky' = leaky
  BY DEF Created
<1> SUFFICES ASSUME ~leaky PROVE Leak(disk', mem', todo', phase')
  BY <1>1 DEF LeakInv
<1>2. todo # <<>> /\ Head(todo).do = "created" /\ phase # "down" /\ phase = (IF Final(todo) \in OpenEnds THEN "opening" ELSE "up")
  BY <1>1, StepIs
<1>3. Tail(todo) = <<>> /\ Final(todo) = "created"
  BY <1>2, LastStep
<1>4. phase = "opening" /\ todo' = <<>>
  BY <1>1, <1>2, <1>3, Continues DEF OpenEnds
<1>5. NoValues(disk)
  BY <1>2, <1>3, <1>4 DEF LeakInv, Leak, Emptied, At
<1>6. \A x \in Keys : mem.ent[x] = NoEntry
  BY <1>3, <1>4, NoList DEF IInv, Core, Sized
<1>7. Calmly(mem', todo', phase')
  BY <1>1, <1>4, <1>6 DEF Calmly, At, Claimed, EditingIn, Publishes
<1> QED
  BY <1>1, <1>5, <1>7, EmptyLeak

\* Wipe keeps it: what it leaves is an empty directory.
LEMMA WipeLeak == ASSUME IInv, LeakInv, Wipe PROVE LeakInv'
<1>1. Step("wipe") /\ mem' = mem /\ todo # <<>> /\ Head(todo).do = "wipe"
  BY DEF Wipe, Step
<1>2. CASE /\ ValueFiles(disk) \cup JournalFiles(disk) = {}
           /\ leaky' = FALSE /\ Continue(<<>>) /\ UNCHANGED <<disk, phase>>
  <2>1. todo' = Tail(todo) /\ phase' = phase /\ disk' = disk
    BY <1>1, <1>2, Continues
  <2>2. NoValues(disk)
    <3> SUFFICES ASSUME NEW x \in Keys, NEW i \in Idx PROVE NoValue(disk, x, i)
      BY DEF NoValues
    <3>1. <<x, i>> \notin ValueFiles(disk)
      BY <1>2
    <3> QED
      BY <3>1 DEF ValueFiles, NoValue
  <2>3. /\ Running(todo, phase) /\ "wipe" \in StepsOf(Final(todo)) /\ Final(todo) \in OpenEnds \cup UpEnds
        /\ phase = (IF Final(todo) \in OpenEnds THEN "opening" ELSE "up")
    BY <1>1, StepIs
  <2>4. todo' # <<>>
    BY <1>1, <2>1, <2>3, NotLast DEF OpenEnds, UpEnds
  <2>5. Head(todo').do \in {"fresh", "down"} /\ Head(todo').do \in StepsOf(Final(todo)) /\ Final(todo') = Final(todo)
    BY <1>1, <2>1, <2>4, NextIs DEF OpenEnds, Popped, Follows
  <2>6. Final(todo) \in {"fresh", "down"}
    BY <2>3 DEF StepsOf, Rebuild, Drops, Removes, Aborts, OpenEnds, UpEnds
  <2>7. phase = "opening" => Final(todo) = "fresh" /\ Head(todo').do = "fresh"
    BY <2>3, <2>5, <2>6 DEF StepsOf, OpenEnds, Closes, Removes, Aborts
  <2>8. phase = "up" => Head(todo').do = "down"
    BY <2>3, <2>5, <2>6 DEF StepsOf, OpenEnds, Closes, Removes, Aborts
  <2>9. Calmly(mem', todo', phase')
    BY <2>1, <2>4, <2>5, <2>7, <2>8 DEF Calmly, At, WorkOps
  <2> QED
    BY <2>1, <2>2, <2>9, EmptyLeak DEF LeakInv
<1>3. CASE leaky' = TRUE
  BY <1>3 DEF LeakInv
<1>4. CASE Throw /\ disk' = disk
  BY <1>1, <1>4, LeakThrow, AlikeSame, TextsSame DEF SameValues, At
<1> QED
  BY <1>2, <1>3, <1>4 DEF Wipe

\* Load keeps it: the entries are those the journal has, and it has all of the files.
LEMMA LoadLeak == ASSUME IInv, LeakInv, Load PROVE LeakInv'
<1>1. Step("load") /\ disk' = disk /\ leaky' = leaky /\ phase' = phase /\ mem \in Mems /\ disk \in Disks
  BY DEF Load, Quiet, IInv, TypeInv
<1> SUFFICES ASSUME ~leaky PROVE Leak(disk', mem', todo', phase')
  BY <1>1 DEF LeakInv
<1>2. /\ todo # <<>> /\ Head(todo).do = "load" /\ phase # "down"
      /\ phase = (IF Final(todo) \in OpenEnds THEN "opening" ELSE "up")
  BY <1>1, StepIs
<1>3. Tail(todo) = <<>> /\ Final(todo) = "load" /\ phase = "opening"
  BY <1>2, LastStep DEF OpenEnds
<1>4. mem.lru = <<>> /\ Sound(mem)
  BY <1>2, <1>3, CoreSound DEF IInv, Core, Sized, At
<1>5. mem \in Empties
  <2>1. \A x \in Keys : mem.ent[x] = NoEntry
    BY <1>1, <1>4, NoList DEF Sound
  <2>2. mem.ent = NoEntries
    BY <1>1, <2>1 DEF Mems, NoEntries
  <2> QED
    BY <1>1, <1>4, <2>2 DEF Empties
<1>6. mem.writer # "open" /\ Out(mem) = <<>>
  BY <1>2 DEF IInv, Files, At, Writerless, Out
<1>7. disk.backup = NoFile /\ \A s \in Texts(disk, mem) : Backed(Journaled(s), disk)
  BY <1>2 DEF LeakInv, Leak, At
<1>8. Texts(disk, mem) = {Full(disk, mem)} /\ Full(disk, mem) = IF Journal(disk) = NoFile THEN <<>> ELSE Journal(disk).lines
  BY <1>1, <1>6, TextsDry
<1>9. CASE disk.journal = NoFile
  <2> DEFINE p == Do("fresh")
  <2>1. mem' = mem /\ Continue(p)
    BY <1>9 DEF Load
  <2>2. Prog(p, {"fresh"}) /\ p[1] = [do |-> "fresh"] /\ Final(p) = "fresh"
    BY DoIs DEF PlainOps
  <2> HIDE DEF p
  <2>3. todo' = p
    BY <1>3, <2>1, <2>2, AloneIs DEF Continue
  <2>4. todo' # <<>> /\ Head(todo').do = "fresh"
    BY <2>2, <2>3 DEF Prog
  <2>5. NoValues(disk)
    <3>1. Backed(Journaled(<<>>), disk)
      BY <1>7, <1>8, <1>9 DEF Journal
    <3>2. Journaled(<<>>) = NoEntries
      BY <1>1, JournaledNone DEF Mems
    <3> QED
      BY <3>1, <3>2 DEF Backed, BackedAt, NoEntries, Marked, NoValues, NoValue
  <2>6. Calmly(mem', todo', phase')
    BY <1>1, <1>3, <2>4 DEF Calmly, At, WorkOps
  <2> QED
    BY <1>1, <2>5, <2>6, EmptyLeak
<1>10. CASE disk.journal # NoFile /\ disk.journal.version # mem.version
  <2> DEFINE p == Do("wipe") \o Do("fresh")
  <2>1. mem' = mem /\ Continue(p)
    BY <1>10 DEF Load
  <2>2. Prog(p, Closes \cup {"fresh"}) /\ p[1] = [do |-> "wipe"] /\ Final(p) = "fresh"
    BY WipeFresh
  <2> HIDE DEF p
  <2>3. todo' = p
    BY <1>3, <2>1, <2>2, AloneIs DEF Continue
  <2>4. todo' # <<>> /\ Head(todo').do = "wipe" /\ Final(todo') = "fresh"
    BY <2>2, <2>3 DEF Prog
  <2> QED
    BY <1>1, <1>3, <1>7, <2>1, <2>4 DEF Leak, Emptied, Rewritten, At
<1>11. CASE disk.journal # NoFile /\ disk.journal.version = mem.version
  <2> DEFINE p == LoadProgram(disk.journal.torn)  s == disk.journal.lines
  <2>1. mem' = ReadJournal(mem, s) /\ Continue(p)
    BY <1>11 DEF Load, LoadProgram
  <2>2. disk.journal.torn \in BOOLEAN /\ s \in Seq(Lines)
    BY <1>11 DEF IInv, TypeInv, Disks, Journals
  <2>3. Prog(p, LoadOps) /\ p[1].do \in {"closeWriter", "reopen"} /\ Final(p) = "opened"
    BY <2>2, LoadProgramIs
  <2>s. Texts(disk, mem) = {s}
    BY <1>8, <1>11 DEF Journal
  <2> HIDE DEF p, s
  <2>4. mem'.ent = Journaled(s) /\ mem'.writer = mem.writer
    <3>1. mem'.ent = ReplayAll(mem, s).ent /\ mem'.writer = mem.writer
      BY <1>4, <2>1, <2>2, ReadIs
    <3> QED
      BY <1>5, <2>2, <3>1, ReadSame
  <2>5. todo' = p
    BY <1>3, <2>1, <2>3, AloneIs DEF Continue
  <2>6. todo' # <<>> /\ Head(todo').do \in {"closeWriter", "reopen"} /\ Final(todo') = "opened"
    BY <2>3, <2>5 DEF Prog
  <2>7. Out(mem') = Out(mem)
    BY <1>6, <2>4 DEF Out
  <2>8. Texts(disk', mem') \subseteq Texts(disk, mem)
    BY <1>1, <2>7, TextsSame
  <2>9. Backed(mem'.ent, disk)
    BY <1>7, <2>s, <2>4
  <2>10. Gathered(disk', mem', todo')
    BY <1>1, <2>6, <2>9 DEF Gathered, Backed, At
  <2> QED
    BY <1>1, <1>3, <1>7, <2>6, <2>8, <2>10 DEF Leak, Emptied, Rewritten, At
<1> QED
  BY <1>9, <1>10, <1>11

\* A step of rebuildJournal that leaves values and memory alone.
Rebuilds ==
    /\ todo # <<>> /\ Head(todo).do \in {"writeTmp", "backup", "install"} /\ todo' = Tail(todo)
    /\ phase' = phase /\ mem' = mem /\ SameValues(disk, disk')
    /\ \A s \in Texts(disk', mem) : Backed(Journaled(s), disk)
    /\ phase = "up" => \A k \in Claimed(mem, todo), s \in Texts(disk', mem) : Marked(Journaled(s), k)
    /\ At(todo, {"writeTmp", "backup"}) =>
         /\ Backed(Journaled(disk'.tmp.lines), disk)
         /\ phase = "up" => \A k \in Claimed(mem, todo) : Marked(Journaled(disk'.tmp.lines), k)

\* Each step of rebuildJournal keeps it: the journals it moves hold the same facts.
LEMMA RebuildLeak ==
  ASSUME IInv, LeakInv, ~leaky, Rebuilds
  PROVE  Leak(disk', mem', todo', phase')
<1>1. Leak(disk, mem, todo, phase) /\ phase' = phase /\ mem' = mem /\ todo # <<>>
      /\ Head(todo).do \in {"writeTmp", "backup", "install"} /\ todo' = Tail(todo) /\ SameValues(disk, disk')
  BY DEF LeakInv, Rebuilds
<1>2. /\ phase = "opening" => todo' # <<>>
      /\ todo' # <<>> => /\ Final(todo') = Final(todo) /\ Head(todo').do \in {"backup", "install", "reopen"}
                         /\ Head(todo').do = "reopen" <=> Head(todo).do = "install"
  BY <1>1, NextIs DEF OpenEnds, Popped, Follows
<1>3. \A s \in Texts(disk', mem') : Backed(Journaled(s), disk')
  BY <1>1 DEF Rebuilds, Backed, BackedAt, SameValues
<1>4. phase = "opening" => Emptied(disk', todo') /\ (Final(todo') = "opened" => Gathered(disk', mem', todo'))
  <2> SUFFICES ASSUME phase = "opening" PROVE Emptied(disk', todo') /\ (Final(todo') = "opened" => Gathered(disk', mem', todo'))
    OBVIOUS
  <2>1. Emptied(disk, todo) /\ (Final(todo) = "opened" => Gathered(disk, mem, todo))
    BY <1>1 DEF Leak
  <2>2. Emptied(disk', todo')
    BY <1>1, <1>2, <2>1 DEF Emptied, At, NoValues, NoValue, SameValues
  <2>3. Final(todo') = "opened" => Gathered(disk', mem', todo')
    BY <1>1, <1>2, <2>1 DEF Gathered, At, BackedAt, SameValues
  <2> QED
    BY <2>2, <2>3
<1>5. Claimed(mem', todo') \subseteq Claimed(mem, todo)
  BY <1>1, <1>2 DEF Claimed, At, Publishes
<1>6. phase = "up" => Matched(disk', mem', todo') /\ Worked(disk', todo') /\ Claims(disk', mem', todo')
  <2> SUFFICES ASSUME phase = "up" PROVE Matched(disk', mem', todo') /\ Worked(disk', todo') /\ Claims(disk', mem', todo')
    OBVIOUS
  <2>1. Matched(disk', mem', todo')
    BY <1>1, <1>2 DEF Leak, Matched, SameValues, Publishes, At
  <2>2. Worked(disk', todo')
    BY <1>2 DEF Worked, At
  <2>3. Claims(disk', mem', todo')
    BY <1>1, <1>2, <1>5 DEF Rebuilds, Claims, At
  <2> QED
    BY <2>1, <2>2, <2>3
<1>7. Rewritten(disk', mem', todo', phase')
  <2> SUFFICES ASSUME At(todo', {"backup", "install"})
               PROVE  /\ Backed(Journaled(disk'.tmp.lines), disk')
                      /\ phase = "up" => \A k \in Claimed(mem', todo') : Marked(Journaled(disk'.tmp.lines), k)
    BY <1>1 DEF Rewritten
  <2>1. At(todo, {"writeTmp", "backup"})
    BY <1>1, <1>2 DEF At
  <2> QED
    BY <1>1, <1>5, <2>1 DEF Rebuilds, Backed, BackedAt, SameValues
<1> QED
  BY <1>1, <1>2, <1>3, <1>4, <1>6, <1>7 DEF Leak, At

\* What the files of an open cache, or of one that is read, say of its entries.
LEMMA RebuiltBacked ==
  ASSUME NEW m, NEW d, NEW e, Rebuilt(m, e), \A x \in Keys, j \in Idx : BackedAt(m.ent, d, x, j)
  PROVE  Backed(e, d)
<1> SUFFICES ASSUME NEW x \in Keys, NEW j \in Idx PROVE BackedAt(e, d, x, j)
  BY DEF Backed
<1>1. BackedAt(m.ent, d, x, j)
  OBVIOUS
<1>2. /\ EditingIn(m, x) => Marked(e, x)
      /\ Resting(m, x) => e[x] # NoEntry /\ e[x].editor = NoEditor /\ e[x].readable /\ e[x].len = m.ent[x].len
  BY DEF Rebuilt
<1>3. CASE EditingIn(m, x)
  BY <1>1, <1>2, <1>3 DEF BackedAt, Marked, EditingIn
<1>4. CASE ~EditingIn(m, x)
  BY <1>1, <1>2, <1>4 DEF BackedAt, Marked, EditingIn, Resting
<1> QED
  BY <1>3, <1>4

\* WriteTmp keeps it: the new journal has an entry for every file, and the edits.
LEMMA WriteTmpLeak == ASSUME IInv, LeakInv, WriteTmp PROVE LeakInv'
<1>1. Step("writeTmp") /\ todo # <<>> /\ Head(todo).do = "writeTmp" /\ mem' = mem /\ disk \in Disks /\ mem \in Mems
  BY DEF WriteTmp, Step, IInv, TypeInv
<1>2. CASE /\ disk' = [disk EXCEPT !.tmp = [version |-> mem.version, lines |-> Compacted, torn |-> FALSE]]
           /\ Continue(<<>>) /\ Done
  <2>1. todo' = Tail(todo) /\ phase' = phase /\ leaky' = leaky
    BY <1>1, <1>2, Continues DEF Done
  <2> SUFFICES ASSUME ~leaky PROVE Leak(disk', mem', todo', phase')
    BY <2>1 DEF LeakInv
  <2>2. SameValues(disk, disk') /\ Journal(disk') = Journal(disk) /\ disk'.tmp.lines = Compacted
    BY <1>1, <1>2 DEF Disks, SameValues, Journal
  <2>3. Texts(disk', mem) \subseteq Texts(disk, mem)
    BY <2>2, TextsSame
  <2>4. Rebuilt(mem, Journaled(Compacted))
    BY <1>1, CompactedIs DEF IInv, Core
  <2>5. Leak(disk, mem, todo, phase)
    BY DEF LeakInv
  <2>6. "writeTmp" \in StepsOf(Final(todo)) /\ phase # "down" /\ phase = (IF Final(todo) \in OpenEnds THEN "opening" ELSE "up")
        /\ Final(todo) \in OpenEnds \cup UpEnds
    BY <1>1, StepIs
  <2>7. ASSUME NEW x \in Keys, NEW j \in Idx PROVE BackedAt(mem.ent, disk, x, j)
    <3>1. CASE phase = "up"
      <4>1. Matched(disk, mem, todo) /\ ~Publishes(todo, x)
        BY <1>1, <2>5, <3>1 DEF Leak, Publishes, At
      <4> QED
        BY <4>1 DEF Matched, BackedAt, Marked, EditingIn
    <3>2. CASE Final(todo) = "opened" /\ phase = "opening"
      BY <1>1, <2>5, <3>2 DEF Leak, Gathered, At
    <3>3. CASE Final(todo) = "created" /\ phase = "opening"
      BY <1>1, <2>5, <3>3 DEF Leak, Emptied, NoValues, NoValue, BackedAt, At
    <3>4. phase = "opening" => Final(todo) \in {"opened", "created"}
      BY <2>6 DEF StepsOf, OpenEnds, Closes, Removes, Aborts
    <3> QED
      BY <2>6, <3>1, <3>2, <3>3, <3>4 DEF OpenEnds
  <2>8. Backed(Journaled(Compacted), disk)
    BY <2>4, <2>7, RebuiltBacked
  <2>9. phase = "up" => \A k \in Claimed(mem, todo) : Marked(Journaled(Compacted), k)
    <3>1. \A k \in Claimed(mem, todo) : k \in Keys /\ EditingIn(mem, k)
      BY <1>1 DEF Claimed, At, Publishes
    <3> QED
      BY <2>4, <3>1 DEF Rebuilt
  <2>10. Rebuilds
    <3>1. \A s \in Texts(disk', mem) : Backed(Journaled(s), disk)
      BY <2>3, <2>5 DEF Leak
    <3>2. phase = "up" => \A k \in Claimed(mem, todo), s \in Texts(disk', mem) : Marked(Journaled(s), k)
      BY <1>1, <2>3, <2>5 DEF Leak, Claims, At
    <3> QED
      BY <1>1, <2>1, <2>2, <2>8, <2>9, <3>1, <3>2 DEF Rebuilds
  <2> QED
    BY <2>10, RebuildLeak
<1>3. CASE Throw /\ disk' = disk
  BY <1>1, <1>3, LeakThrow, AlikeSame, TextsSame DEF SameValues, At
<1> QED
  BY <1>1, <1>2, <1>3 DEF WriteTmp

\* Backup keeps it: the backup is the journal until there is a new one.
LEMMA BackupLeak == ASSUME IInv, LeakInv, Backup PROVE LeakInv'
<1>1. Step("backup") /\ todo # <<>> /\ Head(todo).do = "backup" /\ mem' = mem /\ disk \in Disks
  BY DEF Backup, Step, IInv, TypeInv
<1>2. CASE /\ disk' = IF disk.journal = NoFile THEN disk ELSE JournalKept(disk)
           /\ Continue(<<>>) /\ Done
  <2>1. todo' = Tail(todo) /\ phase' = phase /\ leaky' = leaky
    BY <1>1, <1>2, Continues DEF Done
  <2> SUFFICES ASSUME ~leaky PROVE Leak(disk', mem', todo', phase')
    BY <2>1 DEF LeakInv
  <2>2. SameValues(disk, disk') /\ Journal(disk') = Journal(disk) /\ disk'.tmp = disk.tmp
    BY <1>1, <1>2 DEF Disks, SameValues, Journal, JournalKept
  <2>3. Texts(disk', mem) \subseteq Texts(disk, mem)
    BY <2>2, TextsSame
  <2>4. Leak(disk, mem, todo, phase)
    BY DEF LeakInv
  <2>5. Rebuilds
    <3>1. \A s \in Texts(disk', mem) : Backed(Journaled(s), disk)
      BY <2>3, <2>4 DEF Leak
    <3>2. phase = "up" => \A k \in Claimed(mem, todo), s \in Texts(disk', mem) : Marked(Journaled(s), k)
      BY <1>1, <2>3, <2>4 DEF Leak, Claims, At
    <3>3. /\ Backed(Journaled(disk'.tmp.lines), disk)
          /\ phase = "up" => \A k \in Claimed(mem, todo) : Marked(Journaled(disk'.tmp.lines), k)
      BY <1>1, <2>2, <2>4 DEF Leak, Rewritten, At
    <3> QED
      BY <1>1, <2>1, <2>2, <3>1, <3>2, <3>3 DEF Rebuilds
  <2> QED
    BY <2>5, RebuildLeak
<1>3. CASE Throw /\ disk' = disk
  BY <1>1, <1>3, LeakThrow, AlikeSame, TextsSame DEF SameValues, At
<1> QED
  BY <1>1, <1>2, <1>3 DEF Backup

\* Install keeps it.
LEMMA InstallLeak == ASSUME IInv, LeakInv, Install PROVE LeakInv'
<1>1. /\ Step("install") /\ todo # <<>> /\ Head(todo).do = "install" /\ mem' = mem /\ disk \in Disks /\ mem \in Mems
      /\ mem.writer # "open" /\ disk.tmp # NoFile
  BY DEF Install, Step, IInv, TypeInv, Files, At, Writerless
<1>2. CASE disk' = [disk EXCEPT !.journal = disk.tmp, !.tmp = NoFile] /\ Continue(<<>>) /\ Done
  <2>1. todo' = Tail(todo) /\ phase' = phase /\ leaky' = leaky
    BY <1>1, <1>2, Continues DEF Done
  <2> SUFFICES ASSUME ~leaky PROVE Leak(disk', mem', todo', phase')
    BY <2>1 DEF LeakInv
  <2>2. SameValues(disk, disk') /\ disk'.journal = disk.tmp /\ Journal(disk') = disk.tmp
    BY <1>1, <1>2 DEF Disks, SameValues, Journal
  <2>3. disk' \in Disks
    BY <1>1, <1>2 DEF Disks
  <2>4. Out(mem) = <<>>
    BY <1>1 DEF Out
  <2>5. Texts(disk', mem) = {disk.tmp.lines}
    <3>1. Texts(disk', mem) = {Full(disk', mem)} /\ Full(disk', mem) = IF Journal(disk') = NoFile THEN <<>> ELSE Journal(disk').lines
      BY <1>1, <2>3, <2>4, TextsDry
    <3> QED
      BY <1>1, <2>2, <3>1
  <2>6. Leak(disk, mem, todo, phase)
    BY DEF LeakInv
  <2>7. Rebuilds
    <3>1. /\ Backed(Journaled(disk.tmp.lines), disk)
          /\ phase = "up" => \A k \in Claimed(mem, todo) : Marked(Journaled(disk.tmp.lines), k)
      BY <1>1, <2>6 DEF Leak, Rewritten, At
    <3> QED
      BY <1>1, <2>1, <2>2, <2>5, <3>1 DEF Rebuilds, At
  <2> QED
    BY <2>7, RebuildLeak
<1>3. CASE Throw /\ disk' = disk
  BY <1>1, <1>3, LeakThrow, AlikeSame, TextsSame DEF SameValues, At
<1> QED
  BY <1>1, <1>2, <1>3 DEF Install

\* There are no files at first.
LEMMA InitLeak == Init => LeakInv
<1> SUFFICES ASSUME Init PROVE Leak(disk, mem, todo, phase)
  BY DEF LeakInv
<1>1. NoValues(disk)
  BY DEF Init, EmptyDisk, Blank, NoValues, NoValue
<1>2. Calmly(mem, todo, phase)
  BY DEF Init, Calmly, At
<1> QED
  BY <1>1, <1>2, EmptyLeak

\* Every call keeps the files accounted for.
LEMMA CallLeak == ASSUME IInv, LeakInv, Call PROVE LeakInv'
<1>1. CASE \E v \in Versions : open(v, OpenLimit)
  BY <1>1, openLeak
<1>2. CASE \E k \in Keys : \/ get(k) \/ edit(k, {}) \/ remove(k) \/ commit(k) \/ abort(k) \/ RemoveStale(k)
                           \/ \E i \in Idx, l \in Lengths : set(k, i, l)
  <2>1. PICK k \in Keys : \/ get(k) \/ edit(k, {}) \/ remove(k) \/ commit(k) \/ abort(k) \/ RemoveStale(k)
                          \/ \E i \in Idx, l \in Lengths : set(k, i, l)
    BY <1>2
  <2>2. CASE get(k)
    BY <2>2, getLeak
  <2>3. CASE edit(k, {})
    BY <2>3, editLeak
  <2>4. CASE remove(k)
    BY <2>4, removeLeak
  <2>5. CASE commit(k)
    BY <2>5, commitLeak
  <2>6. CASE abort(k)
    BY <2>6, abortLeak
  <2>7. CASE RemoveStale(k)
    BY <2>7, RemoveStaleLeak
  <2>8. CASE \E i \in Idx, l \in Lengths : set(k, i, l)
    BY <2>8, setLeak
  <2> QED
    BY <2>1, <2>2, <2>3, <2>4, <2>5, <2>6, <2>7, <2>8
<1>3. CASE \E m \in Limits : setMaxSize(m)
  BY <1>3, setMaxSizeLeak
<1>4. CASE SnapshotEdit
  BY <1>4, SnapshotEditLeak
<1>5. CASE flush
  BY <1>5, flushLeak
<1>6. CASE close
  BY <1>6, closeLeak
<1>7. CASE delete
  BY <1>7, deleteLeak
<1> QED
  BY <1>1, <1>2, <1>3, <1>4, <1>5, <1>6, <1>7 DEF Call

\* So does every step of a call.
LEMMA StepLeak == ASSUME IInv, LeakInv, ~Fault("publish"), Steps PROVE LeakInv'
<1>1. CASE UseBackup
  BY <1>1, UseBackupLeak
<1>2. CASE Load
  BY <1>2, LoadLeak
<1>3. CASE Process
  BY <1>3, ProcessLeak
<1>4. CASE Collect
  BY <1>4, CollectLeak
<1>5. CASE Unlink
  BY <1>5, UnlinkLeak
<1>6. CASE DropEntry
  BY <1>6, DropEntryLeak
<1>7. CASE Opened
  BY <1>7, OpenedLeak
<1>8. CASE Fresh
  BY <1>8, FreshLeak
<1>9. CASE Created
  BY <1>9, CreatedLeak
<1>10. CASE CloseWriter
  BY <1>10, CloseWriterLeak
<1>11. CASE WriteTmp
  BY <1>11, WriteTmpLeak
<1>12. CASE Backup
  BY <1>12, BackupLeak
<1>13. CASE Install
  BY <1>13, InstallLeak
<1>14. CASE Reopen
  BY <1>14, ReopenLeak
<1>15. CASE PublishStep
  BY <1>15, PublishLeak
<1>16. CASE Discard
  BY <1>16, DiscardLeak
<1>17. CASE Complete
  BY <1>17, CompleteLeak
<1>18. CASE FlushStep
  BY <1>18, FlushLeak
<1>19. CASE SubmitStep
  BY <1>19, SubmitLeak
<1>20. CASE Give
  BY <1>20, GiveLeak
<1>21. CASE Erase
  BY <1>21, EraseLeak
<1>22. CASE DeleteClean
  BY <1>22, DeleteCleanLeak
<1>23. CASE Removed
  BY <1>23, RemovedLeak
<1>24. CASE Trim
  BY <1>24, TrimLeak
<1>25. CASE RebuildIf
  BY <1>25, RebuildIfLeak
<1>26. CASE Zero
  BY <1>26, ZeroLeak
<1>27. CASE AbortEdit
  BY <1>27, AbortLeak
<1>28. CASE Closed
  BY <1>28, ClosedLeak
<1>29. CASE Wipe
  BY <1>29, WipeLeak
<1>30. CASE Down
  BY <1>30, DownLeak
<1> QED
  BY <1>1, <1>2, <1>3, <1>4, <1>5, <1>6, <1>7, <1>8, <1>9, <1>10, <1>11, <1>12, <1>13, <1>14, <1>15,
     <1>16, <1>17, <1>18, <1>19, <1>20, <1>21, <1>22, <1>23, <1>24, <1>25, <1>26, <1>27, <1>28, <1>29,
     <1>30 DEF Steps

\* And every step of the specification.
LEMMA NextLeak == ASSUME IInv, LeakInv, ~Fault("publish"), [Next]_vars PROVE LeakInv'
<1>1. CASE Call
  BY <1>1, CallLeak
<1>2. CASE Steps
  BY <1>2, StepLeak
<1>3. CASE cleanup
  BY <1>3, cleanupLeak
<1>4. CASE Crash
  BY <1>4, CrashLeak
<1>5. CASE UNCHANGED vars
  <2>1. disk' = disk /\ mem' = mem /\ todo' = todo /\ phase' = phase /\ leaky' = leaky
    BY <1>5 DEF vars
  <2> QED
    BY <2>1 DEF LeakInv
<1> QED
  BY <1>1, <1>2, <1>3, <1>4, <1>5 DEF Next

\* When no call is in progress, the files are those of the entries.
LEMMA LeakFollows == IInv /\ LeakInv => NoFileLeak
<1> SUFFICES ASSUME LeakInv, phase = "up", todo = <<>>, ~leaky, NEW k \in Keys, NEW i \in Idx
             PROVE  /\ disk.clean[k][i] # NoFile =>
                         mem.ent[k] # NoEntry /\ mem.ent[k].len[i] = disk.clean[k][i].len
                    /\ disk.dirty[k][i] # NoFile => Editing(k)
  BY DEF NoFileLeak
<1> QED
  BY DEF LeakInv, Leak, Matched, Editing, EditingIn

(* Every value file of an open cache belongs to an entry, with the length  *)
(* that the entry accounts for, and every dirty file to an edit, also after *)
(* crashes at any step and I/O errors of any kind but one: the rename of a *)
(* dirty file, whose result completeEdit does not look at.                 *)
THEOREM NoFilesLeak == ASSUME "publish" \notin Faults PROVE Spec => []NoFileLeak
<1>1. IInv /\ LeakInv /\ [Next]_vars => IInv' /\ LeakInv'
  <2>1. ~Fault("publish")
    BY DEF Fault
  <2> QED
    BY <2>1, NextHolds, NextLeak
<1>2. Init => IInv /\ LeakInv
  BY InitHolds, InitLeak
<1>3. IInv /\ LeakInv => NoFileLeak
  BY LeakFollows
<1> QED
  BY <1>1, <1>2, <1>3, PTL DEF Spec

-----------------------------------------------------------------------------
(***************************************************************************)
(* The journal says what memory says, as long as no I/O error occurs.      *)
(***************************************************************************)
\* The entries that a journal makes and that are not being edited have values.
Sensible(e) == \A k \in Keys : e[k] # NoEntry /\ e[k].editor = NoEditor => e[k].readable

\* What the journal says of an entry, e, is what memory says, f.
AgreeAt(f, e) ==
    IF f = NoEntry THEN e = NoEntry \/ e.editor # NoEditor
    ELSE /\ e # NoEntry /\ (e.editor = NoEditor <=> f.editor = NoEditor)
         /\ f.editor = NoEditor => e.readable /\ e.len = f.len

\* When it has to: in an open cache, and in one whose journal has been read or made.
Settled(d, t, ph) ==
    \/ ph = "up" /\ ~At(t, {"wipe"}) /\ (At(t, {"down"}) => ~NoValues(d))
    \/ ph = "opening" /\ (Final(t) = "opened" \/ At(t, {"reopen", "created"}))

\* But for an entry that is being dropped or removed.
Excused(t, k) ==
    /\ At(t, {"unlink", "dropEntry", "deleteClean", "removed"}) /\ Head(t).key = k
    /\ Head(t).do = "deleteClean" => Head(t).idx # 0

\* The writer is open but in a rebuild, and before and after.
ClosedOps == {"writeTmp", "backup", "install", "reopen", "closed", "wipe", "down"}
ReadyOps == {"process", "collect", "unlink", "dropEntry", "opened", "created"}
Writes(m, t, ph) ==
    /\ ph = "up" => (m.writer = "open" <=> ~At(t, ClosedOps))
    /\ ph = "opening" => m.out = <<>> /\ (m.writer = "open" <=> At(t, ReadyOps))

\* The journal files.
FilesSensible(d) ==
    /\ d.journal # NoFile => Sensible(Journaled(d.journal.lines))
    /\ d.tmp # NoFile => Sensible(Journaled(d.tmp.lines))
    /\ d.backup # NoFile => Sensible(Journaled(d.backup.lines))

Agree(d, m, t, ph) ==
    /\ FilesSensible(d)
    /\ \A s \in Texts(d, m) : Sensible(Journaled(s))
    /\ Writes(m, t, ph)
    /\ ph = "opening" /\ Final(t) = "fresh" => At(t, {"wipe", "fresh"})
    /\ Settled(d, t, ph) =>
         /\ Journal(d) # NoFile
         /\ \A k \in Keys : ~Excused(t, k) => AgreeAt(m.ent[k], Journaled(Full(d, m))[k])
    /\ At(t, {"unlink", "dropEntry"}) => Marked(Journaled(Full(d, m)), Head(t).key)
    /\ At(t, {"backup", "install"}) => \A k \in Keys : AgreeAt(m.ent[k], Journaled(d.tmp.lines)[k])
AgreeInv == faults = 0 => Agree(disk, mem, todo, phase)

\* An I/O error is counted for good.
LEMMA NoFaultYet ==
  ASSUME IInv, faults' = 0
  PROVE  /\ \A kind : ~Fault(kind)
         /\ faults' = faults => faults = 0
  BY DEF IInv, TypeInv, Fault

\* What a step may do to it: what the next open may read is no more than before, and
\* what it says of each entry is what memory says now.
Sticks(f, g) == \A x : AgreeAt(f, x) => AgreeAt(g, x)
Keeps(d, m, t, ph, e, n, u, qh) ==
    /\ FilesSensible(e) /\ Texts(e, n) \subseteq Texts(d, m) /\ Writes(n, u, qh)
    /\ qh = "opening" /\ Final(u) = "fresh" => At(u, {"wipe", "fresh"})
    /\ At(u, {"backup", "install"}) => \A k \in Keys : AgreeAt(n.ent[k], Journaled(e.tmp.lines)[k])
    /\ At(u, {"unlink", "dropEntry"}) => Marked(Journaled(Full(e, n)), Head(u).key)
    /\ Settled(e, u, qh) =>
         /\ Settled(d, t, ph) /\ Full(e, n) = Full(d, m) /\ (Journal(d) # NoFile => Journal(e) # NoFile)
         /\ \A k \in Keys : ~Excused(u, k) =>
              \/ ~Excused(t, k) /\ Sticks(m.ent[k], n.ent[k])
              \/ AgreeAt(n.ent[k], Journaled(Full(d, m))[k])

\* Such a step keeps the agreement.
LEMMA AgreeKept ==
  ASSUME NEW d, NEW m, NEW t, NEW ph, NEW e, NEW n, NEW u, NEW qh,
         Agree(d, m, t, ph), Keeps(d, m, t, ph, e, n, u, qh)
  PROVE  Agree(e, n, u, qh)
<1>1. \A s \in Texts(e, n) : Sensible(Journaled(s))
  BY DEF Agree, Keeps
<1>2. Settled(e, u, qh) =>
         /\ Journal(e) # NoFile
         /\ \A k \in Keys : ~Excused(u, k) => AgreeAt(n.ent[k], Journaled(Full(e, n))[k])
  BY DEF Agree, Keeps, Sticks
<1> QED
  BY <1>1, <1>2 DEF Agree, Keeps

\* The journals are where they were, or in another place, or not there any more.
Moves(d, e) == {e.journal, e.tmp, e.backup} \subseteq {d.journal, d.tmp, d.backup, NoFile}

\* They say what they said.
LEMMA MovesSensible ==
  ASSUME NEW d, NEW e, FilesSensible(d), Moves(d, e)
  PROVE  FilesSensible(e)
  BY DEF FilesSensible, Moves

\* The next open reads the same.
LEMMA SameFull ==
  ASSUME NEW d, NEW m, NEW e, NEW n, Journal(e) = Journal(d), Out(n) = Out(m)
  PROVE  Texts(e, n) = Texts(d, m) /\ Full(e, n) = Full(d, m)
  BY DEF Texts, Full

\* A cache stays open.
Open(d, m, t, e, n, u) ==
    /\ e.journal = d.journal /\ e.tmp = d.tmp /\ e.backup = d.backup
    /\ Out(n) = Out(m) /\ n.writer = m.writer
    /\ ~At(t, ClosedOps) /\ ~At(u, ClosedOps \cup {"unlink", "dropEntry"})
    /\ \A k \in Keys : ~Excused(u, k) => ~Excused(t, k) /\ Sticks(m.ent[k], n.ent[k])

\* Its entries are those of the journal, as before.
LEMMA AgreeOpen ==
  ASSUME NEW d, NEW m, NEW t, NEW e, NEW n, NEW u, Agree(d, m, t, "up"), Open(d, m, t, e, n, u)
  PROVE  Agree(e, n, u, "up")
<1>1. Journal(e) = Journal(d) /\ FilesSensible(e)
  BY DEF Open, Journal, Agree, FilesSensible
<1>2. Texts(e, n) = Texts(d, m) /\ Full(e, n) = Full(d, m)
  BY <1>1, SameFull DEF Open
<1>3. Writes(n, u, "up") /\ Settled(d, t, "up") /\ ~At(u, {"backup", "install"}) /\ ~At(u, {"unlink", "dropEntry"})
  BY DEF Open, Agree, Writes, Settled, At, ClosedOps
<1>4. Keeps(d, m, t, "up", e, n, u, "up")
  BY <1>1, <1>2, <1>3 DEF Keeps, Open
<1> QED
  BY <1>4, AgreeKept

\* An entry of which only what a client does has changed.
LEMMA AlikeSticks ==
  ASSUME NEW m, NEW n, Alike(m, n), NEW k \in Keys
  PROVE  Sticks(m.ent[k], n.ent[k])
  BY DEF Alike, Sticks, AgreeAt, EditingIn

\* What a line makes of an entry.
LEMMA LineMakes ==
  ASSUME NEW e \in Entries \cup {NoEntry}, NEW l \in Lines
  PROVE  LET f == LineEntry(e, l)
         IN  /\ l.state = "REMOVE" => f = NoEntry
             /\ l.state = "CLEAN" => f # NoEntry /\ f.editor = NoEditor /\ f.readable /\ f.len = l.len
             /\ l.state = "DIRTY" => f # NoEntry /\ f.editor # NoEditor
             /\ l.state = "READ" /\ e # NoEntry => f = e
<1> DEFINE g == EntryOf(e)
<1>1. g \in Entries /\ (e # NoEntry => g = e)
  BY EntryType DEF EntryOf
<1>2. NewEditor(0) \in Editors /\ NewEditor(0) # NoEditor
  BY EditorType
<1>3. l.state # "REMOVE" => LineEntry(e, l) # NoEntry
  BY LineEntryType
<1> HIDE DEF g
<1>4. l.state = "CLEAN" => LET f == [g EXCEPT !.readable = TRUE, !.editor = NoEditor, !.len = l.len]
                           IN  f.editor = NoEditor /\ f.readable /\ f.len = l.len
  BY <1>1 DEF Entries
<1>5. [g EXCEPT !.editor = NewEditor(0)].editor = NewEditor(0)
  BY <1>1 DEF Entries
<1>6. CASE l.state = "REMOVE"
  BY <1>6 DEF LineEntry
<1>7. CASE l.state = "CLEAN"
  BY <1>3, <1>4, <1>7 DEF LineEntry, g
<1>8. CASE l.state = "DIRTY"
  BY <1>2, <1>3, <1>5, <1>8 DEF LineEntry, g
<1>9. CASE l.state = "READ"
  BY <1>1, <1>9 DEF LineEntry, g
<1> QED
  BY <1>6, <1>7, <1>8, <1>9, LineType

\* A line more keeps the texts sensible, if it is not the first of its key to be READ.
LEMMA LineSensible ==
  ASSUME NEW d, NEW m, NEW e, NEW n, NEW l \in Lines, Lined(d, m, e, n, l),
         \A s \in Texts(d, m) : Sensible(Journaled(s)),
         l.state = "READ" => Journaled(Full(d, m))[l.key] # NoEntry
  PROVE  \A s \in Texts(e, n) : Sensible(Journaled(s))
<1> DEFINE a == Journaled(Full(d, m))  b == Journaled(Full(e, n))
<1>1. Sensible(a) /\ a \in Ents /\ b[l.key] = LineEntry(a[l.key], l) /\ l.key \in Keys
      /\ \A k \in Keys : k # l.key => b[k] = a[k]
  BY DEF Lined
<1> HIDE DEF a, b
<1>2. a[l.key] \in Entries \cup {NoEntry}
  BY <1>1 DEF Ents
<1>3. Sensible(b)
  <2> SUFFICES ASSUME NEW k \in Keys, b[k] # NoEntry, b[k].editor = NoEditor PROVE b[k].readable
    BY DEF Sensible
  <2>1. CASE k # l.key
    BY <1>1, <2>1 DEF Sensible
  <2>2. CASE k = l.key
    <3>1. l.state \in {"CLEAN", "READ"}
      BY <1>1, <1>2, <2>2, LineMakes, LineType
    <3>2. l.state = "READ" => a[l.key] # NoEntry
      BY DEF a
    <3> QED
      BY <1>1, <1>2, <2>2, <3>1, <3>2, LineMakes DEF Sensible
  <2> QED
    BY <2>1, <2>2
<1> QED
  BY <1>3 DEF Lined, b

Agreed == Agree(disk, mem, todo, phase)

\* The steps that only an open cache does.
CacheOps ==
    {"publish", "discard", "complete", "flush", "give", "deleteClean", "removed", "submit", "erase",
     "trim", "abort", "rebuildIf", "zero", "closed", "down"}
Working(op) ==
    /\ todo # <<>> /\ Head(todo).do = op /\ Head(todo) \in StepRec /\ phase = "up"
    /\ mem \in Mems /\ disk \in Disks /\ todo \in Seq(StepRec)
    /\ op \notin ClosedOps => mem.writer = "open" /\ disk.journal # NoFile
    /\ Agree(disk, mem, todo, "up")

\* What is so at such a step.
LEMMA WorkingIs ==
  ASSUME IInv, Agreed, NEW op \in CacheOps, Step(op)
  PROVE  Working(op)
<1>1. /\ Running(todo, phase) /\ HeadFacts(todo) /\ Head(todo).do = op /\ todo # <<>> /\ phase # "down"
      /\ op \in StepsOf(Final(todo)) /\ Final(todo) \in OpenEnds \cup UpEnds
      /\ phase = (IF Final(todo) \in OpenEnds THEN "opening" ELSE "up")
  BY StepIs
<1>2. Agree(disk, mem, todo, phase)
  BY DEF Agreed
<1>3. Final(todo) \notin OpenEnds
  <2>1. Final(todo) \notin {"load", "created", "opened"}
    BY <1>1 DEF StepsOf, CacheOps, Rebuild, Drops
  <2>2. ASSUME Final(todo) = "fresh" PROVE FALSE
    <3>1. phase = "opening"
      BY <1>1, <2>2 DEF OpenEnds
    <3>2. At(todo, {"wipe", "fresh"})
      BY <1>2, <2>2, <3>1 DEF Agree
    <3> QED
      BY <1>1, <3>2 DEF At, CacheOps
  <2> QED
    BY <2>1, <2>2 DEF OpenEnds
<1>4. phase = "up"
  BY <1>1, <1>3
<1>5. op \notin ClosedOps => mem.writer = "open"
  BY <1>1, <1>2, <1>4 DEF Agree, Writes, At
<1>6. mem.writer = "open" => disk.journal # NoFile
  BY <1>1 DEF IInv, Files
<1> QED
  BY <1>1, <1>2, <1>4, <1>5, <1>6 DEF Working, HeadFacts, IInv, TypeInv

\* The rest of a call with a next step for which writer and entries are as they were.
Stay(u) ==
    u # <<>> => /\ Head(u).do \notin ClosedOps \cup {"unlink", "dropEntry", "removed"}
                /\ Head(u).do = "deleteClean" => Head(u).idx = 0
SameJournals(d, e) == e.journal = d.journal /\ e.tmp = d.tmp /\ e.backup = d.backup

\* A step of an open cache that leaves its journal alone.
LEMMA AgreeStays ==
  ASSUME NEW d, NEW m, NEW t, NEW e, NEW n, NEW u, Agree(d, m, t, "up"), Stay(t), Stay(u),
         SameJournals(d, e), Out(n) = Out(m), n.writer = m.writer,
         \A k \in Keys : Sticks(m.ent[k], n.ent[k])
  PROVE  Agree(e, n, u, "up")
<1>1. ~At(t, ClosedOps) /\ ~At(u, ClosedOps \cup {"unlink", "dropEntry"})
  BY DEF Stay, At
<1>2. \A k \in Keys : ~Excused(t, k) /\ ~Excused(u, k)
  BY DEF Stay, Excused, At
<1>3. Open(d, m, t, e, n, u)
  BY <1>1, <1>2 DEF Open, SameJournals
<1> QED
  BY <1>3, AgreeOpen

\* The same entries stick.
LEMMA SameSticks == ASSUME NEW m, NEW n, n.ent = m.ent PROVE \A k \in Keys : Sticks(m.ent[k], n.ent[k])
  BY DEF Sticks

\* The same, of a step of the cache, and of a call.
LEMMA WorkStays ==
  ASSUME NEW op, Working(op), Stay(todo), Stay(todo'), phase' = phase,
         SameJournals(disk, disk'), Out(mem') = Out(mem), mem'.writer = mem.writer,
         \A k \in Keys : Sticks(mem.ent[k], mem'.ent[k])
  PROVE  Agreed'
<1>1. Agree(disk', mem', todo', "up")
  BY AgreeStays DEF Working
<1> QED
  BY <1>1 DEF Agreed, Working

\* SubmitStep keeps it.
LEMMA SubmitAgree == ASSUME IInv, Agreed, SubmitStep PROVE Agreed'
<1>1. Step("submit") /\ disk' = disk /\ mem' = mem /\ phase' = phase /\ todo # <<>> /\ Head(todo).do = "submit"
  BY DEF SubmitStep, Step
<1>2. todo' = Tail(todo)
  BY <1>1, Continues DEF SubmitStep
<1>3. todo' # <<>> => Head(todo').do \in {"abort", "trim", "erase"}
  BY <1>1, <1>2, NextIs DEF OpenEnds, Follows
<1>4. Stay(todo) /\ Stay(todo')
  BY <1>1, <1>3 DEF Stay, ClosedOps
<1> QED
  BY <1>1, <1>4, WorkingIs, WorkStays, SameSticks DEF CacheOps, SameJournals

\* Erase keeps it.
LEMMA EraseAgree == ASSUME IInv, Agreed, Erase PROVE Agreed'
<1>1. Step("erase") /\ disk' = disk /\ mem' = mem /\ phase' = phase /\ todo # <<>> /\ Head(todo).do = "erase"
  BY DEF Erase, Step
<1>2. todo' = Tail(todo)
  BY <1>1, Continues DEF Erase
<1>3. todo' = <<>>
  BY <1>1, <1>2, NextIs DEF OpenEnds, Follows
<1>4. Stay(todo) /\ Stay(todo')
  BY <1>1, <1>3 DEF Stay, ClosedOps
<1> QED
  BY <1>1, <1>4, WorkingIs, WorkStays, SameSticks DEF CacheOps, SameJournals

\* Zero keeps it.
LEMMA ZeroAgree == ASSUME IInv, Agreed, Zero PROVE Agreed'
<1>1. /\ Step("zero") /\ disk' = disk /\ mem' = [mem EXCEPT !.redundant = 0] /\ phase' = phase
      /\ todo # <<>> /\ Head(todo).do = "zero"
  BY DEF Zero, Step, Quiet
<1>2. todo' = Tail(todo)
  BY <1>1, Continues DEF Zero
<1>3. todo' = <<>>
  BY <1>1, <1>2, NextIs DEF OpenEnds, Follows
<1>4. mem'.ent = mem.ent /\ Out(mem') = Out(mem) /\ mem'.writer = mem.writer
  BY <1>1 DEF IInv, TypeInv, Mems, Out
<1>5. Stay(todo) /\ Stay(todo')
  BY <1>1, <1>3 DEF Stay, ClosedOps
<1> QED
  BY <1>1, <1>4, <1>5, WorkingIs, WorkStays, SameSticks DEF CacheOps, SameJournals

\* AbortEdit keeps it.
LEMMA AbortAgree == ASSUME IInv, Agreed, AbortEdit PROVE Agreed'
<1> DEFINE k == Head(todo).key  p == IF Editing(k) THEN CompleteProgram(k, FALSE) ELSE <<>>
<1>1. /\ Step("abort") /\ todo # <<>> /\ Head(todo).do = "abort" /\ phase' = phase
      /\ disk' = disk /\ mem' = mem /\ todo' = p \o Tail(todo)
  BY DEF AbortEdit, Step, Quiet, Continue
<1>k. k \in Keys
  BY <1>1, StepIs DEF HeadFacts, StepRec, PlainOps, KeyOps, IdxOps
<1> HIDE DEF k
<1>2. p \in Seq(StepRec) /\ (p # <<>> => p[1].do = "discard")
  <2> DEFINE c == CompleteProgram(k, FALSE)
  <2>1. Prog(c, Aborts) /\ c[1] = [do |-> "discard", key |-> k, idx |-> 0]
    BY <1>k, CompleteProgramIs
  <2>2. p = c \/ p = <<>>
    OBVIOUS
  <2> HIDE DEF c, p
  <2>3. c \in Seq(StepRec) /\ c[1].do = "discard"
    BY <2>1 DEF Prog
  <2>4. <<>> \in Seq(StepRec)
    OBVIOUS
  <2> QED
    BY <2>2, <2>3, <2>4
<1> HIDE DEF p
<1>3. Tail(todo) \in Seq(StepRec) /\ (Tail(todo) # <<>> => Head(Tail(todo)).do \in {"abort", "trim"})
  BY <1>1, NextIs, Continues DEF OpenEnds, Follows
<1> DEFINE u == Tail(todo)
<1> HIDE DEF u
<1>4. /\ p = <<>> => p \o u = u
      /\ p # <<>> => p \o u # <<>> /\ Head(p \o u) = p[1]
  BY <1>2, <1>3, FrontIs DEF u
<1>5. Stay(todo) /\ Stay(todo')
  <2>1. CASE p = <<>>
    <3>1. todo' = u
      BY <1>1, <1>4, <2>1 DEF u
    <3> QED
      BY <1>1, <1>3, <3>1 DEF Stay, ClosedOps, u
  <2>2. CASE p # <<>>
    <3>1. todo' # <<>> /\ Head(todo').do = "discard"
      BY <1>1, <1>2, <1>4, <2>2 DEF u
    <3> QED
      BY <1>1, <3>1 DEF Stay, ClosedOps
  <2> QED
    BY <2>1, <2>2
<1> QED
  BY <1>1, <1>5, WorkingIs, WorkStays, SameSticks DEF CacheOps, SameJournals

\* RebuildIf keeps it, when it has nothing to do.
LEMMA RebuildStarts ==
  ASSUME IInv, RebuildIf
  PROVE  todo' = <<>> \/ (todo' # <<>> /\ Head(todo') = [do |-> "closeWriter"])
<1> DEFINE p == RebuildProgram \o Do("zero")  u == Tail(todo)
<1>1. todo # <<>> /\ Head(todo).do = "rebuildIf" /\ (todo' = p \o u \/ todo' = <<>> \o u)
  BY DEF RebuildIf, Step, Continue
<1>2. Whole(p, "up") /\ p[1] = [do |-> "closeWriter"]
  BY ZeroProgramIs
<1>3. u = <<>>
  BY <1>1, NextIs DEF OpenEnds, Follows
<1> HIDE DEF p, u
<1>4. p \in Seq(StepRec) /\ p # <<>>
  BY <1>2, Begins
<1>5. p \o <<>> = p /\ <<>> \o <<>> = <<>> /\ Head(p) = p[1]
  BY <1>4
<1> QED
  BY <1>1, <1>2, <1>3, <1>4, <1>5

\* RebuildIf keeps it.
LEMMA RebuildIfAgree == ASSUME IInv, Agreed, RebuildIf PROVE Agreed'
<1>1. /\ Step("rebuildIf") /\ todo # <<>> /\ Head(todo).do = "rebuildIf" /\ phase' = phase
      /\ disk' = disk /\ mem' = mem
  BY DEF RebuildIf, Step, Quiet
<1>2. Stay(todo) /\ Stay(todo')
  BY <1>1, RebuildStarts DEF Stay, ClosedOps
<1> QED
  BY <1>1, <1>2, WorkingIs, WorkStays, SameSticks DEF CacheOps, SameJournals

\* What remove begins with.
LEMMA RemoveHead ==
  ASSUME mem \in Mems, todo \in Seq(StepRec), NEW k \in Keys, RemoveBegin(k)
  PROVE  /\ mem'.ent = mem.ent /\ Out(mem') = Out(mem) /\ mem'.writer = mem.writer
         /\ \/ todo' = todo
            \/ todo' # <<>> /\ Head(todo') = [do |-> "deleteClean", key |-> k, idx |-> 0]
<1> DEFINE c == RemoveProgram(k)
<1>1. mem'.ent = mem.ent /\ Out(mem') = Out(mem) /\ mem'.writer = mem.writer
  BY DEF RemoveBegin, Mems, Out
<1>2. Prog(c, {"deleteClean", "removed"}) /\ c[1] = [do |-> "deleteClean", key |-> k, idx |-> 0]
  BY RemoveProgramIs
<1>4. todo' = c \o todo \/ todo' = <<>> \o todo
  BY DEF RemoveBegin
<1> HIDE DEF c
<1>5. c \in Seq(StepRec) /\ c # <<>> /\ <<>> \o todo = todo
  BY <1>2 DEF Prog
<1>6. c \o todo # <<>> /\ Head(c \o todo) = c[1]
  BY <1>5, FrontIs
<1> QED
  BY <1>1, <1>2, <1>4, <1>5, <1>6

\* Trim keeps it: there are entries to remove, as they make up the size.
LEMMA TrimAgree == ASSUME IInv, Agreed, Trim PROVE Agreed'
<1>1. /\ Step("trim") /\ todo # <<>> /\ Head(todo).do = "trim" /\ disk' = disk /\ mem \in Mems
      /\ todo \in Seq(StepRec)
  BY DEF Trim, Step, IInv, TypeInv
<1>2. Working("trim")
  BY <1>1, WorkingIs DEF CacheOps
<1>s. Stay(todo)
  BY <1>1 DEF Stay, ClosedOps
<1>3. CASE Continue(<<>>) /\ Done /\ mem' = mem
  <2>1. todo' = Tail(todo) /\ phase' = phase
    BY <1>1, <1>3, Continues DEF Done
  <2>2. todo' # <<>> => Head(todo').do \in {"flush", "rebuildIf", "closeWriter"}
    BY <1>1, <2>1, NextIs DEF OpenEnds, Follows
  <2>3. Stay(todo')
    BY <2>2 DEF Stay, ClosedOps
  <2> QED
    BY <1>1, <1>2, <1>3, <1>s, <2>1, <2>3, WorkStays, SameSticks DEF SameJournals
<1>4. ASSUME ~(mem.size <= mem.maxSize), mem.lru = <<>> PROVE FALSE
  <2>1. SizedBy(mem, {})
    BY <1>2 DEF Working, IInv, Core, Sized
  <2>2. ToSet(mem.lru) = {}
    BY <1>4 DEF ToSet
  <2>3. mem.size = 0
    BY <2>1, <2>2, SumEmpty DEF SizedBy, Sum
  <2>4. mem.maxSize \in Nat
    BY <1>1 DEF Mems
  <2> QED
    BY <1>4, <2>3, <2>4
<1>5. CASE mem.lru # <<>> /\ RemoveBegin(Head(mem.lru)) /\ Done
  <2> DEFINE k == Head(mem.lru)
  <2>1. k \in Keys
    BY <1>1, <1>5 DEF Mems
  <2>2. RemoveBegin(k)
    BY <1>5
  <2> HIDE DEF k
  <2>3. /\ mem'.ent = mem.ent /\ Out(mem') = Out(mem) /\ mem'.writer = mem.writer
        /\ \/ todo' = todo
           \/ todo' # <<>> /\ Head(todo') = [do |-> "deleteClean", key |-> k, idx |-> 0]
    BY <1>1, <2>1, <2>2, RemoveHead
  <2>4. Stay(todo') /\ phase' = phase
    BY <1>5, <1>s, <2>3 DEF Stay, ClosedOps, Done
  <2> QED
    BY <1>1, <1>2, <1>s, <2>3, <2>4, WorkStays, SameSticks DEF SameJournals
<1> QED
  BY <1>3, <1>4, <1>5 DEF Trim

\* A call of a cache that is open, and that leaves its journal alone.
LEMMA CallStays ==
  ASSUME IInv, Agreed, Idle, Stay(todo'), phase' = phase, SameJournals(disk, disk'),
         Out(mem') = Out(mem), mem'.writer = mem.writer, \A k \in Keys : Sticks(mem.ent[k], mem'.ent[k])
  PROVE  Agreed'
<1>1. phase = "up" /\ todo = <<>>
  BY DEF Idle
<1>2. Stay(todo)
  BY <1>1 DEF Stay
<1>3. Agree(disk', mem', todo', "up")
  BY <1>1, <1>2, AgreeStays DEF Agreed
<1> QED
  BY <1>1, <1>3 DEF Agreed

\* What is known before a call.
LEMMA IdleWrites ==
  ASSUME IInv, Agreed, Idle
  PROVE  /\ mem.writer = "open" /\ disk.journal # NoFile /\ mem \in Mems /\ disk \in Disks
         /\ phase = "up" /\ todo = <<>> /\ Agree(disk, mem, <<>>, "up")
<1>1. IdleFacts
  BY IdleIs
<1>2. phase = "up" /\ todo = <<>> /\ Agree(disk, mem, <<>>, "up")
  BY <1>1 DEF Agreed, IdleFacts
<1>3. mem.writer = "open"
  BY <1>2 DEF Agree, Writes, At
<1> QED
  BY <1>1, <1>2, <1>3 DEF IdleFacts

\* A removal of a call keeps it.
LEMMA RemovalAgree ==
  ASSUME IInv, Agreed, Idle, NEW k \in Keys, RemoveBegin(k), disk' = disk, phase' = phase
  PROVE  Agreed'
<1>1. mem \in Mems /\ todo = <<>> /\ todo \in Seq(StepRec)
  BY DEF IInv, TypeInv, Idle
<1>2. /\ mem'.ent = mem.ent /\ Out(mem') = Out(mem) /\ mem'.writer = mem.writer
      /\ \/ todo' = todo
         \/ todo' # <<>> /\ Head(todo') = [do |-> "deleteClean", key |-> k, idx |-> 0]
  BY <1>1, RemoveHead
<1>3. Stay(todo')
  BY <1>1, <1>2 DEF Stay, ClosedOps
<1> QED
  BY <1>2, <1>3, CallStays, SameSticks DEF SameJournals

\* remove keeps it.
LEMMA removeAgree == ASSUME IInv, Agreed, NEW k \in Keys, remove(k) PROVE Agreed'
<1>1. Idle /\ RemoveBegin(k) /\ disk' = disk /\ phase' = phase
  BY DEF remove
<1> QED
  BY <1>1, RemovalAgree

\* RemoveStale keeps it.
LEMMA RemoveStaleAgree == ASSUME IInv, Agreed, NEW k \in Keys, RemoveStale(k) PROVE Agreed'
<1>1. Idle /\ RemoveBegin(k) /\ disk' = disk /\ phase' = phase
  BY DEF RemoveStale
<1> QED
  BY <1>1, RemovalAgree

\* setMaxSize keeps it.
LEMMA setMaxSizeAgree == ASSUME IInv, Agreed, NEW m \in Limits, setMaxSize(m) PROVE Agreed'
<1>1. /\ Idle /\ todo = <<>> /\ todo' = todo /\ disk' = disk /\ phase' = phase
      /\ mem' = [mem EXCEPT !.maxSize = m] /\ mem \in Mems
  BY DEF setMaxSize, Idle, IInv, TypeInv
<1>2. mem'.ent = mem.ent /\ Out(mem') = Out(mem) /\ mem'.writer = mem.writer
  BY <1>1 DEF Mems, Out
<1>3. Stay(todo')
  BY <1>1 DEF Stay
<1> QED
  BY <1>1, <1>2, <1>3, CallStays, SameSticks DEF SameJournals

\* A call that only begins a program keeps it.
LEMMA ProgramAgree ==
  ASSUME IInv, Agreed, NEW p, Program(p), p # <<>> /\ Head(p).do \in {"trim", "abort"}
  PROVE  Agreed'
<1>1. Idle /\ todo' = p /\ disk' = disk /\ mem' = mem /\ phase' = phase
  BY DEF Program
<1>2. Stay(p)
  BY DEF Stay, ClosedOps
<1> QED
  BY <1>1, <1>2, CallStays, SameSticks DEF SameJournals

\* So do the calls that are such programs.
LEMMA flushAgree == ASSUME IInv, Agreed, flush PROVE Agreed'
<1> DEFINE p == Do("trim") \o Do("flush")
<1>1. Whole(p, "up") /\ p[1] = [do |-> "trim"]
  BY TwoSteps DEF PlainOps, UpEnds, StepsOf, Follows, Removes
<1>2. Program(p)
  BY DEF flush
<1> HIDE DEF p
<1>3. p # <<>> /\ Head(p).do = "trim"
  BY <1>1, Begins
<1> QED
  BY <1>2, <1>3, ProgramAgree

\* cleanup keeps it.
LEMMA cleanupAgree == ASSUME IInv, Agreed, cleanup PROVE Agreed'
<1> DEFINE p == Do("trim") \o Do("rebuildIf")
<1>1. Whole(p, "up") /\ p[1] = [do |-> "trim"]
  BY TwoSteps DEF PlainOps, UpEnds, StepsOf, Follows, Removes
<1>2. Program(p)
  BY DEF cleanup
<1> HIDE DEF p
<1>3. p # <<>> /\ Head(p).do = "trim"
  BY <1>1, Begins
<1> QED
  BY <1>2, <1>3, ProgramAgree

\* close keeps it.
LEMMA closeAgree == ASSUME IInv, Agreed, close PROVE Agreed'
<1> DEFINE p == CloseProgram \o Do("down")
<1>1. Prog(p, StepsOf("down")) /\ Final(p) = "down" /\ p[1].do \in {"abort", "trim"}
  <2>1. mem \in Mems
    BY DEF IInv, TypeInv
  <2>2. Closes \cup {"down"} \subseteq StepsOf("down")
    BY DEF StepsOf
  <2> QED
    BY <2>1, <2>2, CloseAndThen
<1>2. Program(p)
  BY DEF close
<1> HIDE DEF p
<1>3. Whole(p, "up")
  BY <1>1 DEF Whole, UpEnds, OpenEnds
<1>4. p # <<>> /\ Head(p).do \in {"abort", "trim"}
  BY <1>1, <1>3, Begins
<1> QED
  BY <1>2, <1>4, ProgramAgree

\* delete keeps it.
LEMMA deleteAgree == ASSUME IInv, Agreed, delete PROVE Agreed'
<1> DEFINE a == CloseProgram \o Do("wipe")  b == Do("down")  p == a \o b
<1>1. Prog(a, Closes \cup {"wipe"}) /\ a[1].do \in {"abort", "trim"}
  <2>1. mem \in Mems
    BY DEF IInv, TypeInv
  <2> DEFINE S == Closes \cup {"wipe"}
  <2>2. Closes \cup {"wipe"} \subseteq S
    OBVIOUS
  <2> HIDE DEF S
  <2>3. Prog(a, S) /\ a[1].do \in {"abort", "trim"}
    BY <2>1, <2>2, CloseAndThen
  <2> QED
    BY <2>3 DEF S
<1>2. b \in Seq(StepRec)
  <2>1. Prog(b, {"down"})
    BY DoIs DEF PlainOps
  <2> QED
    BY <2>1 DEF Prog
<1>3. Program(p)
  BY DEF delete
<1> HIDE DEF a, b
<1>4. p # <<>> /\ Head(p) = a[1]
  BY <1>1, <1>2, FrontIs DEF Prog
<1> QED
  BY <1>1, <1>3, <1>4, ProgramAgree

\* An edit ends.
LEMMA EditEndsAgree ==
  ASSUME IInv, Agreed, NEW k \in Keys, EditEnds(k), NEW ok \in BOOLEAN,
         \/ todo' = CompleteProgram(k, ok)
         \/ todo' = CompleteProgram(k, FALSE) \o DoKey("erase", k)
  PROVE  Agreed'
<1>1. Held(k) /\ LetGo(k) /\ Idle /\ disk' = disk /\ phase' = phase
  BY DEF EditEnds, Held
<1>2. HeldFacts(k)
  BY <1>1, HeldIs
<1>3. Alike(mem, mem') /\ Out(mem') = Out(mem) /\ mem'.writer = mem.writer
  BY <1>1, <1>2, LetGoAlike
<1> DEFINE a == CompleteProgram(k, FALSE)  b == CompleteProgram(k, ok)  c == DoKey("erase", k)
<1>4. a \in Seq(StepRec) /\ a # <<>> /\ a[1].do = "discard"
  <2>1. Prog(a, Aborts) /\ a[1] = [do |-> "discard", key |-> k, idx |-> 0]
    BY CompleteProgramIs
  <2> HIDE DEF a
  <2> QED
    BY <2>1 DEF Prog
<1>5. b \in Seq(StepRec) /\ b # <<>> /\ b[1].do \in {"publish", "discard"}
  <2>1. /\ Prog(b, IF ok THEN Aborts \cup {"publish"} ELSE Aborts)
        /\ b[1] = [do |-> IF ok THEN "publish" ELSE "discard", key |-> k, idx |-> 0]
    BY CompleteProgramIs
  <2> HIDE DEF b
  <2> QED
    BY <2>1 DEF Prog
<1>6. c \in Seq(StepRec)
  <2>1. Prog(c, {"erase"})
    BY DoKeyIs DEF KeyOps
  <2> HIDE DEF c
  <2> QED
    BY <2>1 DEF Prog
<1>7. todo' = b \/ todo' = a \o c
  OBVIOUS
<1> HIDE DEF a, b, c
<1>8. todo' # <<>> /\ Head(todo').do \in {"publish", "discard"}
  <2>1. a \o c # <<>> /\ Head(a \o c) = a[1] /\ Head(b) = b[1]
    BY <1>4, <1>5, <1>6, FrontIs
  <2> QED
    BY <1>4, <1>5, <1>7, <2>1
<1>9. Stay(todo')
  BY <1>8 DEF Stay, ClosedOps
<1> QED
  BY <1>1, <1>3, <1>9, CallStays, AlikeSticks DEF SameJournals

\* commit keeps it.
LEMMA commitAgree == ASSUME IInv, Agreed, NEW k \in Keys, commit(k) PROVE Agreed'
<1> DEFINE e == mem.ent[k]
           complete == ~(~e.readable /\ \E i \in Idx : i \notin e.editor.written \/ disk.dirty[k][i] = NoFile)
<1>1. EditEnds(k)
  BY DEF commit, EditEnds
<1>2. complete \in BOOLEAN
  OBVIOUS
<1>3. \/ todo' = CompleteProgram(k, complete)
      \/ todo' = CompleteProgram(k, FALSE) \o DoKey("erase", k)
  BY DEF commit
<1> HIDE DEF complete
<1> QED
  BY <1>1, <1>2, <1>3, EditEndsAgree

\* abort keeps it.
LEMMA abortAgree == ASSUME IInv, Agreed, NEW k \in Keys, abort(k) PROVE Agreed'
<1>1. EditEnds(k) /\ todo' = CompleteProgram(k, FALSE)
  BY DEF abort, EditEnds
<1> QED
  BY <1>1, EditEndsAgree

\* set keeps it.
LEMMA setAgree == ASSUME IInv, Agreed, NEW k \in Keys, NEW i \in Idx, NEW l \in Lengths, set(k, i, l) PROVE Agreed'
<1>0. SetDoes(k, i) /\ Held(k) /\ Idle /\ todo' = todo /\ phase' = phase
  BY SetIs DEF set, Held
<1>1. HeldFacts(k) /\ mem \in Mems /\ todo = <<>> /\ EditingIn(mem, k) /\ SameJournals(disk, disk')
  BY <1>0 DEF SetDoes, HeldFacts, IdleFacts, SameJournals
<1>2. PICK e \in Editors : e.id = mem.ent[k].editor.id /\ e.held = mem.ent[k].editor.held
                          /\ mem' = [mem EXCEPT !.ent[k].editor = e]
  BY <1>0 DEF SetDoes
<1>3. Alike(mem, mem') /\ Out(mem') = Out(mem) /\ mem'.writer = mem.writer
  BY <1>1, <1>2, PutAlike
<1>4. Stay(todo')
  BY <1>0, <1>1 DEF Stay
<1> QED
  BY <1>0, <1>1, <1>3, <1>4, CallStays, AlikeSticks

\* An edit is one before and after.
LEMMA EditingSticks ==
  ASSUME NEW m, NEW n, NEW k, EditingIn(m, k), EditingIn(n, k),
         \A x \in Keys : x # k => n.ent[x] = m.ent[x]
  PROVE  \A x \in Keys : Sticks(m.ent[x], n.ent[x])
<1> SUFFICES ASSUME NEW x \in Keys PROVE Sticks(m.ent[x], n.ent[x])
  OBVIOUS
<1>1. CASE x = k
  BY <1>1 DEF Sticks, AgreeAt, EditingIn
<1>2. CASE x # k
  BY <1>2 DEF Sticks
<1> QED
  BY <1>1, <1>2

\* Give keeps it.
LEMMA GiveAgree == ASSUME IInv, Agreed, Give PROVE Agreed'
<1> DEFINE k == Head(todo).key  e == [mem.ent[k].editor EXCEPT !.held = TRUE]
<1>1. /\ Step("give") /\ disk' = disk /\ phase' = phase
      /\ mem' = [mem EXCEPT !.ent[k].editor.held = TRUE]
  BY DEF Give, Quiet
<1>2. Working("give")
  BY <1>1, WorkingIs DEF CacheOps
<1>3. todo # <<>> /\ Head(todo).do = "give" /\ mem \in Mems /\ k \in Keys
  BY <1>2 DEF Working, StepRec, PlainOps, IdxOps
<1>4. todo' = <<>> /\ Final(todo) = "give" /\ todo[Len(todo)] = Head(todo)
  BY <1>1, <1>3, Continues, LastStep DEF Give
<1>5. Known(mem, k) /\ EditingIn(mem, k)
  BY <1>3, <1>4 DEF IInv, Core, Given, Known
<1>6. mem.ent[k] \in Entries /\ mem.ent[k].editor \in Editors
  BY <1>3, <1>5 DEF EditingIn, Mems, Entries
<1>7. e \in Editors /\ e.id = mem.ent[k].editor.id
  BY <1>6 DEF Editors
<1>8. mem' = [mem EXCEPT !.ent[k].editor = e]
  BY <1>1, <1>3, <1>6 DEF Mems, Entries, Editors
<1> HIDE DEF e
<1>9. Edited(mem, mem', k)
  BY <1>3, <1>5, <1>7, <1>8, PutIs
<1>10. Out(mem') = Out(mem) /\ mem'.writer = mem.writer
  BY <1>3, <1>8 DEF Mems, Out
<1> HIDE DEF k
<1>11. PICK f : Replaced(mem, mem', k, f) /\ f.editor # NoEditor
  BY <1>9 DEF Edited
<1>12. EditingIn(mem', k) /\ \A x \in Keys : x # k => mem'.ent[x] = mem.ent[x]
  <2>1. mem'.ent = [mem.ent EXCEPT ![k] = f] /\ f # NoEntry
    BY <1>11, NullAssumption DEF Replaced
  <2>2. DOMAIN mem.ent = Keys
    BY <1>3 DEF Mems
  <2> QED
    BY <1>3, <1>11, <2>1, <2>2 DEF EditingIn
<1>13. Stay(todo) /\ Stay(todo')
  BY <1>3, <1>4 DEF Stay, ClosedOps
<1> QED
  BY <1>1, <1>2, <1>5, <1>10, <1>12, <1>13, WorkStays, EditingSticks DEF SameJournals

\* Discard keeps it.
LEMMA DiscardAgree == ASSUME IInv, Agreed, faults' = 0, Discard PROVE Agreed'
<1> DEFINE k == Head(todo).key  i == Head(todo).idx
<1>1. Step("discard") /\ todo # <<>> /\ Head(todo).do = "discard" /\ mem' = mem /\ disk \in Disks
  BY DEF Discard, Step, IInv, TypeInv
<1>2. disk' = [disk EXCEPT !.dirty[k][i] = NoFile] /\ Continue(<<>>) /\ Done
  BY NoFaultYet DEF Discard
<1>3. todo' = Tail(todo) /\ phase' = phase
  BY <1>1, <1>2, Continues DEF Done
<1>4. Advances(todo, todo')
  BY <1>1, <1>3, IndexNext DEF IdxOps
<1>5. k \in Keys /\ i \in Idx /\ Stay(todo) /\ Stay(todo')
  BY <1>1, <1>4 DEF Advances, AfterOps, Stay, ClosedOps
<1>6. SameJournals(disk, disk')
  BY <1>1, <1>2, <1>5 DEF Disks, SameJournals
<1> QED
  BY <1>1, <1>3, <1>5, <1>6, WorkingIs, WorkStays, SameSticks DEF CacheOps

\* PublishStep keeps it.
LEMMA PublishAgree == ASSUME IInv, Agreed, faults' = 0, PublishStep PROVE Agreed'
<1> DEFINE k == Head(todo).key  i == Head(todo).idx  c == disk.dirty[k][i]
<1>1. Step("publish") /\ todo # <<>> /\ Head(todo).do = "publish" /\ disk \in Disks /\ phase' = phase
      /\ mem \in Mems /\ Listed(mem) /\ HeldKnown(mem)
  BY DEF PublishStep, Step, IInv, TypeInv, Core
<1>2. todo' = Tail(todo)
  BY <1>1, Continues DEF PublishStep
<1>4. Advances(todo, todo')
  BY <1>1, <1>2, IndexNext DEF IdxOps
<1>5. k \in Keys /\ i \in Idx /\ Stay(todo) /\ Stay(todo')
  BY <1>1, <1>4 DEF Advances, AfterOps, Stay, ClosedOps
<1>6. EditingIn(mem, k)
  BY <1>1 DEF IInv, Core, Ready, At
<1>8. \/ c = NoFile /\ disk' = disk /\ mem' = mem
      \/ /\ c # NoFile /\ mem' = Resized(mem, k, i, c.len)
         /\ disk' = [disk EXCEPT !.clean[k][i] = c, !.dirty[k][i] = NoFile]
  BY NoFaultYet DEF PublishStep
<1>9. SameJournals(disk, disk')
  BY <1>1, <1>5, <1>8 DEF Disks, SameJournals
<1>10. CASE mem' = mem
  BY <1>1, <1>5, <1>9, <1>10, WorkingIs, WorkStays, SameSticks DEF CacheOps
<1>11. CASE c # NoFile /\ mem' = Resized(mem, k, i, c.len)
  <2> DEFINE v == c.len
  <2>1. v \in Nat
    <3>1. c \in Contents
      BY <1>1, <1>5, <1>11 DEF Disks, Values
    <3> QED
      BY <3>1, LimitAssumption DEF Contents
  <2>2. mem' = Resized(mem, k, i, v)
    BY <1>11
  <2>3. Out(mem') = Out(mem) /\ mem'.writer = mem.writer
    BY <1>1, <2>2 DEF Out, Resized, Mems
  <2> HIDE DEF v, k, i, c
  <2>4. IsResized(mem, mem', k, i, v)
    <3>1. Resizes(mem, mem', k, i, v)
      BY <1>5, <1>6, <2>1, <2>2 DEF Resizes, EditingIn
    <3> QED
      BY <1>1, <3>1, ResizedIs
  <2>5. EditingIn(mem', k) /\ \A x \in Keys : x # k => mem'.ent[x] = mem.ent[x]
    BY <1>6, <2>4 DEF IsResized, EditingIn
  <2> QED
    BY <1>1, <1>5, <1>6, <1>9, <2>3, <2>5, WorkingIs, WorkStays, EditingSticks DEF CacheOps
<1> QED
  BY <1>8, <1>10, <1>11

\* DeleteClean keeps it: the journal still has the entry, and the next step is about
\* the same.
LEMMA DeleteCleanAgree == ASSUME IInv, Agreed, faults' = 0, DeleteClean PROVE Agreed'
<1> DEFINE k == Head(todo).key  i == Head(todo).idx
<1>1. Step("deleteClean") /\ todo # <<>> /\ Head(todo).do = "deleteClean" /\ disk \in Disks
      /\ mem \in Mems /\ Listed(mem) /\ HeldKnown(mem)
  BY DEF DeleteClean, Step, IInv, TypeInv, Core
<1>2. disk' = [disk EXCEPT !.clean[k][i] = NoFile] /\ mem' = Resized(mem, k, i, 0) /\ Continue(<<>>) /\ Done
  BY NoFaultYet DEF DeleteClean
<1>3. todo' = Tail(todo) /\ phase' = phase
  BY <1>1, <1>2, Continues DEF Done
<1>4. Advances(todo, todo')
  BY <1>1, <1>3, IndexNext DEF IdxOps
<1>5. k \in Keys /\ i \in Idx /\ todo' # <<>> /\ Head(todo').key = k /\ Head(todo').do \in {"deleteClean", "removed"}
  BY <1>1, <1>4 DEF Advances, AfterOps
<1>6. Head(todo').do = "deleteClean" => Head(todo').idx # 0
  <2>1. Follows(Head(todo), Head(todo'))
    BY <1>1, <1>3, <1>5, NextIs DEF OpenEnds
  <2>2. Head(todo').do = "deleteClean" => Head(todo').idx = i + 1
    BY <1>1, <2>1 DEF Follows, NextIndex
  <2>3. i \in Nat
    BY <1>5, IdxFacts
  <2> HIDE DEF i
  <2>4. i + 1 # 0
    BY <2>3
  <2> QED
    BY <2>2, <2>4
<1>7. SameJournals(disk, disk')
  BY <1>1, <1>2, <1>5 DEF Disks, SameJournals
<1>8. Resting(mem, k)
  BY <1>1 DEF IInv, Core, Ready, At
<1>9. IsResized(mem, mem', k, i, 0)
  <2>1. Resizes(mem, mem', k, i, 0)
    BY <1>2, <1>5, <1>8 DEF Resizes, Resting
  <2> QED
    BY <1>1, <2>1, ResizedIs
<1>10. Out(mem') = Out(mem) /\ mem'.writer = mem.writer
  BY <1>1, <1>2 DEF Out, Resized, Mems
<1>11. Working("deleteClean")
  BY <1>1, WorkingIs DEF CacheOps
<1>k. k = Head(todo).key
  OBVIOUS
<1> HIDE DEF k, i
<1>12. ASSUME NEW x \in Keys, ~Excused(todo', x) PROVE ~Excused(todo, x) /\ Sticks(mem.ent[x], mem'.ent[x])
  <2>1. x # k
    BY <1>5, <1>6, <1>12 DEF Excused, At
  <2>2. mem'.ent[x] = mem.ent[x]
    BY <1>9, <2>1 DEF IsResized
  <2> QED
    BY <1>k, <2>1, <2>2 DEF Excused, Sticks
<1>13. Open(disk, mem, todo, disk', mem', todo')
  BY <1>1, <1>5, <1>7, <1>10, <1>12 DEF Open, SameJournals, At, ClosedOps
<1>14. Agree(disk', mem', todo', "up")
  BY <1>11, <1>13, AgreeOpen DEF Working
<1> QED
  BY <1>3, <1>11, <1>14 DEF Agreed, Working

\* A line that an open cache holds back: what it makes of its entry is what memory says.
Writing(m, t, n, u, e, l) ==
    /\ l \in Lines /\ n.writer = "open" /\ n.out = Append(m.out, l)
    /\ ~At(t, ClosedOps) /\ ~At(u, ClosedOps \cup {"unlink", "dropEntry"})
    /\ l.state = "READ" => e[l.key] # NoEntry
    /\ \A k \in Keys : ~Excused(u, k) =>
         IF k = l.key THEN AgreeAt(n.ent[k], LineEntry(e[k], l)) ELSE ~Excused(t, k) /\ Sticks(m.ent[k], n.ent[k])

\* It keeps the agreement.
LEMMA AgreeLined ==
  ASSUME NEW d \in Disks, NEW m \in Mems, NEW t, NEW n, NEW u, NEW l,
         Agree(d, m, t, "up"), m.writer = "open", d.journal # NoFile,
         Writing(m, t, n, u, Journaled(Full(d, m)), l)
  PROVE  Agree(d, n, u, "up")
<1> DEFINE a == Journaled(Full(d, m))  b == Journaled(Full(d, n))
<1>1. l \in Lines /\ Lined(d, m, d, n, l)
  BY LineIs DEF Writing
<1>2. b[l.key] = LineEntry(a[l.key], l) /\ \A k \in Keys : k # l.key => b[k] = a[k]
  BY <1>1 DEF Lined
<1>3. \A s \in Texts(d, n) : Sensible(Journaled(s))
  BY <1>1, LineSensible DEF Agree, Writing
<1>4. Journal(d) # NoFile
  BY DEF Journal
<1>5. Settled(d, t, "up") /\ ~At(u, {"backup", "install"}) /\ Writes(n, u, "up") /\ ~At(u, {"unlink", "dropEntry"})
  BY DEF Writing, Settled, Writes, At, ClosedOps
<1>6. \A k \in Keys : ~Excused(t, k) => AgreeAt(m.ent[k], a[k])
  BY <1>5 DEF Agree
<1>7. Writing(m, t, n, u, a, l)
  OBVIOUS
<1>b. Journaled(Full(d, n)) = b
  OBVIOUS
<1> HIDE DEF a, b
<1>8. \A k \in Keys : ~Excused(u, k) => AgreeAt(n.ent[k], b[k])
  BY <1>2, <1>6, <1>7 DEF Writing, Sticks
<1> QED
  BY <1>3, <1>4, <1>5, <1>8, <1>b DEF Agree

\* Complete keeps it: its line is what is left of the entry.
LEMMA CompleteAgree == ASSUME IInv, Agreed, Complete PROVE Agreed'
<1> DEFINE k == Head(todo).key  st == mem.ent[k].readable \/ Head(todo).ok
           a == Journaled(Full(disk, mem))
<1>1. Step("complete") /\ todo # <<>> /\ Head(todo).do = "complete" /\ disk' = disk
  BY DEF Complete, Step
<1>2. Working("complete") /\ mem.writer = "open" /\ disk.journal # NoFile /\ mem \in Mems /\ disk \in Disks
      /\ Agree(disk, mem, todo, "up") /\ phase = "up"
  BY <1>1, WorkingIs DEF CacheOps, Working, ClosedOps
<1>3. Completed(mem, mem', k, st) /\ Continue(<<>>) /\ Done /\ \E l : CompletedLine(mem, mem', k, st, l)
  BY <1>2, CompletedIs
<1>4. PICK l : CompletedLine(mem, mem', k, st, l)
  BY <1>3
<1>5. todo' = Tail(todo) /\ phase' = phase
  BY <1>1, <1>3, Continues DEF Done
<1>6. todo' # <<>> => Head(todo').do = "flush"
  BY <1>1, <1>5, NextIs DEF OpenEnds, Follows
<1>7. ~At(todo, ClosedOps) /\ ~At(todo', ClosedOps \cup {"unlink", "dropEntry"}) /\ \A x : ~Excused(todo, x)
  BY <1>1, <1>6 DEF At, ClosedOps, Excused
<1> HIDE DEF k, st
<1>8. k \in Keys /\ l \in Lines /\ l.key = k
  BY <1>4, LineType DEF CompletedLine
<1>9. a[k] \in Entries \cup {NoEntry}
  <2>1. Full(disk, mem) \in Seq(Lines) /\ mem.version \in Versions
    BY <1>2, TextsType DEF Mems
  <2>2. a \in Ents
    BY <1>8, <2>1, JournaledIs
  <2> HIDE DEF a
  <2> QED
    BY <1>8, <2>2 DEF Ents
<1> HIDE DEF a
<1>10. AgreeAt(mem'.ent[k], LineEntry(a[k], l))
  <2>1. CASE st
    <3>1. /\ mem'.ent[k] # NoEntry /\ mem'.ent[k].editor = NoEditor /\ mem'.ent[k].len = mem.ent[k].len
          /\ l.state = "CLEAN" /\ l.len = mem.ent[k].len
      BY <1>3, <1>4, <2>1 DEF Completed, CompletedLine
    <3> QED
      BY <1>8, <1>9, <3>1, LineMakes DEF AgreeAt
  <2>2. CASE ~st
    <3>1. mem'.ent[k] = NoEntry /\ l.state = "REMOVE"
      BY <1>3, <1>4, <2>2 DEF Completed, CompletedLine
    <3> QED
      BY <1>8, <1>9, <3>1, LineMakes DEF AgreeAt
  <2> QED
    BY <2>1, <2>2
<1>11. \A x \in Keys : x # k => Sticks(mem.ent[x], mem'.ent[x])
  BY <1>3 DEF Completed, Sticks
<1>12. mem'.writer = "open" /\ mem'.out = Append(mem.out, l) /\ l.state # "READ"
  BY <1>2, <1>3, <1>4 DEF Completed, CompletedLine
<1>13. Writing(mem, todo, mem', todo', a, l)
  BY <1>7, <1>8, <1>10, <1>11, <1>12 DEF Writing
<1>14. Agree(disk, mem', todo', "up")
  BY <1>2, <1>13, AgreeLined DEF a
<1> QED
  BY <1>1, <1>2, <1>5, <1>14 DEF Agreed

\* Removed keeps it: now the entry is gone from the journal, too.
LEMMA RemovedAgree == ASSUME IInv, Agreed, Removed PROVE Agreed'
<1> DEFINE k == Head(todo).key
           m == [mem EXCEPT !.redundant = @ + 1]
           r == Line("REMOVE", k)
           n == [m EXCEPT !.out = Append(@, r), !.lru = Without(@, k), !.ent[k] = NoEntry]
           a == Journaled(Full(disk, mem))
<1>1. Step("removed") /\ todo # <<>> /\ Head(todo).do = "removed" /\ disk' = disk
  BY DEF Removed, Step
<1>2. /\ Working("removed") /\ mem.writer = "open" /\ disk.journal # NoFile /\ mem \in Mems /\ disk \in Disks
      /\ Agree(disk, mem, todo, "up") /\ phase = "up" /\ k \in Keys
  BY <1>1, WorkingIs DEF CacheOps, Working, ClosedOps, StepRec, PlainOps, IdxOps
<1>3. mem' = n /\ Continue(<<>>) /\ Done
  BY <1>2 DEF Removed
<1>4. todo' = Tail(todo) /\ phase' = phase
  BY <1>1, <1>3, Continues DEF Done
<1>5. todo' # <<>> => Head(todo').do = "trim"
  BY <1>1, <1>4, NextIs DEF OpenEnds, Follows
<1>6. m.ent = mem.ent /\ m.out = mem.out /\ m.writer = mem.writer
  BY <1>2 DEF Mems
<1>7. mem'.writer = "open" /\ mem'.out = Append(mem.out, r) /\ mem'.ent = [mem.ent EXCEPT ![k] = NoEntry]
  <2>1. mem'.writer = m.writer /\ mem'.out = Append(m.out, r) /\ mem'.ent = [m.ent EXCEPT ![k] = NoEntry]
    BY <1>2, <1>3 DEF Mems
  <2> QED
    BY <1>2, <1>6, <2>1
<1>8. mem'.ent[k] = NoEntry /\ \A x \in Keys : x # k => mem'.ent[x] = mem.ent[x]
  BY <1>2, <1>7 DEF Mems
<1>9. r \in Lines /\ r.key = k /\ r.state = "REMOVE"
  BY <1>2 DEF Line, Lines
<1>10. a[k] \in Entries \cup {NoEntry}
  <2>1. Full(disk, mem) \in Seq(Lines) /\ mem.version \in Versions
    BY <1>2, TextsType DEF Mems
  <2>2. a \in Ents
    BY <1>9, <2>1, JournaledIs
  <2> HIDE DEF a
  <2> QED
    BY <1>2, <2>2 DEF Ents
<1>k. k = Head(todo).key
  OBVIOUS
<1> HIDE DEF a, k, m, n, r
<1>11. AgreeAt(mem'.ent[k], LineEntry(a[k], r))
  BY <1>8, <1>9, <1>10, LineMakes DEF AgreeAt
<1>12. \A x \in Keys : x # k => ~Excused(todo, x) /\ Sticks(mem.ent[x], mem'.ent[x])
  BY <1>8, <1>k DEF Excused, Sticks
<1>13. ~At(todo, ClosedOps) /\ ~At(todo', ClosedOps \cup {"unlink", "dropEntry"})
  BY <1>1, <1>5 DEF At, ClosedOps
<1>14. Writing(mem, todo, mem', todo', a, r)
  BY <1>7, <1>9, <1>11, <1>12, <1>13 DEF Writing
<1>15. Agree(disk, mem', todo', "up")
  BY <1>2, <1>14, AgreeLined DEF a
<1> QED
  BY <1>1, <1>2, <1>4, <1>15 DEF Agreed

\* get keeps it: an entry that is READ is in the journal.
LEMMA getAgree == ASSUME IInv, Agreed, NEW k \in Keys, get(k) PROVE Agreed'
<1> DEFINE m == [mem EXCEPT !.lru = Touch(@, k)]
           n == [m EXCEPT !.redundant = @ + 1]
           r == Line("READ", k)
           o == [n EXCEPT !.out = Append(@, r)]
           a == Journaled(Full(disk, mem))
<1>0. Idle /\ disk' = disk /\ phase' = phase /\ todo' = todo
  BY DEF get
<1>1. /\ mem.writer = "open" /\ disk.journal # NoFile /\ mem \in Mems /\ disk \in Disks
      /\ phase = "up" /\ todo = <<>> /\ Agree(disk, mem, <<>>, "up")
  BY <1>0, IdleWrites
<1>2. n.ent = mem.ent /\ n.writer = mem.writer /\ n.out = mem.out /\ m.ent = mem.ent /\ m.out = mem.out
      /\ m.writer = mem.writer
  BY <1>1 DEF Mems
<1>3. o.ent = mem.ent /\ o.writer = mem.writer /\ o.out = Append(mem.out, r)
  <2>1. o.ent = n.ent /\ o.writer = n.writer /\ o.out = Append(n.out, r)
    BY <1>1 DEF Mems
  <2> QED
    BY <1>2, <2>1
<1>4. r \in Lines /\ r.key = k /\ r.state = "READ"
  BY DEF Line, Lines
<1> HIDE DEF m, n, o, r
<1>5. mem' \in {m, n} \/ (mem' = o /\ Visible(k))
  BY DEF get, m, n, o, r
<1>6. mem'.ent = mem.ent /\ mem'.writer = mem.writer
  BY <1>2, <1>3, <1>5
<1>7. CASE mem' \in {m, n}
  <2>1. Out(mem') = Out(mem)
    BY <1>2, <1>7 DEF Out
  <2>2. Stay(todo')
    BY <1>0, <1>1 DEF Stay
  <2> QED
    BY <1>0, <1>6, <2>1, <2>2, CallStays, SameSticks DEF SameJournals
<1>8. CASE mem' = o /\ Visible(k)
  <2>1. mem.ent[k] # NoEntry
    BY <1>8 DEF Visible, VisibleIn
  <2>2. AgreeAt(mem.ent[k], a[k])
    BY <1>1 DEF Agree, Settled, Excused, At
  <2>3. a[k] \in Entries \cup {NoEntry}
    <3>1. Full(disk, mem) \in Seq(Lines) /\ mem.version \in Versions
      BY <1>1, TextsType DEF Mems
    <3>2. a \in Ents
      BY <1>4, <3>1, JournaledIs
    <3> HIDE DEF a
    <3> QED
      BY <3>2 DEF Ents
  <2> HIDE DEF a
  <2>4. a[k] # NoEntry /\ LineEntry(a[k], r) = a[k]
    BY <1>4, <2>1, <2>2, <2>3, LineMakes DEF AgreeAt
  <2>5. ~At(todo, ClosedOps) /\ ~At(todo', ClosedOps \cup {"unlink", "dropEntry"}) /\ \A x : ~Excused(todo, x)
    BY <1>0, <1>1 DEF At, Excused
  <2>6. \A x \in Keys : Sticks(mem.ent[x], mem'.ent[x])
    BY <1>6, SameSticks
  <2>7. AgreeAt(mem'.ent[k], LineEntry(a[k], r))
    BY <1>6, <2>2, <2>4
  <2>8. Writing(mem, todo, mem', todo', a, r)
    BY <1>1, <1>3, <1>4, <1>8, <2>4, <2>5, <2>6, <2>7 DEF Writing
  <2>9. Agree(disk, mem', todo', "up")
    BY <1>1, <2>8, AgreeLined DEF a
  <2> QED
    BY <1>0, <1>1, <2>9 DEF Agreed
<1> QED
  BY <1>5, <1>7, <1>8

\* edit keeps it: the edit is in the journal.
LEMMA editAgree == ASSUME IInv, Agreed, NEW k \in Keys, NEW expected, edit(k, expected) PROVE Agreed'
<1> DEFINE r == Line("DIRTY", k)  a == Journaled(Full(disk, mem))
<1>0. Idle /\ disk' = disk /\ phase' = phase /\ EditDoes(k)
  BY EditIs DEF edit
<1>1. /\ mem.writer = "open" /\ disk.journal # NoFile /\ mem \in Mems /\ disk \in Disks
      /\ phase = "up" /\ todo = <<>> /\ Agree(disk, mem, <<>>, "up") /\ mem'.writer = mem.writer
  BY <1>0, IdleWrites DEF EditDoes
<1>2. CASE EditRefused
  <2>1. Out(mem') = Out(mem) /\ mem'.ent = mem.ent /\ Stay(todo')
    BY <1>1, <1>2 DEF EditRefused, Out, Stay
  <2> QED
    BY <1>0, <1>1, <2>1, CallStays, SameSticks DEF SameJournals
<1>3. CASE EditBegun(k)
  <2>1. PICK f : EditorNew(mem, f, k, edits + 1) /\ mem'.ent = [mem.ent EXCEPT ![k] = f]
    BY <1>3 DEF EditBegun
  <2>2. /\ mem'.ent[k] = f /\ \A x \in Keys : x # k => mem'.ent[x] = mem.ent[x]
        /\ f # NoEntry /\ f.editor # NoEditor
    BY <1>1, <2>1, NullAssumption DEF EditorNew, Mems
  <2>3. mem'.out = Append(mem.out, r) /\ todo' = EditProgram(k)
    BY <1>1, <1>3 DEF EditBegun
  <2>4. todo' # <<>> /\ Head(todo') = [do |-> "flush"]
    <3>1. Whole(todo', "up") /\ todo'[1] = [do |-> "flush"]
      BY <2>3, EditProgramIs
    <3> QED
      BY <3>1, Begins
  <2>5. r \in Lines /\ r.key = k /\ r.state = "DIRTY"
    BY DEF Line, Lines
  <2> HIDE DEF r
  <2>6. a[k] \in Entries \cup {NoEntry}
    <3>1. Full(disk, mem) \in Seq(Lines) /\ mem.version \in Versions
      BY <1>1, TextsType DEF Mems
    <3>2. a \in Ents
      BY <2>5, <3>1, JournaledIs
    <3> HIDE DEF a
    <3> QED
      BY <3>2 DEF Ents
  <2> HIDE DEF a
  <2>7. AgreeAt(mem'.ent[k], LineEntry(a[k], r))
    BY <2>2, <2>5, <2>6, LineMakes DEF AgreeAt
  <2>8. ~At(todo, ClosedOps) /\ ~At(todo', ClosedOps \cup {"unlink", "dropEntry"}) /\ \A x : ~Excused(todo, x)
    BY <1>1, <2>4 DEF At, Excused, ClosedOps
  <2>9. \A x \in Keys : x # k => Sticks(mem.ent[x], mem'.ent[x])
    BY <2>2 DEF Sticks
  <2>10. Writing(mem, todo, mem', todo', a, r)
    BY <1>1, <2>3, <2>5, <2>7, <2>8, <2>9 DEF Writing
  <2>11. Agree(disk, mem', todo', "up")
    BY <1>1, <2>10, AgreeLined DEF a
  <2> QED
    BY <1>0, <1>1, <2>11 DEF Agreed
<1> QED
  BY <1>0, <1>2, <1>3 DEF EditDoes

\* SnapshotEdit keeps it.
LEMMA SnapshotEditAgree == ASSUME IInv, Agreed, SnapshotEdit PROVE Agreed'
<1>1. snap.key \in Keys /\ edit(snap.key, {snap.seq})
  BY DEF SnapshotEdit, IInv, TypeInv, Snapshots
<1> QED
  BY <1>1, editAgree

\* A step keeps it.
LEMMA AgreeStep ==
  ASSUME Agreed, Keeps(disk, mem, todo, phase, disk', mem', todo', phase')
  PROVE  Agreed'
<1>1. Agree(disk', mem', todo', phase')
  BY AgreeKept DEF Agreed
<1> QED
  BY <1>1 DEF Agreed

\* All that was held back is in the file.
Pours == disk' = [disk EXCEPT !.journal.lines = @ \o mem.out]
Written ==
    /\ Texts(disk', mem') \subseteq Texts(disk, mem) /\ Full(disk', mem') = Full(disk, mem)
    /\ FilesSensible(disk') /\ Journal(disk') # NoFile /\ disk'.tmp = disk.tmp

\* The writer is flushed.
LEMMA WrittenIs ==
  ASSUME IInv, Agreed, mem.writer = "open", phase # "down", Out(mem') = <<>>, Pours
  PROVE  Written
<1>1. mem \in Mems /\ disk \in Disks /\ mem.out \in Seq(Lines) /\ disk.journal # NoFile
  BY DEF IInv, TypeInv, Mems, Files
<1>2. disk' \in Disks /\ disk'.journal # NoFile /\ disk'.tmp = disk.tmp
  BY <1>1, AppendedType DEF Pours
<1>3. disk.journal \in Journals /\ disk.journal.lines \in Seq(Lines)
  BY <1>1 DEF Disks, Journals
<1>4. disk'.journal.lines = disk.journal.lines \o mem.out /\ disk'.backup = disk.backup
  BY <1>1, <1>3 DEF Disks, Journals, Pours
<1>5. Texts(disk', mem') \subseteq Texts(disk, mem) /\ Texts(disk', mem') = {Full(disk, mem)}
  <2>1. Out(mem') = <<>> /\ mem.writer = "open"
    OBVIOUS
  <2> QED
    BY <1>1, <1>2, <1>4, <2>1, TextsAll
<1>6. Texts(disk', mem') = {Full(disk', mem')} /\ Full(disk', mem') = disk'.journal.lines
  <2>1. /\ Texts(disk', mem') = {Full(disk', mem')}
        /\ Full(disk', mem') = IF Journal(disk') = NoFile THEN <<>> ELSE Journal(disk').lines
    BY <1>1, <1>2, TextsDry
  <2> QED
    BY <1>2, <2>1 DEF Journal
<1>7. Sensible(Journaled(disk'.journal.lines))
  BY <1>5, <1>6 DEF Agreed, Agree
<1>8. FilesSensible(disk')
  BY <1>2, <1>4, <1>7 DEF Agreed, Agree, FilesSensible
<1> QED
  BY <1>2, <1>5, <1>6, <1>8 DEF Written, Journal

\* FlushStep keeps it: what the journal says is the same.
LEMMA FlushAgree == ASSUME IInv, Agreed, faults' = 0, FlushStep PROVE Agreed'
<1>1. Step("flush") /\ todo # <<>> /\ Head(todo).do = "flush"
  BY DEF FlushStep, Step
<1>2. Working("flush") /\ mem.writer = "open" /\ mem \in Mems /\ phase = "up"
  BY <1>1, WorkingIs DEF CacheOps, Working, ClosedOps
<1>3. /\ disk' = [disk EXCEPT !.journal.lines = @ \o mem.out]
      /\ mem' = [mem EXCEPT !.out = <<>>] /\ Continue(<<>>) /\ Done
  BY <1>2, NoFaultYet DEF FlushStep
<1>4. todo' = Tail(todo) /\ phase' = phase
  BY <1>1, <1>3, Continues DEF Done
<1>5. todo' # <<>> => Head(todo').do \in {"give", "submit"}
  BY <1>1, <1>4, NextIs DEF OpenEnds, Follows
<1>6. mem'.ent = mem.ent /\ Out(mem') = <<>> /\ mem'.writer = "open"
  BY <1>2, <1>3 DEF Mems, Out
<1>7. Written
  BY <1>2, <1>3, <1>6, WrittenIs DEF Pours
<1>8. \A k \in Keys : Sticks(mem.ent[k], mem'.ent[k])
  BY <1>6, SameSticks
<1>9. Writes(mem', todo', phase') /\ Settled(disk, todo, phase) /\ \A x : ~Excused(todo, x)
  BY <1>1, <1>2, <1>4, <1>5, <1>6 DEF Writes, Settled, Excused, At, ClosedOps
<1>10. Keeps(disk, mem, todo, phase, disk', mem', todo', phase')
  BY <1>2, <1>4, <1>5, <1>7, <1>8, <1>9 DEF Keeps, Written, At
<1> QED
  BY <1>10, AgreeStep

\* Closed keeps it: all is in the file.
LEMMA ClosedAgree == ASSUME IInv, Agreed, Closed PROVE Agreed'
<1>1. /\ Step("closed") /\ todo # <<>> /\ Head(todo).do = "closed" /\ disk' = disk /\ phase' = phase
      /\ mem' = [mem EXCEPT !.writer = "none"]
  BY DEF Closed, Step
<1>2. Working("closed") /\ mem \in Mems /\ phase = "up" /\ Agree(disk, mem, todo, "up") /\ mem.writer # "open"
  BY <1>1, WorkingIs DEF CacheOps, Working, Agree, Writes, At, ClosedOps
<1>3. todo' = Tail(todo)
  BY <1>1, Continues DEF Closed
<1>4. todo' # <<>>
  <2>1. Running(todo, phase)
    BY <1>1, StepIs
  <2> QED
    BY <1>1, <1>3, <2>1, NotLast DEF OpenEnds, UpEnds
<1>5. Head(todo').do \in {"wipe", "down"}
  BY <1>1, <1>3, <1>4, NextIs DEF OpenEnds, Follows
<1>6. mem'.ent = mem.ent /\ Out(mem') = Out(mem) /\ mem'.writer = "none"
  BY <1>1, <1>2 DEF Mems, Out
<1>7. \A k \in Keys : Sticks(mem.ent[k], mem'.ent[k])
  BY <1>6, SameSticks
<1>8. Texts(disk', mem') = Texts(disk, mem) /\ Full(disk', mem') = Full(disk, mem)
  BY <1>1, <1>6, SameFull
<1>9. Writes(mem', todo', phase') /\ Settled(disk, todo, phase) /\ \A x : ~Excused(todo, x)
  BY <1>1, <1>2, <1>4, <1>5, <1>6 DEF Writes, Settled, Excused, At, ClosedOps
<1>10. Keeps(disk, mem, todo, phase, disk', mem', todo', phase')
  BY <1>1, <1>2, <1>5, <1>7, <1>8, <1>9 DEF Keeps, Agree, At
<1> QED
  BY <1>10, AgreeStep

\* Then there is no cache.
LEMMA DownAgree == ASSUME IInv, Agreed, Down PROVE Agreed'
<1>1. Step("down") /\ todo # <<>> /\ Head(todo).do = "down" /\ disk' = disk /\ mem' = mem /\ phase' = "down"
  BY DEF Down, Step
<1>2. Tail(todo) = <<>>
  BY <1>1, LastStep
<1>3. todo' = <<>>
  BY <1>1, <1>2, Continues DEF Down
<1>4. Writes(mem', todo', phase') /\ ~Settled(disk', todo', phase')
  BY <1>1 DEF Writes, Settled
<1>5. Keeps(disk, mem, todo, phase, disk', mem', todo', phase')
  BY <1>1, <1>3, <1>4 DEF Keeps, Agreed, Agree, At
<1> QED
  BY <1>5, AgreeStep

\* CloseWriter keeps it, in an open cache and in one that is opened.
LEMMA CloseWriterAgree == ASSUME IInv, Agreed, faults' = 0, CloseWriter PROVE Agreed'
<1> DEFINE w == IF mem.writer = "none" THEN mem.writer ELSE "broken"
<1>1. /\ Step("closeWriter") /\ todo # <<>> /\ Head(todo).do = "closeWriter"
      /\ mem' = [mem EXCEPT !.out = <<>>, !.writer = w] /\ mem \in Mems
  BY DEF CloseWriter, Step, IInv, TypeInv
<1>2. /\ disk' = IF mem.writer # "open" THEN disk
                 ELSE [disk EXCEPT !.journal.lines = @ \o mem.out]
      /\ Continue(<<>>) /\ Done
  BY <1>1, NoFaultYet DEF CloseWriter
<1>w. w # "open"
  OBVIOUS
<1> HIDE DEF w
<1>3. mem'.ent = mem.ent /\ Out(mem') = <<>> /\ mem'.writer # "open" /\ mem'.out = <<>>
  BY <1>1, <1>w DEF Mems, Out
<1>4. todo' = Tail(todo) /\ phase' = phase
  BY <1>1, <1>2, Continues DEF Done
<1>5. /\ Running(todo, phase) /\ phase # "down"
      /\ phase = (IF Final(todo) \in OpenEnds THEN "opening" ELSE "up")
      /\ Final(todo) \in OpenEnds \cup UpEnds
  BY <1>1, StepIs
<1>6. todo' # <<>>
  BY <1>1, <1>4, <1>5, NotLast DEF OpenEnds, UpEnds
<1>7. Head(todo').do \in {"writeTmp", "closed"} /\ Final(todo') = Final(todo)
  BY <1>1, <1>4, <1>6, NextIs DEF OpenEnds, Popped, Follows
<1>8. /\ phase = "up" => mem.writer = "open"
      /\ phase = "opening" => mem.writer # "open" /\ mem.out = <<>> /\ Final(todo) # "fresh"
  BY <1>1, <1>5 DEF Agreed, Agree, Writes, At, ClosedOps, ReadyOps
<1>9. \A k \in Keys : Sticks(mem.ent[k], mem'.ent[k])
  BY <1>3, SameSticks
<1>10. Writes(mem', todo', phase') /\ \A x : ~Excused(todo, x)
  BY <1>1, <1>3, <1>6, <1>7 DEF Writes, Excused, At, ClosedOps, ReadyOps
<1>11. CASE phase = "up"
  <2>1. Written
    BY <1>2, <1>3, <1>8, <1>11, WrittenIs DEF Pours
  <2>2. Settled(disk, todo, phase)
    BY <1>1, <1>11 DEF Settled, At
  <2>3. Keeps(disk, mem, todo, phase, disk', mem', todo', phase')
    BY <1>4, <1>7, <1>9, <1>10, <1>11, <2>1, <2>2 DEF Keeps, Written, At
  <2> QED
    BY <2>3, AgreeStep
<1>12. CASE phase = "opening"
  <2>1. disk' = disk /\ Out(mem') = Out(mem)
    BY <1>2, <1>3, <1>8, <1>12 DEF Out
  <2>2. Texts(disk', mem') = Texts(disk, mem) /\ Full(disk', mem') = Full(disk, mem)
    BY <2>1, SameFull
  <2>3. Settled(disk', todo', phase') => Settled(disk, todo, phase)
    BY <1>4, <1>7, <1>12 DEF Settled, At
  <2>4. Keeps(disk, mem, todo, phase, disk', mem', todo', phase')
    BY <1>4, <1>7, <1>8, <1>9, <1>10, <1>12, <2>1, <2>2, <2>3 DEF Keeps, Agreed, Agree, At
  <2> QED
    BY <2>4, AgreeStep
<1> QED
  BY <1>5, <1>11, <1>12 DEF OpenEnds

\* Reopen keeps it: the writer is open again.
LEMMA ReopenAgree == ASSUME IInv, Agreed, Reopen PROVE Agreed'
<1>1. /\ Step("reopen") /\ todo # <<>> /\ Head(todo).do = "reopen" /\ phase' = phase
      /\ disk' = [disk EXCEPT !.backup = NoFile] /\ mem' = [mem EXCEPT !.writer = "open", !.out = <<>>]
  BY DEF Reopen, Step, Quiet
<1>2. todo' = Tail(todo)
  BY <1>1, Continues DEF Reopen
<1>3. mem \in Mems /\ disk \in Disks /\ disk.journal # NoFile /\ mem.writer # "open"
  BY <1>1 DEF IInv, TypeInv, Files, At, Writerless
<1>4. /\ mem'.ent = mem.ent /\ Out(mem') = Out(mem) /\ Journal(disk') = Journal(disk) /\ Journal(disk') # NoFile
      /\ mem'.writer = "open" /\ mem'.out = <<>> /\ Moves(disk, disk')
  BY <1>1, <1>3 DEF Mems, Disks, Out, Journal, Moves
<1>5. /\ Running(todo, phase) /\ phase # "down"
      /\ phase = (IF Final(todo) \in OpenEnds THEN "opening" ELSE "up")
      /\ "reopen" \in StepsOf(Final(todo)) /\ Final(todo) \in OpenEnds \cup UpEnds
  BY <1>1, StepIs
<1>6. todo' # <<>>
  BY <1>1, <1>2, <1>5, NotLast DEF OpenEnds, UpEnds
<1>7. Head(todo').do \in {"process", "created", "zero"} /\ Final(todo') = Final(todo)
      /\ Head(todo').do \in StepsOf(Final(todo))
  BY <1>1, <1>2, <1>6, NextIs DEF OpenEnds, Popped, Follows
<1>8. phase = "up" => Head(todo').do = "zero"
  BY <1>5, <1>7 DEF OpenEnds, UpEnds, StepsOf, Closes, Removes, Aborts, Rebuild
<1>9. phase = "opening" => Head(todo').do \in {"process", "created"} /\ Final(todo) # "fresh"
  <2>1. phase = "opening" => Final(todo) \in {"opened", "created"}
    BY <1>5 DEF OpenEnds, StepsOf, Closes, Removes, Aborts, Rebuild
  <2> QED
    BY <1>7, <2>1 DEF StepsOf, Rebuild, Drops
<1>10. \A k \in Keys : Sticks(mem.ent[k], mem'.ent[k])
  BY <1>4, SameSticks
<1>11. Texts(disk', mem') = Texts(disk, mem) /\ Full(disk', mem') = Full(disk, mem)
  BY <1>4, SameFull
<1>12. FilesSensible(disk')
  BY <1>4, MovesSensible DEF Agreed, Agree
<1>13. Writes(mem', todo', phase')
  <2>1. phase' = "up" => ~At(todo', ClosedOps)
    BY <1>1, <1>6, <1>8 DEF At, ClosedOps
  <2>2. phase' = "opening" => At(todo', ReadyOps)
    BY <1>1, <1>6, <1>9 DEF At, ReadyOps
  <2> QED
    BY <1>4, <2>1, <2>2 DEF Writes
<1>14. Settled(disk, todo, phase) /\ \A x : ~Excused(todo, x)
  BY <1>1, <1>5 DEF Settled, Excused, At, OpenEnds
<1>15. Keeps(disk, mem, todo, phase, disk', mem', todo', phase')
  BY <1>1, <1>4, <1>7, <1>9, <1>10, <1>11, <1>12, <1>13, <1>14 DEF Keeps, At
<1> QED
  BY <1>15, AgreeStep

\* A step of rebuildJournal that touches the journals only, and the one after it.
Rebuilding(op, next) ==
    /\ todo # <<>> /\ Head(todo).do = op /\ todo' = Tail(todo) /\ phase' = phase /\ mem' = mem
    /\ todo' # <<>> /\ Head(todo').do = next /\ Final(todo') = Final(todo)
    /\ mem.writer # "open" /\ mem \in Mems /\ disk \in Disks /\ phase \in {"up", "opening"}
    /\ phase = "opening" => Final(todo) # "fresh" /\ mem.out = <<>>
    /\ Out(mem) = <<>>

\* What is known of them.
LEMMA RebuildingIs ==
  ASSUME IInv, Agreed, NEW op \in {"writeTmp", "backup", "install"}, Step(op),
         Continue(<<>>), phase' = phase, mem' = mem,
         NEW next, next = (CASE op = "writeTmp" -> "backup" [] op = "backup" -> "install" [] OTHER -> "reopen")
  PROVE  Rebuilding(op, next)
<1>1. /\ Running(todo, phase) /\ phase # "down" /\ todo # <<>> /\ Head(todo).do = op
      /\ phase = (IF Final(todo) \in OpenEnds THEN "opening" ELSE "up")
      /\ Final(todo) \in OpenEnds \cup UpEnds /\ op \in StepsOf(Final(todo))
  BY StepIs
<1>2. todo' = Tail(todo)
  BY <1>1, Continues
<1>3. todo' # <<>>
  BY <1>1, <1>2, NotLast DEF OpenEnds, UpEnds
<1>4. Follows(Head(todo), Head(todo')) /\ Final(todo') = Final(todo)
  BY <1>1, <1>2, <1>3, NextIs DEF OpenEnds, Popped
<1>5. Head(todo').do = next
  BY <1>1, <1>4 DEF Follows
<1>6. mem.writer # "open" /\ mem \in Mems /\ disk \in Disks
  BY <1>1 DEF IInv, TypeInv, Files, At, Writerless
<1>7. phase = "opening" => Final(todo) # "fresh" /\ mem.out = <<>>
  BY <1>1 DEF Agreed, Agree, Writes, At
<1> QED
  BY <1>1, <1>2, <1>3, <1>4, <1>5, <1>6, <1>7 DEF Rebuilding, Out, OpenEnds

\* The writer stays closed, and what the journal says is what it said.
LEMMA RebuildingFacts ==
  ASSUME NEW op \in {"writeTmp", "backup", "install"}, NEW next \in {"backup", "install", "reopen"},
         Rebuilding(op, next)
  PROVE  /\ Writes(mem', todo', phase') /\ (\A x : ~Excused(todo, x) /\ ~Excused(todo', x))
         /\ (\A d, e : Settled(e, todo', phase') /\ next # "reopen" => Settled(d, todo, phase))
         /\ \A k \in Keys : Sticks(mem.ent[k], mem'.ent[k])
<1>1. Writes(mem', todo', phase')
  BY DEF Rebuilding, Writes, At, ClosedOps, ReadyOps
<1>2. \A x : ~Excused(todo, x) /\ ~Excused(todo', x)
  BY DEF Rebuilding, Excused, At
<1>3. \A d, e : Settled(e, todo', phase') /\ next # "reopen" => Settled(d, todo, phase)
  BY DEF Rebuilding, Settled, At
<1>4. \A k \in Keys : Sticks(mem.ent[k], mem'.ent[k])
  BY DEF Rebuilding, Sticks
<1> QED
  BY <1>1, <1>2, <1>3, <1>4

\* What a rebuilt journal says is what memory says.
LEMMA RebuiltAgrees ==
  ASSUME NEW m, NEW e, Rebuilt(m, e)
  PROVE  \A k \in Keys : AgreeAt(m.ent[k], e[k]) /\ (m.ent[k] = NoEntry => e[k] = NoEntry)
  BY DEF Rebuilt, AgreeAt, EditingIn, Resting, Marked

\* Its entries that are not being edited have values.
LEMMA RebuiltSensible == ASSUME NEW m, NEW e, Rebuilt(m, e) PROVE Sensible(e)
  BY DEF Rebuilt, Sensible, EditingIn, Resting, Marked

\* WriteTmp keeps it: the new journal says what memory says.
LEMMA WriteTmpAgree == ASSUME IInv, Agreed, faults' = 0, WriteTmp PROVE Agreed'
<1>1. /\ Step("writeTmp") /\ Continue(<<>>) /\ phase' = phase /\ mem' = mem
      /\ disk' = [disk EXCEPT !.tmp = [version |-> mem.version, lines |-> Compacted, torn |-> FALSE]]
  BY NoFaultYet DEF WriteTmp, Done
<1>2. Rebuilding("writeTmp", "backup")
  BY <1>1, RebuildingIs
<1>3. Rebuilt(mem, Journaled(Compacted))
  BY CompactedIs DEF IInv, TypeInv, Core
<1>4. /\ disk'.journal = disk.journal /\ disk'.backup = disk.backup /\ disk'.tmp.lines = Compacted
      /\ Journal(disk') = Journal(disk)
  BY <1>1, <1>2 DEF Disks, Rebuilding, Journal
<1>5. FilesSensible(disk')
  BY <1>3, <1>4, RebuiltSensible DEF Agreed, Agree, FilesSensible
<1>6. Texts(disk', mem') = Texts(disk, mem) /\ Full(disk', mem') = Full(disk, mem)
  BY <1>1, <1>4, SameFull
<1>7. \A k \in Keys : AgreeAt(mem'.ent[k], Journaled(disk'.tmp.lines)[k])
  BY <1>1, <1>3, <1>4, RebuiltAgrees
<1>8. /\ Writes(mem', todo', phase') /\ (\A x : ~Excused(todo, x))
      /\ (Settled(disk', todo', phase') => Settled(disk, todo, phase))
      /\ \A k \in Keys : Sticks(mem.ent[k], mem'.ent[k])
  BY <1>2, RebuildingFacts
<1>9. Keeps(disk, mem, todo, phase, disk', mem', todo', phase')
  BY <1>2, <1>4, <1>5, <1>6, <1>7, <1>8 DEF Keeps, Rebuilding, At
<1> QED
  BY <1>9, AgreeStep

\* Backup keeps it: the next open reads the backup.
LEMMA BackupAgree == ASSUME IInv, Agreed, faults' = 0, Backup PROVE Agreed'
<1>1. /\ Step("backup") /\ Continue(<<>>) /\ phase' = phase /\ mem' = mem
      /\ disk' = IF disk.journal = NoFile THEN disk ELSE JournalKept(disk)
  BY NoFaultYet DEF Backup, Done
<1>2. Rebuilding("backup", "install")
  BY <1>1, RebuildingIs
<1>4. /\ disk'.tmp = disk.tmp /\ Journal(disk') = Journal(disk) /\ Moves(disk, disk')
  BY <1>1, <1>2 DEF Disks, Rebuilding, Journal, JournalKept, Moves
<1>5. FilesSensible(disk')
  BY <1>4, MovesSensible DEF Agreed, Agree
<1>6. Texts(disk', mem') = Texts(disk, mem) /\ Full(disk', mem') = Full(disk, mem)
  BY <1>1, <1>4, SameFull
<1>7. \A k \in Keys : AgreeAt(mem'.ent[k], Journaled(disk'.tmp.lines)[k])
  BY <1>1, <1>2, <1>4 DEF Agreed, Agree, Rebuilding, At
<1>8. /\ Writes(mem', todo', phase') /\ (\A x : ~Excused(todo, x))
      /\ (Settled(disk', todo', phase') => Settled(disk, todo, phase))
      /\ \A k \in Keys : Sticks(mem.ent[k], mem'.ent[k])
  BY <1>2, RebuildingFacts
<1>9. Keeps(disk, mem, todo, phase, disk', mem', todo', phase')
  BY <1>2, <1>4, <1>5, <1>6, <1>7, <1>8 DEF Keeps, Rebuilding, At
<1> QED
  BY <1>9, AgreeStep

\* Install keeps it: the new journal is the journal.
LEMMA InstallAgree == ASSUME IInv, Agreed, faults' = 0, Install PROVE Agreed'
<1>1. /\ Step("install") /\ Continue(<<>>) /\ phase' = phase /\ mem' = mem
      /\ disk' = [disk EXCEPT !.journal = disk.tmp, !.tmp = NoFile]
  BY NoFaultYet DEF Install, Done
<1>2. Rebuilding("install", "reopen")
  BY <1>1, RebuildingIs
<1>3. disk.tmp # NoFile /\ \A k \in Keys : AgreeAt(mem.ent[k], Journaled(disk.tmp.lines)[k])
  BY <1>2 DEF IInv, Files, Agreed, Agree, Rebuilding, At
<1>4. Journal(disk') = disk.tmp /\ Moves(disk, disk') /\ disk' \in Disks
  BY <1>1, <1>2, <1>3 DEF Disks, Rebuilding, Journal, Moves
<1>5. FilesSensible(disk')
  BY <1>4, MovesSensible DEF Agreed, Agree
<1>6. Texts(disk', mem') = {disk.tmp.lines} /\ Full(disk', mem') = disk.tmp.lines
  <2>1. mem \in Mems /\ Out(mem') = <<>>
    BY <1>1, <1>2 DEF Rebuilding
  <2>2. /\ Texts(disk', mem') = {Full(disk', mem')}
        /\ Full(disk', mem') = IF Journal(disk') = NoFile THEN <<>> ELSE Journal(disk').lines
    BY <1>4, <2>1, TextsDry
  <2> QED
    BY <1>3, <1>4, <2>2
<1>7. Sensible(Journaled(disk.tmp.lines))
  BY <1>3 DEF Agreed, Agree, FilesSensible
<1>8. Writes(mem', todo', phase')
  BY <1>2, RebuildingFacts
<1>9. Agree(disk', mem', todo', phase')
  BY <1>1, <1>2, <1>3, <1>4, <1>5, <1>6, <1>7, <1>8 DEF Agree, Rebuilding, At
<1> QED
  BY <1>9 DEF Agreed

\* A step of processJournal, or of the call that it is part of, and the one after it.
GathersOn(op) ==
    /\ todo # <<>> /\ Head(todo).do = op /\ Head(todo) \in StepRec /\ phase = "opening" /\ phase' = phase
    /\ Final(todo) = "opened" /\ todo' # <<>> /\ Final(todo') = "opened"
    /\ At(todo', {"collect", "opened", "unlink", "dropEntry"})
    /\ Settled(disk, todo, phase) /\ mem.writer = "open" /\ mem.out = <<>>
    /\ mem'.writer = mem.writer /\ mem'.out = mem.out
    /\ disk'.journal = disk.journal /\ disk'.backup = disk.backup
    /\ disk'.tmp \in {disk.tmp, NoFile}

\* It leaves the journal alone, so that only the entries matter.
LEMMA GathersAgree ==
  ASSUME Agreed, NEW op \in GatherOps, GathersOn(op),
         At(todo', {"unlink", "dropEntry"}) => Marked(Journaled(Full(disk, mem)), Head(todo').key),
         \A k \in Keys : ~Excused(todo', k) =>
            \/ ~Excused(todo, k) /\ mem'.ent[k] = mem.ent[k]
            \/ AgreeAt(mem'.ent[k], Journaled(Full(disk, mem))[k])
  PROVE  Agreed'
<1>1. Journal(disk') = Journal(disk) /\ Out(mem') = Out(mem) /\ Moves(disk, disk')
  BY DEF GathersOn, Journal, Out, Moves
<1>2. Texts(disk', mem') = Texts(disk, mem) /\ Full(disk', mem') = Full(disk, mem) /\ FilesSensible(disk')
  BY <1>1, SameFull, MovesSensible DEF Agreed, Agree
<1>3. Writes(mem', todo', phase')
  BY DEF GathersOn, Writes, At, ReadyOps
<1>4. \A k \in Keys : ~Excused(todo', k) =>
         \/ ~Excused(todo, k) /\ Sticks(mem.ent[k], mem'.ent[k])
         \/ AgreeAt(mem'.ent[k], Journaled(Full(disk, mem))[k])
  BY DEF Sticks
<1>5. ~At(todo', {"backup", "install"}) /\ Final(todo') # "fresh" /\ Settled(disk, todo, phase)
  BY DEF GathersOn, At
<1>6. Keeps(disk, mem, todo, phase, disk', mem', todo', phase')
  BY <1>1, <1>2, <1>3, <1>4, <1>5 DEF Keeps
<1> QED
  BY <1>6, AgreeStep

\* What is known of such a step.
LEMMA GatheringIs ==
  ASSUME IInv, Agreed, NEW op \in GatherOps, Step(op)
  PROVE  /\ todo # <<>> /\ Head(todo).do = op /\ Head(todo) \in StepRec /\ phase = "opening"
         /\ Final(todo) = "opened" /\ Tail(todo) # <<>> /\ Final(Tail(todo)) = "opened" /\ Tail(todo) \in Seq(StepRec)
         /\ Follows(Head(todo), Head(Tail(todo)))
         /\ Settled(disk, todo, phase) /\ mem.writer = "open" /\ mem.out = <<>> /\ mem \in Mems /\ disk \in Disks
         /\ \A k \in Keys : ~Excused(todo, k) => AgreeAt(mem.ent[k], Journaled(Full(disk, mem))[k])
         /\ (At(todo, {"unlink", "dropEntry"}) => Marked(Journaled(Full(disk, mem)), Head(todo).key))
<1>1. /\ todo # <<>> /\ Head(todo).do = op /\ Head(todo) \in StepRec /\ phase = "opening" /\ Final(todo) = "opened"
  BY GatherStep
<1>2. Head(todo).do \in {"collect", "unlink", "dropEntry", "process"}
  BY <1>1 DEF GatherOps, Drops
<1>3. Tail(todo) # <<>> /\ Final(Tail(todo)) = "opened" /\ Tail(todo) \in Seq(StepRec)
      /\ Follows(Head(todo), Head(Tail(todo)))
  BY <1>1, <1>2, NextIs, Continues DEF OpenEnds, Popped
<1>4. Settled(disk, todo, phase)
  BY <1>1 DEF Settled
<1>5. mem.writer = "open" /\ mem.out = <<>>
  BY <1>1, <1>2 DEF Agreed, Agree, Writes, At, ReadyOps
<1> QED
  BY <1>1, <1>3, <1>4, <1>5 DEF Agreed, Agree, IInv, TypeInv

\* Process keeps it.
LEMMA ProcessAgree == ASSUME IInv, Agreed, faults' = 0, Process PROVE Agreed'
<1> DEFINE p == DoKeys("collect", mem.lru)  u == Tail(todo)
<1>1. /\ Step("process") /\ mem' = mem /\ disk' = [disk EXCEPT !.tmp = NoFile] /\ todo' = p \o u /\ phase' = phase
  BY NoFaultYet DEF Process, Continue, Done
<1>2. /\ todo # <<>> /\ Head(todo).do = "process" /\ Head(todo) \in StepRec /\ phase = "opening"
      /\ Final(todo) = "opened" /\ u # <<>> /\ Final(u) = "opened" /\ u \in Seq(StepRec)
      /\ Head(u).do = "opened"
      /\ Settled(disk, todo, phase) /\ mem.writer = "open" /\ mem.out = <<>> /\ mem \in Mems /\ disk \in Disks
  BY <1>1, GatheringIs DEF GatherOps, Follows
<1>3. mem.lru \in Seq(Keys)
  BY <1>2 DEF Mems
<1>4. p \in Seq(StepRec) /\ Len(p) = Len(mem.lru) /\ (mem.lru = <<>> => p = <<>>)
      /\ \A n \in DOMAIN mem.lru : p[n] = [do |-> "collect", key |-> mem.lru[n]]
  <2>1. "collect" \in {"collect"}
    OBVIOUS
  <2> QED
    BY <1>3, <2>1, DoKeysIs
<1> HIDE DEF p, u
<1>5. todo' # <<>> /\ Final(todo') = "opened" /\ Head(todo').do \in {"collect", "opened"}
  <2>1. CASE mem.lru = <<>>
    BY <1>1, <1>2, <1>4, <2>1
  <2>2. CASE mem.lru # <<>>
    <3>1. 1 \in DOMAIN mem.lru /\ p # <<>>
      BY <1>3, <1>4, <2>2
    <3>2. p \o u # <<>> /\ Head(p \o u) = p[1] /\ Final(p \o u) = Final(u)
      BY <1>2, <1>4, <3>1, FrontIs
    <3>3. p[1].do = "collect"
      <4>1. \A n \in DOMAIN mem.lru : p[n] = [do |-> "collect", key |-> mem.lru[n]]
        BY <1>4
      <4>2. p[1] = [do |-> "collect", key |-> mem.lru[1]]
        BY <3>1, <4>1
      <4> QED
        BY <4>2
    <3> QED
      BY <1>1, <1>2, <3>2, <3>3
  <2> QED
    BY <2>1, <2>2
<1>6. disk'.journal = disk.journal /\ disk'.backup = disk.backup /\ disk'.tmp = NoFile
  BY <1>1, <1>2 DEF Disks
<1>7. GathersOn("process")
  BY <1>1, <1>2, <1>5, <1>6 DEF GathersOn, At
<1>8. ~At(todo', {"unlink", "dropEntry"}) /\ (\A k \in Keys : ~Excused(todo, k) /\ mem'.ent[k] = mem.ent[k])
  BY <1>1, <1>2, <1>5 DEF At, Excused
<1> QED
  BY <1>7, <1>8, GathersAgree DEF GatherOps

\* Collect keeps it: an edit that the journal marks is dropped now.
LEMMA CollectAgree == ASSUME IInv, Agreed, Collect PROVE Agreed'
<1> DEFINE k == Head(todo).key
<1>1. Step("collect") /\ disk' = disk /\ phase' = phase
  BY DEF Collect, Quiet
<1>2. /\ todo # <<>> /\ Head(todo).do = "collect" /\ Head(todo) \in StepRec /\ phase = "opening"
      /\ Final(todo) = "opened" /\ Tail(todo) # <<>> /\ Final(Tail(todo)) = "opened" /\ Tail(todo) \in Seq(StepRec)
      /\ Head(Tail(todo)).do \in {"collect", "opened"}
      /\ Settled(disk, todo, phase) /\ mem.writer = "open" /\ mem.out = <<>> /\ mem \in Mems
      /\ \A x \in Keys : ~Excused(todo, x) => AgreeAt(mem.ent[x], Journaled(Full(disk, mem))[x])
  BY <1>1, GatheringIs DEF GatherOps, Drops, Follows
<1>3. k \in Keys /\ \A x : ~Excused(todo, x)
  BY <1>2 DEF StepRec, PlainOps, IdxOps, Excused, At
<1>4. CASE ~Editing(k)
  <2>1. mem' = [mem EXCEPT !.size = @ + Total(mem.ent[k])] /\ Continue(<<>>)
    BY <1>4 DEF Collect
  <2>2. todo' = Tail(todo)
    BY <1>2, <2>1, Continues
  <2>3. mem'.ent = mem.ent /\ mem'.out = mem.out /\ mem'.writer = mem.writer
    BY <1>2, <2>1 DEF Mems
  <2>4. GathersOn("collect")
    BY <1>1, <1>2, <2>2, <2>3 DEF GathersOn, At
  <2>5. ~At(todo', {"unlink", "dropEntry"}) /\ (\A x \in Keys : ~Excused(todo, x) /\ mem'.ent[x] = mem.ent[x])
    BY <1>2, <1>3, <2>2, <2>3 DEF At
  <2> QED
    BY <2>4, <2>5, GathersAgree DEF GatherOps, Drops
<1>5. CASE Editing(k)
  <2> DEFINE p == PerIndex("unlink", k) \o DoKey("dropEntry", k)
  <2>1. mem' = [mem EXCEPT !.ent[k].editor = NoEditor] /\ todo' = p \o Tail(todo)
    BY <1>5 DEF Collect, Continue
  <2>2. Prog(p, Drops) /\ p[1] = [do |-> "unlink", key |-> k, idx |-> 0]
    BY <1>3, DropProgramIs
  <2> HIDE DEF p
  <2>4. todo' # <<>> /\ Head(todo') = p[1] /\ Final(todo') = "opened"
    BY <1>2, <2>1, <2>2, FrontIs DEF Prog
  <2>5. mem'.out = mem.out /\ mem'.writer = mem.writer /\ \A x \in Keys : x # k => mem'.ent[x] = mem.ent[x]
    BY <1>2, <1>3, <2>1 DEF Mems
  <2>m. Marked(Journaled(Full(disk, mem)), k)
    BY <1>2, <1>3, <1>5 DEF AgreeAt, Marked, Editing
  <2> HIDE DEF k
  <2>6. GathersOn("collect")
    BY <1>1, <1>2, <2>2, <2>4, <2>5 DEF GathersOn, At
  <2>7. At(todo', {"unlink", "dropEntry"}) /\ Head(todo').key = k /\ Excused(todo', k)
    BY <2>2, <2>4 DEF At, Excused
  <2> QED
    BY <1>3, <2>5, <2>6, <2>7, <2>m, GathersAgree DEF GatherOps, Drops
<1> QED
  BY <1>4, <1>5

\* Unlink keeps it.
LEMMA UnlinkAgree == ASSUME IInv, Agreed, faults' = 0, Unlink PROVE Agreed'
<1> DEFINE k == Head(todo).key  i == Head(todo).idx
<1>1. /\ Step("unlink") /\ mem' = mem /\ phase' = phase /\ Continue(<<>>)
      /\ disk' = [disk EXCEPT !.clean[k][i] = NoFile, !.dirty[k][i] = NoFile]
  BY NoFaultYet DEF Unlink, Done
<1>2. /\ todo # <<>> /\ Head(todo).do = "unlink" /\ Head(todo) \in StepRec /\ phase = "opening"
      /\ Final(todo) = "opened" /\ Tail(todo) # <<>> /\ Final(Tail(todo)) = "opened"
      /\ Settled(disk, todo, phase) /\ mem.writer = "open" /\ mem.out = <<>> /\ disk \in Disks
      /\ Marked(Journaled(Full(disk, mem)), k)
  BY <1>1, GatheringIs DEF GatherOps, Drops, At
<1>3. todo' = Tail(todo)
  BY <1>1, <1>2, Continues
<1>4. Head(todo').key = k /\ Head(todo').do \in {"unlink", "dropEntry"}
  <2>1. Advances(todo, todo')
    BY <1>2, <1>3, IndexNext DEF IdxOps
  <2> QED
    BY <1>2, <2>1 DEF Advances, AfterOps
<1>5. disk'.journal = disk.journal /\ disk'.backup = disk.backup /\ disk'.tmp = disk.tmp
  BY <1>1, <1>2 DEF Disks
<1>6. GathersOn("unlink")
  BY <1>1, <1>2, <1>3, <1>4, <1>5 DEF GathersOn, At
<1>7. \A x : ~Excused(todo', x) => ~Excused(todo, x)
  BY <1>2, <1>3, <1>4 DEF Excused, At
<1> QED
  BY <1>1, <1>2, <1>4, <1>6, <1>7, GathersAgree DEF GatherOps, Drops

\* DropEntry keeps it: the edit that the journal marks has no entry.
LEMMA DropEntryAgree == ASSUME IInv, Agreed, DropEntry PROVE Agreed'
<1> DEFINE k == Head(todo).key
<1>1. /\ Step("dropEntry") /\ disk' = disk /\ phase' = phase
      /\ mem' = [mem EXCEPT !.lru = Without(@, k), !.ent[k] = NoEntry] /\ Continue(<<>>)
  BY DEF DropEntry, Quiet
<1>2. /\ todo # <<>> /\ Head(todo).do = "dropEntry" /\ Head(todo) \in StepRec /\ phase = "opening"
      /\ Final(todo) = "opened" /\ Tail(todo) # <<>> /\ Final(Tail(todo)) = "opened"
      /\ Head(Tail(todo)).do \in {"collect", "opened"}
      /\ Settled(disk, todo, phase) /\ mem.writer = "open" /\ mem.out = <<>> /\ mem \in Mems
      /\ Marked(Journaled(Full(disk, mem)), k)
  BY <1>1, GatheringIs DEF GatherOps, Drops, Follows, At
<1>3. k \in Keys
  BY <1>2 DEF StepRec, PlainOps, IdxOps
<1>4. todo' = Tail(todo)
  BY <1>1, <1>2, Continues
<1>5. mem'.out = mem.out /\ mem'.writer = mem.writer /\ mem'.ent[k] = NoEntry
      /\ \A x \in Keys : x # k => mem'.ent[x] = mem.ent[x]
  BY <1>1, <1>2, <1>3 DEF Mems
<1>k. k = Head(todo).key
  OBVIOUS
<1> HIDE DEF k
<1>6. GathersOn("dropEntry")
  BY <1>1, <1>2, <1>4, <1>5 DEF GathersOn, At
<1>7. AgreeAt(mem'.ent[k], Journaled(Full(disk, mem))[k])
  BY <1>2, <1>5 DEF AgreeAt, Marked
<1>8. \A x : x # k => ~Excused(todo, x)
  BY <1>k DEF Excused
<1>9. ~At(todo', {"unlink", "dropEntry"})
  BY <1>2, <1>4 DEF At
<1> QED
  BY <1>5, <1>6, <1>7, <1>8, <1>9, GathersAgree DEF GatherOps, Drops

\* Opened and Created keep it: the cache is open, as its journal says.
LEMMA OpenedAgree == ASSUME IInv, Agreed, NEW op \in {"opened", "created"}, Step(op), Continue(<<>>), disk' = disk,
                            mem' = mem, phase' = "up"
                     PROVE  Agreed'
<1>1. todo # <<>> /\ Head(todo).do = op /\ phase # "down" /\ phase = (IF Final(todo) \in OpenEnds THEN "opening" ELSE "up")
  BY StepIs
<1>2. Tail(todo) = <<>> /\ Final(todo) = op
  BY <1>1, LastStep
<1>3. phase = "opening" /\ todo' = <<>>
  BY <1>1, <1>2, Continues DEF OpenEnds
<1>4. Settled(disk, todo, phase) /\ \A x : ~Excused(todo, x)
  BY <1>1, <1>2, <1>3 DEF Settled, At, Excused
<1>5. Writes(mem', todo', phase')
  BY <1>1, <1>3 DEF Agreed, Agree, Writes, At, ReadyOps
<1>6. \A k \in Keys : Sticks(mem.ent[k], mem'.ent[k])
  BY SameSticks
<1>7. Keeps(disk, mem, todo, phase, disk', mem', todo', phase')
  BY <1>3, <1>4, <1>5, <1>6 DEF Keeps, Agreed, Agree, At
<1> QED
  BY <1>7, AgreeStep

\* UseBackup keeps it.
LEMMA UseBackupAgree == ASSUME IInv, Agreed, faults' = 0, UseBackup PROVE Agreed'
<1>1. /\ Step("useBackup") /\ todo # <<>> /\ Head(todo).do = "useBackup" /\ mem' = mem /\ disk \in Disks
      /\ disk' = IF disk.backup = NoFile THEN disk
                 ELSE [disk EXCEPT !.backup = NoFile,
                         !.journal = IF @ = NoFile THEN disk.backup ELSE @]
      /\ Continue(<<>>) /\ phase' = phase
  BY NoFaultYet DEF UseBackup, Step, Done, IInv, TypeInv
<1>2. Journal(disk') = Journal(disk) /\ Moves(disk, disk')
  BY <1>1 DEF Disks, Journal, Moves
<1>3. Final(todo) = "load" /\ phase = "opening"
  <2>1. "useBackup" \in StepsOf(Final(todo)) /\ Final(todo) \in OpenEnds \cup UpEnds
        /\ phase = (IF Final(todo) \in OpenEnds THEN "opening" ELSE "up")
    BY <1>1, StepIs
  <2> QED
    BY <2>1 DEF StepsOf, OpenEnds, UpEnds, Rebuild, Drops, Closes, Aborts, Removes
<1>4. todo' = Tail(todo)
  BY <1>1, Continues
<1>5. todo' # <<>> /\ Head(todo').do = "load" /\ Final(todo') = "load"
  BY <1>1, <1>3, <1>4, NextIs DEF OpenEnds, Popped, Follows
<1>6. Texts(disk', mem') = Texts(disk, mem) /\ FilesSensible(disk')
  BY <1>1, <1>2, SameFull, MovesSensible DEF Agreed, Agree
<1>7. Writes(mem', todo', phase') /\ ~Settled(disk', todo', phase')
  BY <1>1, <1>3, <1>5 DEF Agreed, Agree, Writes, Settled, At, ReadyOps
<1>8. Keeps(disk, mem, todo, phase, disk', mem', todo', phase')
  BY <1>5, <1>6, <1>7 DEF Keeps, At
<1> QED
  BY <1>8, AgreeStep

\* What Load finds: no entries, and the journal files.
Loading ==
    /\ Step("load") /\ todo # <<>> /\ disk' = disk /\ phase' = phase /\ mem \in Empties /\ Sound(mem)
    /\ disk \in Disks /\ Tail(todo) = <<>> /\ phase = "opening" /\ mem.writer # "open" /\ mem.out = <<>>

\* So it is.
LEMMA LoadingIs == ASSUME IInv, Agreed, Load PROVE Loading
<1>1. Step("load") /\ disk' = disk /\ phase' = phase /\ mem \in Mems /\ disk \in Disks
  BY DEF Load, Quiet, IInv, TypeInv
<1>2. /\ todo # <<>> /\ Head(todo).do = "load" /\ phase # "down"
      /\ phase = (IF Final(todo) \in OpenEnds THEN "opening" ELSE "up")
  BY <1>1, StepIs
<1>3. Tail(todo) = <<>> /\ Final(todo) = "load" /\ phase = "opening"
  BY <1>2, LastStep DEF OpenEnds
<1>4. mem.lru = <<>> /\ Sound(mem)
  BY <1>2, <1>3, CoreSound DEF IInv, Core, Sized, At
<1>5. mem \in Empties
  <2>1. \A x \in Keys : mem.ent[x] = NoEntry
    BY <1>1, <1>4, NoList DEF Sound
  <2>2. mem.ent = NoEntries
    BY <1>1, <2>1 DEF Mems, NoEntries
  <2> QED
    BY <1>1, <1>4, <2>2 DEF Empties
<1>6. mem.writer # "open" /\ mem.out = <<>>
  BY <1>2, <1>3 DEF Agreed, Agree, Writes, At, ReadyOps
<1> QED
  BY <1>1, <1>2, <1>3, <1>4, <1>5, <1>6 DEF Loading

\* Load keeps it: the entries are those the journal has.
LEMMA LoadAgree == ASSUME IInv, Agreed, Load PROVE Agreed'
<1>1. Loading
  BY LoadingIs
<1>2. CASE disk.journal = NoFile
  <2> DEFINE p == Do("fresh")
  <2>1. mem' = mem /\ Continue(p)
    BY <1>2 DEF Load
  <2>2. Prog(p, {"fresh"}) /\ p[1] = [do |-> "fresh"] /\ Final(p) = "fresh"
    BY DoIs DEF PlainOps
  <2> HIDE DEF p
  <2>3. todo' = p
    BY <1>1, <2>1, <2>2, AloneIs DEF Continue, Loading
  <2>4. todo' # <<>> /\ Head(todo').do = "fresh" /\ Final(todo') = "fresh"
    BY <2>2, <2>3 DEF Prog
  <2>5. Writes(mem', todo', phase') /\ ~Settled(disk', todo', phase')
    BY <1>1, <2>1, <2>4 DEF Loading, Writes, Settled, At, ReadyOps
  <2>6. Keeps(disk, mem, todo, phase, disk', mem', todo', phase')
    BY <1>1, <2>1, <2>4, <2>5 DEF Keeps, Loading, Agreed, Agree, At
  <2> QED
    BY <2>6, AgreeStep
<1>3. CASE disk.journal # NoFile /\ disk.journal.version # mem.version
  <2> DEFINE p == Do("wipe") \o Do("fresh")
  <2>1. mem' = mem /\ Continue(p)
    BY <1>3 DEF Load
  <2>2. Prog(p, Closes \cup {"fresh"}) /\ p[1] = [do |-> "wipe"] /\ Final(p) = "fresh"
    BY WipeFresh
  <2> HIDE DEF p
  <2>3. todo' = p
    BY <1>1, <2>1, <2>2, AloneIs DEF Continue, Loading
  <2>4. todo' # <<>> /\ Head(todo').do = "wipe" /\ Final(todo') = "fresh"
    BY <2>2, <2>3 DEF Prog
  <2>5. Writes(mem', todo', phase') /\ ~Settled(disk', todo', phase')
    BY <1>1, <2>1, <2>4 DEF Loading, Writes, Settled, At, ReadyOps
  <2>6. Keeps(disk, mem, todo, phase, disk', mem', todo', phase')
    BY <1>1, <2>1, <2>4, <2>5 DEF Keeps, Loading, Agreed, Agree, At
  <2> QED
    BY <2>6, AgreeStep
<1>4. CASE disk.journal # NoFile /\ disk.journal.version = mem.version
  <2> DEFINE p == LoadProgram(disk.journal.torn)  s == disk.journal.lines
  <2>1. mem' = ReadJournal(mem, s) /\ Continue(p)
    BY <1>4 DEF Load, LoadProgram
  <2>2. disk.journal.torn \in BOOLEAN /\ s \in Seq(Lines) /\ Journal(disk) = disk.journal
    BY <1>4 DEF IInv, TypeInv, Disks, Journals, Journal
  <2>3. Prog(p, LoadOps) /\ p[1].do \in {"closeWriter", "reopen"} /\ Final(p) = "opened"
    BY <2>2, LoadProgramIs
  <2>m. mem \in Mems /\ Out(mem) = <<>> /\ mem \in Empties /\ Sound(mem) /\ mem.lru = <<>> /\ disk \in Disks
    BY <1>1 DEF Loading, Empties, Out
  <2>s. Texts(disk, mem) = {s} /\ Full(disk, mem) = s
    <3>1. /\ Texts(disk, mem) = {Full(disk, mem)}
          /\ Full(disk, mem) = IF Journal(disk) = NoFile THEN <<>> ELSE Journal(disk).lines
      BY <2>m, TextsDry
    <3> QED
      BY <1>4, <2>2, <3>1
  <2> HIDE DEF p, s
  <2>4. mem'.ent = Journaled(s) /\ mem'.writer = mem.writer /\ mem'.out = mem.out
    <3>1. mem'.ent = ReplayAll(mem, s).ent /\ mem'.writer = mem.writer /\ mem'.out = mem.out
      BY <2>m, <2>1, <2>2, ReadIs
    <3> QED
      BY <2>m, <2>2, <3>1, ReadSame
  <2>5. todo' = p
    BY <1>1, <2>1, <2>3, AloneIs DEF Continue, Loading
  <2>6. todo' # <<>> /\ Head(todo').do \in {"closeWriter", "reopen"} /\ Final(todo') = "opened"
    BY <2>3, <2>5 DEF Prog
  <2>7. Texts(disk', mem') = {s} /\ Full(disk', mem') = s
    <3>1. Journal(disk') = Journal(disk) /\ Out(mem') = Out(mem)
      BY <1>1, <2>4 DEF Loading, Out
    <3> QED
      BY <2>s, <3>1, SameFull
  <2>8. Sensible(Journaled(s)) /\ FilesSensible(disk')
    BY <1>1, <2>s DEF Agreed, Agree, Loading
  <2>9. Writes(mem', todo', phase')
    BY <1>1, <2>4, <2>6 DEF Loading, Writes, At, ReadyOps
  <2>10. \A k \in Keys : AgreeAt(mem'.ent[k], Journaled(s)[k])
    BY <2>4, <2>8 DEF AgreeAt, Sensible
  <2>11. Journal(disk') # NoFile
    BY <1>1, <1>4, <2>2 DEF Loading
  <2>12. Agree(disk', mem', todo', phase')
    BY <2>6, <2>7, <2>8, <2>9, <2>10, <2>11 DEF Agree, At
  <2> QED
    BY <2>12 DEF Agreed
<1> QED
  BY <1>2, <1>3, <1>4

\* Fresh keeps it: a journal for a cache without entries is about to be written.
LEMMA FreshAgree == ASSUME IInv, Agreed, Fresh PROVE Agreed'
<1> DEFINE p == RebuildProgram \o Do("created")
<1>1. Step("fresh") /\ Continue(p) /\ disk' = disk /\ phase' = phase /\ mem' = NewCache(mem.version, mem.maxSize, mem.base)
  BY DEF Fresh, Quiet
<1>2. /\ todo # <<>> /\ Head(todo).do = "fresh" /\ phase # "down"
      /\ phase = (IF Final(todo) \in OpenEnds THEN "opening" ELSE "up")
  BY <1>1, StepIs
<1>3. Tail(todo) = <<>> /\ Final(todo) = "fresh" /\ phase = "opening"
  BY <1>2, LastStep DEF OpenEnds
<1>4. todo' = p /\ p # <<>> /\ Head(p).do = "closeWriter" /\ Final(p) = "created"
  BY <1>1, <1>3, CreateProgramIs DEF Continue
<1> HIDE DEF p
<1>5. mem.writer # "open" /\ disk \in Disks /\ mem \in Mems
  BY <1>2 DEF IInv, TypeInv, Files, At, Writerless
<1>6. mem'.writer = "none" /\ mem'.out = <<>> /\ Out(mem') = <<>> /\ Out(mem) = <<>>
  BY <1>1, <1>5 DEF NewCache, Out
<1>7. Texts(disk', mem') = Texts(disk, mem)
  BY <1>1, <1>6, SameFull
<1>8. Writes(mem', todo', phase') /\ ~Settled(disk', todo', phase')
  BY <1>1, <1>3, <1>4, <1>6 DEF Writes, Settled, At, ReadyOps
<1>9. Keeps(disk, mem, todo, phase, disk', mem', todo', phase')
  BY <1>1, <1>4, <1>7, <1>8 DEF Keeps, Agreed, Agree, At
<1> QED
  BY <1>9, AgreeStep

\* What a wipe goes on to.
LEMMA WipeNext ==
  ASSUME IInv, Step("wipe"), Continue(<<>>)
  PROVE  /\ todo' # <<>> /\ Final(todo') = Final(todo) /\ phase \in {"up", "opening"}
         /\ phase = "opening" => Final(todo) = "fresh" /\ Head(todo').do = "fresh"
         /\ phase = "up" => Head(todo').do = "down"
<1>1. /\ Running(todo, phase) /\ "wipe" \in StepsOf(Final(todo)) /\ Final(todo) \in OpenEnds \cup UpEnds
      /\ phase = (IF Final(todo) \in OpenEnds THEN "opening" ELSE "up")
      /\ Head(todo).do = "wipe" /\ todo # <<>>
  BY StepIs
<1>2. todo' = Tail(todo)
  BY <1>1, Continues
<1>4. todo' # <<>>
  BY <1>1, <1>2, NotLast DEF OpenEnds, UpEnds
<1>5. Head(todo').do \in {"fresh", "down"} /\ Head(todo').do \in StepsOf(Final(todo)) /\ Final(todo') = Final(todo)
  BY <1>1, <1>2, <1>4, NextIs DEF OpenEnds, Popped, Follows
<1>6. Final(todo) \in {"fresh", "down"}
  BY <1>1 DEF StepsOf, Rebuild, Drops, Removes, Aborts, OpenEnds, UpEnds
<1>7. phase = "opening" => Final(todo) = "fresh" /\ Head(todo').do = "fresh"
  BY <1>1, <1>5, <1>6 DEF StepsOf, OpenEnds, Closes, Removes, Aborts
<1>8. phase = "up" => Head(todo').do = "down"
  BY <1>1, <1>5, <1>6 DEF StepsOf, OpenEnds, Closes, Removes, Aborts
<1> QED
  BY <1>1, <1>4, <1>5, <1>7, <1>8 DEF OpenEnds

\* Wipe keeps it: what is left of the journals, if anything, says what it said.
LEMMA WipeAgree == ASSUME IInv, Agreed, faults' = 0, Wipe PROVE Agreed'
<1>1. /\ Step("wipe") /\ mem' = mem /\ todo # <<>> /\ Head(todo).do = "wipe" /\ mem \in Mems /\ disk \in Disks
      /\ mem.writer # "open"
  BY DEF Wipe, Step, IInv, TypeInv, Files, At, Writerless
<1>2. CASE /\ ValueFiles(disk) \cup JournalFiles(disk) = {}
           /\ leaky' = FALSE /\ Continue(<<>>) /\ UNCHANGED <<disk, phase>>
  <2>1. /\ todo' # <<>> /\ Final(todo') = Final(todo) /\ phase \in {"up", "opening"}
        /\ phase = "opening" => Final(todo) = "fresh" /\ Head(todo').do = "fresh"
        /\ phase = "up" => Head(todo').do = "down"
    BY <1>1, <1>2, WipeNext
  <2>2. NoValues(disk)
    <3> SUFFICES ASSUME NEW x \in Keys, NEW i \in Idx PROVE NoValue(disk, x, i)
      BY DEF NoValues
    <3>1. <<x, i>> \notin ValueFiles(disk)
      BY <1>2
    <3> QED
      BY <3>1 DEF ValueFiles, NoValue
  <2>3. disk' = disk /\ phase' = phase
    BY <1>2
  <2>4. Writes(mem', todo', phase') /\ ~Settled(disk', todo', phase')
    BY <1>1, <2>1, <2>2, <2>3 DEF Agreed, Agree, Writes, Settled, At, ClosedOps, ReadyOps
  <2>5. Keeps(disk, mem, todo, phase, disk', mem', todo', phase')
    BY <1>1, <2>1, <2>3, <2>4 DEF Keeps, Agreed, Agree, At
  <2> QED
    BY <2>5, AgreeStep
<1>3. CASE /\ \/ \E x \in ValueFiles(disk) :
                   disk' = [disk EXCEPT !.clean[x[1]][x[2]] = NoFile, !.dirty[x[1]][x[2]] = NoFile]
              \/ \E f \in JournalFiles(disk) : disk' = [disk EXCEPT ![f] = NoFile]
           /\ UNCHANGED <<todo, phase>>
  <2>1. todo' = todo /\ phase' = phase /\ disk' \in Disks /\ Moves(disk, disk')
    <3>1. CASE \E x \in ValueFiles(disk) :
                   disk' = [disk EXCEPT !.clean[x[1]][x[2]] = NoFile, !.dirty[x[1]][x[2]] = NoFile]
      <4>1. PICK x \in ValueFiles(disk) :
                   disk' = [disk EXCEPT !.clean[x[1]][x[2]] = NoFile, !.dirty[x[1]][x[2]] = NoFile]
        BY <3>1
      <4>2. x[1] \in Keys /\ x[2] \in Idx
        BY DEF ValueFiles
      <4>3. disk' \in Disks /\ disk'.journal = disk.journal /\ disk'.tmp = disk.tmp /\ disk'.backup = disk.backup
        BY <1>1, <4>1, <4>2 DEF Disks, Values
      <4> QED
        BY <1>3, <4>3 DEF Moves
    <3>2. CASE \E f \in JournalFiles(disk) : disk' = [disk EXCEPT ![f] = NoFile]
      BY <1>1, <1>3, <3>2 DEF JournalFiles, Disks, Moves
    <3> QED
      BY <1>3, <3>1, <3>2
  <2>2. Agree(disk, mem, todo, phase)
    BY DEF Agreed
  <2>3. FilesSensible(disk')
    BY <2>1, <2>2, MovesSensible DEF Agree
  <2>4. \A s \in Texts(disk', mem') : Sensible(Journaled(s))
    <3>1. Out(mem') = <<>>
      BY <1>1 DEF Out
    <3>2. /\ Texts(disk', mem') = {Full(disk', mem')}
          /\ Full(disk', mem') = IF Journal(disk') = NoFile THEN <<>> ELSE Journal(disk').lines
      BY <1>1, <2>1, <3>1, TextsDry
    <3>3. Sensible(Journaled(<<>>))
      <4>1. Journaled(<<>>) = NoEntries
        BY <1>1, JournaledNone DEF Mems
      <4> QED
        BY <4>1 DEF Sensible, NoEntries
    <3>4. Journal(disk') # NoFile => Sensible(Journaled(Journal(disk').lines))
      BY <2>3 DEF FilesSensible, Journal
    <3> QED
      BY <3>2, <3>3, <3>4
  <2>5. Writes(mem', todo', phase') /\ ~Settled(disk', todo', phase')
    <3>1. Writes(mem', todo', phase')
      BY <1>1, <2>1, <2>2 DEF Agree
    <3>2. phase = "opening" => Final(todo) \notin {"opened"}
      <4>1. "wipe" \in StepsOf(Final(todo))
        BY <1>1, StepIs
      <4> QED
        BY <4>1 DEF StepsOf, Rebuild, Drops
    <3>3. ~Settled(disk', todo', phase')
      BY <1>1, <2>1, <3>2 DEF Settled, At
    <3> QED
      BY <3>1, <3>3
  <2>6. Agree(disk', mem', todo', phase')
    BY <1>1, <2>1, <2>3, <2>4, <2>5 DEF Agree, At
  <2> QED
    BY <2>6 DEF Agreed
<1> QED
  BY <1>2, <1>3, NoFaultYet DEF Wipe

\* open keeps it.
LEMMA openAgree == ASSUME IInv, Agreed, NEW v \in Versions, open(v, OpenLimit) PROVE Agreed'
<1>1. /\ phase' = "opening" /\ mem' = NewCache(v, OpenLimit, edits) /\ disk' = disk
      /\ todo' = Do("useBackup") \o Do("load")
  BY DEF open, Calling
<1>2. Out(mem') = <<>> /\ mem'.writer = "none" /\ mem'.out = <<>>
  BY <1>1 DEF Out, NewCache
<1>3. todo' # <<>> /\ Head(todo').do = "useBackup" /\ Final(todo') = "load"
  <2> DEFINE a == Do("useBackup")  b == Do("load")  S == {"useBackup", "load"}
  <2>1. Prog(a, S) /\ a[1].do = "useBackup" /\ Prog(b, S) /\ Final(b) = "load"
    BY DoIs DEF PlainOps
  <2>2. todo' = a \o b
    BY <1>1
  <2> HIDE DEF a, b
  <2> QED
    BY <2>1, <2>2, FrontIs DEF Prog
<1>4. Texts(disk', mem') \subseteq Texts(disk, mem)
  BY <1>1, <1>2, TextsDry DEF IInv, TypeInv
<1>5. Writes(mem', todo', phase') /\ ~Settled(disk', todo', phase')
  BY <1>1, <1>2, <1>3 DEF Writes, Settled, At, ReadyOps
<1>6. Keeps(disk, mem, todo, phase, disk', mem', todo', phase')
  BY <1>1, <1>3, <1>4, <1>5 DEF Keeps, Agreed, Agree, At
<1> QED
  BY <1>6, AgreeStep

\* A crash keeps it: so does any part of what was held back.
LEMMA CrashAgree == ASSUME IInv, Agreed, Crash PROVE Agreed'
<1>0. disk \in Disks /\ mem \in Mems /\ phase # "down"
  BY DEF IInv, TypeInv, Crash
<1>1. /\ mem' = NewCache(mem.version, mem.maxSize, mem.base) /\ todo' = <<>> /\ phase' = "down"
  BY DEF Crash
<1>2. Out(mem') = <<>> /\ FilesSensible(disk)
  BY <1>1 DEF Out, NewCache, Agreed, Agree
<1>3. Texts(disk', mem') \subseteq Texts(disk, mem) /\ FilesSensible(disk')
  <2>1. PICK n \in 0..Len(mem.out), t \in BOOLEAN :
           disk' = IF mem.writer = "open"
                    THEN [disk EXCEPT !.journal.torn = t, !.journal.lines = @ \o SubSeq(mem.out, 1, n)]
                    ELSE disk
    BY DEF Crash
  <2>2. CASE mem.writer # "open"
    <3>1. disk' = disk
      BY <2>1, <2>2
    <3> QED
      BY <1>0, <1>2, <3>1, TextsDry
  <2>3. CASE mem.writer = "open"
    <3>1. disk.journal # NoFile /\ disk.journal \in Journals /\ mem.out \in Seq(Lines)
          /\ disk.journal.lines \in Seq(Lines)
      BY <1>0, <2>3 DEF IInv, Files, Disks, Journals, Mems
    <3> DEFINE l == disk.journal.lines \o SubSeq(mem.out, 1, n)
    <3>2. l \in Seq(Lines)
      <4>1. SubSeq(mem.out, 1, n) \in Seq(Lines)
        BY <3>1, PartIs
      <4> QED
        BY <3>1, <4>1
    <3>3. disk' = [disk EXCEPT !.journal = [disk.journal EXCEPT !.torn = t, !.lines = l]]
      BY <1>0, <2>1, <2>3, <3>1 DEF Disks, Journals
    <3>l. l = disk.journal.lines \o SubSeq(mem.out, 1, n)
      OBVIOUS
    <3> HIDE DEF l
    <3> DEFINE j == [disk.journal EXCEPT !.torn = t, !.lines = l]
    <3>4. j \in Journals /\ j.lines = l
      BY <3>1, <3>2 DEF Journals
    <3>5. j # NoFile
      BY <3>4, NullAssumption
    <3> HIDE DEF j
    <3>6. disk'.journal = j /\ disk'.tmp = disk.tmp /\ disk'.backup = disk.backup /\ disk' \in Disks
      BY <1>0, <3>3, <3>4 DEF Disks, j
    <3>7. disk'.journal # NoFile /\ disk'.journal.lines = disk.journal.lines \o SubSeq(mem.out, 1, n)
      BY <3>l, <3>4, <3>5, <3>6
    <3>8. Wrote(disk, mem, disk', mem', n)
      BY <1>0, <1>2, <2>3, <3>1, <3>7, TextsWritten
    <3>9. /\ Texts(disk', mem') = {Full(disk', mem')}
          /\ Full(disk', mem') = IF Journal(disk') = NoFile THEN <<>> ELSE Journal(disk').lines
      BY <1>0, <1>2, <3>6, TextsDry
    <3>10. disk'.journal.lines \in Texts(disk, mem)
      BY <3>7, <3>8, <3>9 DEF Journal, Wrote
    <3>11. Sensible(Journaled(disk'.journal.lines))
      BY <3>10 DEF Agreed, Agree
    <3>12. FilesSensible(disk')
      BY <1>2, <3>6, <3>11 DEF FilesSensible
    <3> QED
      BY <3>8, <3>12 DEF Wrote
  <2> QED
    BY <2>2, <2>3
<1>4. Writes(mem', todo', phase') /\ ~Settled(disk', todo', phase')
  BY <1>1 DEF Writes, Settled
<1>5. Keeps(disk, mem, todo, phase, disk', mem', todo', phase')
  BY <1>1, <1>3, <1>4 DEF Keeps, At
<1> QED
  BY <1>5, AgreeStep

\* There are no lines at first.
LEMMA InitAgree == Init => Agreed
<1> SUFFICES ASSUME Init PROVE Agree(disk, mem, todo, phase)
  BY DEF Agreed
<1>1. /\ disk.journal = NoFile /\ disk.tmp = NoFile /\ disk.backup = NoFile /\ todo = <<>> /\ phase = "down"
      /\ \E v \in Versions : mem = NewCache(v, OpenLimit, 0)
  BY DEF Init, EmptyDisk
<1>2. Texts(disk, mem) = {<<>>}
  BY <1>1 DEF Texts, Journal
<1>3. Sensible(Journaled(<<>>))
  <2>1. Journaled(<<>>) = NoEntries
    BY <1>1, JournaledNone
  <2> QED
    BY <2>1 DEF Sensible, NoEntries
<1>4. FilesSensible(disk) /\ Writes(mem, todo, phase) /\ ~Settled(disk, todo, phase)
  BY <1>1 DEF FilesSensible, Writes, Settled
<1> QED
  BY <1>1, <1>2, <1>3, <1>4 DEF Agree, At

\* Every call keeps the agreement.
LEMMA CallAgree == ASSUME IInv, Agreed, Call PROVE Agreed'
<1>1. CASE \E v \in Versions : open(v, OpenLimit)
  BY <1>1, openAgree
<1>2. CASE \E k \in Keys : \/ get(k) \/ edit(k, {}) \/ remove(k) \/ commit(k) \/ abort(k) \/ RemoveStale(k)
                           \/ \E i \in Idx, l \in Lengths : set(k, i, l)
  <2>1. PICK k \in Keys : \/ get(k) \/ edit(k, {}) \/ remove(k) \/ commit(k) \/ abort(k) \/ RemoveStale(k)
                          \/ \E i \in Idx, l \in Lengths : set(k, i, l)
    BY <1>2
  <2>2. CASE get(k)
    BY <2>2, getAgree
  <2>3. CASE edit(k, {})
    BY <2>3, editAgree
  <2>4. CASE remove(k)
    BY <2>4, removeAgree
  <2>5. CASE commit(k)
    BY <2>5, commitAgree
  <2>6. CASE abort(k)
    BY <2>6, abortAgree
  <2>7. CASE RemoveStale(k)
    BY <2>7, RemoveStaleAgree
  <2>8. CASE \E i \in Idx, l \in Lengths : set(k, i, l)
    BY <2>8, setAgree
  <2> QED
    BY <2>1, <2>2, <2>3, <2>4, <2>5, <2>6, <2>7, <2>8
<1>3. CASE \E m \in Limits : setMaxSize(m)
  BY <1>3, setMaxSizeAgree
<1>4. CASE SnapshotEdit
  BY <1>4, SnapshotEditAgree
<1>5. CASE flush
  BY <1>5, flushAgree
<1>6. CASE close
  BY <1>6, closeAgree
<1>7. CASE delete
  BY <1>7, deleteAgree
<1> QED
  BY <1>1, <1>2, <1>3, <1>4, <1>5, <1>6, <1>7 DEF Call

\* So does every step of a call in which no I/O error occurs.
LEMMA StepAgree == ASSUME IInv, Agreed, faults' = 0, Steps PROVE Agreed'
<1>1. CASE UseBackup
  BY <1>1, UseBackupAgree
<1>2. CASE Load
  BY <1>2, LoadAgree
<1>3. CASE Process
  BY <1>3, ProcessAgree
<1>4. CASE Collect
  BY <1>4, CollectAgree
<1>5. CASE Unlink
  BY <1>5, UnlinkAgree
<1>6. CASE DropEntry
  BY <1>6, DropEntryAgree
<1>7. CASE Opened
  <2>1. Step("opened") /\ Continue(<<>>) /\ disk' = disk /\ mem' = mem /\ phase' = "up"
    BY <1>7 DEF Opened
  <2> QED
    BY <2>1, OpenedAgree
<1>8. CASE Fresh
  BY <1>8, FreshAgree
<1>9. CASE Created
  <2>1. Step("created") /\ Continue(<<>>) /\ disk' = disk /\ mem' = mem /\ phase' = "up"
    BY <1>9 DEF Created
  <2> QED
    BY <2>1, OpenedAgree
<1>10. CASE CloseWriter
  BY <1>10, CloseWriterAgree
<1>11. CASE WriteTmp
  BY <1>11, WriteTmpAgree
<1>12. CASE Backup
  BY <1>12, BackupAgree
<1>13. CASE Install
  BY <1>13, InstallAgree
<1>14. CASE Reopen
  BY <1>14, ReopenAgree
<1>15. CASE PublishStep
  BY <1>15, PublishAgree
<1>16. CASE Discard
  BY <1>16, DiscardAgree
<1>17. CASE Complete
  BY <1>17, CompleteAgree
<1>18. CASE FlushStep
  BY <1>18, FlushAgree
<1>19. CASE SubmitStep
  BY <1>19, SubmitAgree
<1>20. CASE Give
  BY <1>20, GiveAgree
<1>21. CASE Erase
  BY <1>21, EraseAgree
<1>22. CASE DeleteClean
  BY <1>22, DeleteCleanAgree
<1>23. CASE Removed
  BY <1>23, RemovedAgree
<1>24. CASE Trim
  BY <1>24, TrimAgree
<1>25. CASE RebuildIf
  BY <1>25, RebuildIfAgree
<1>26. CASE Zero
  BY <1>26, ZeroAgree
<1>27. CASE AbortEdit
  BY <1>27, AbortAgree
<1>28. CASE Closed
  BY <1>28, ClosedAgree
<1>29. CASE Wipe
  BY <1>29, WipeAgree
<1>30. CASE Down
  BY <1>30, DownAgree
<1> QED
  BY <1>1, <1>2, <1>3, <1>4, <1>5, <1>6, <1>7, <1>8, <1>9, <1>10, <1>11, <1>12, <1>13, <1>14, <1>15, <1>16,
     <1>17, <1>18, <1>19, <1>20, <1>21, <1>22, <1>23, <1>24, <1>25, <1>26, <1>27, <1>28, <1>29, <1>30 DEF Steps

\* A step without an I/O error, or with one.
FaultsMore == faults' = faults \/ \E kind : Fault(kind)

\* The errors are counted.
LEMMA FaultsCounted == ASSUME [Next]_vars PROVE FaultsMore
<1>1. CASE Call
  <2>1. CASE \E v \in Versions : open(v, OpenLimit)
    BY <2>1 DEF open, Calling, NoFault, FaultsMore
  <2>2. CASE \E k \in Keys : \/ get(k) \/ edit(k, {}) \/ remove(k) \/ commit(k) \/ abort(k) \/ RemoveStale(k)
                             \/ \E i \in Idx, l \in Lengths : set(k, i, l)
    <3>1. PICK k \in Keys : \/ get(k) \/ edit(k, {}) \/ remove(k) \/ commit(k) \/ abort(k) \/ RemoveStale(k)
                            \/ \E i \in Idx, l \in Lengths : set(k, i, l)
      BY <2>2
    <3>2. CASE get(k)
      BY <3>2 DEF get, Calling, NoFault, FaultsMore
    <3>3. CASE edit(k, {})
      BY <3>3 DEF edit, Calling, NoFault, FaultsMore
    <3>4. CASE remove(k)
      BY <3>4 DEF remove, Calling, NoFault, FaultsMore
    <3>5. CASE commit(k)
      BY <3>5 DEF commit, Calling, NoFault, FaultsMore
    <3>6. CASE abort(k)
      BY <3>6 DEF abort, Calling, NoFault, FaultsMore
    <3>7. CASE RemoveStale(k)
      BY <3>7 DEF RemoveStale, Calling, NoFault, FaultsMore
    <3>8. CASE \E i \in Idx, l \in Lengths : set(k, i, l)
      BY <3>8 DEF set, NoFault, FaultsMore
    <3> QED
      BY <3>1, <3>2, <3>3, <3>4, <3>5, <3>6, <3>7, <3>8
  <2>3. CASE \E m \in Limits : setMaxSize(m)
    BY <2>3 DEF setMaxSize, Calling, NoFault, FaultsMore
  <2>4. CASE SnapshotEdit
    BY <2>4 DEF SnapshotEdit, edit, Calling, NoFault, FaultsMore
  <2>5. CASE flush \/ close \/ delete
    BY <2>5 DEF flush, close, delete, Program, Calling, NoFault, FaultsMore
  <2> QED
    BY <1>1, <2>1, <2>2, <2>3, <2>4, <2>5 DEF Call
<1>2. CASE Steps
  <2>1. CASE UseBackup
    BY <2>1 DEF UseBackup, Quiet, Done, NoFault, FaultsMore
  <2>2. CASE Load
    BY <2>2 DEF Load, Quiet, Done, NoFault, FaultsMore
  <2>3. CASE Process
    BY <2>3 DEF Process, Quiet, Done, NoFault, FaultsMore
  <2>4. CASE Collect
    BY <2>4 DEF Collect, Quiet, Done, NoFault, FaultsMore
  <2>5. CASE Unlink
    BY <2>5 DEF Unlink, Quiet, Done, NoFault, FaultsMore
  <2>6. CASE DropEntry
    BY <2>6 DEF DropEntry, Quiet, Done, NoFault, FaultsMore
  <2>7. CASE Opened
    BY <2>7 DEF Opened, Quiet, Done, NoFault, FaultsMore
  <2>8. CASE Fresh
    BY <2>8 DEF Fresh, Quiet, Done, NoFault, FaultsMore
  <2>9. CASE Created
    BY <2>9 DEF Created, Quiet, Done, NoFault, FaultsMore
  <2>10. CASE CloseWriter
    BY <2>10 DEF CloseWriter, Quiet, Done, NoFault, FaultsMore
  <2>11. CASE WriteTmp
    BY <2>11 DEF WriteTmp, Quiet, Done, NoFault, FaultsMore
  <2>12. CASE Backup
    BY <2>12 DEF Backup, Quiet, Done, NoFault, FaultsMore
  <2>13. CASE Install
    BY <2>13 DEF Install, Quiet, Done, NoFault, FaultsMore
  <2>14. CASE Reopen
    BY <2>14 DEF Reopen, Quiet, Done, NoFault, FaultsMore
  <2>15. CASE PublishStep
    BY <2>15 DEF PublishStep, Quiet, Done, NoFault, FaultsMore
  <2>16. CASE Discard
    BY <2>16 DEF Discard, Quiet, Done, NoFault, FaultsMore
  <2>17. CASE Complete
    BY <2>17 DEF Complete, Quiet, Done, NoFault, FaultsMore
  <2>18. CASE FlushStep
    BY <2>18 DEF FlushStep, Quiet, Done, NoFault, FaultsMore
  <2>19. CASE SubmitStep
    BY <2>19 DEF SubmitStep, Quiet, Done, NoFault, FaultsMore
  <2>20. CASE Give
    BY <2>20 DEF Give, Quiet, Done, NoFault, FaultsMore
  <2>21. CASE Erase
    BY <2>21 DEF Erase, Quiet, Done, NoFault, FaultsMore
  <2>22. CASE DeleteClean
    BY <2>22 DEF DeleteClean, Quiet, Done, NoFault, FaultsMore
  <2>23. CASE Removed
    BY <2>23 DEF Removed, Quiet, Done, NoFault, FaultsMore
  <2>24. CASE Trim
    BY <2>24 DEF Trim, Quiet, Done, NoFault, FaultsMore
  <2>25. CASE RebuildIf
    BY <2>25 DEF RebuildIf, Quiet, Done, NoFault, FaultsMore
  <2>26. CASE Zero
    BY <2>26 DEF Zero, Quiet, Done, NoFault, FaultsMore
  <2>27. CASE AbortEdit
    BY <2>27 DEF AbortEdit, Quiet, Done, NoFault, FaultsMore
  <2>28. CASE Closed
    BY <2>28 DEF Closed, Quiet, Done, NoFault, FaultsMore
  <2>29. CASE Wipe
    BY <2>29 DEF Wipe, Quiet, Done, NoFault, FaultsMore
  <2>30. CASE Down
    BY <2>30 DEF Down, Quiet, Done, NoFault, FaultsMore
  <2> QED
    BY <1>2, <2>1, <2>2, <2>3, <2>4, <2>5, <2>6, <2>7, <2>8, <2>9, <2>10, <2>11, <2>12, <2>13, <2>14, <2>15,
       <2>16, <2>17, <2>18, <2>19, <2>20, <2>21, <2>22, <2>23, <2>24, <2>25, <2>26, <2>27, <2>28, <2>29, <2>30 DEF Steps
<1>3. CASE cleanup \/ Crash
  BY <1>3 DEF cleanup, Program, Calling, Crash, NoFault, FaultsMore
<1>4. CASE UNCHANGED vars
  BY <1>4 DEF vars, FaultsMore
<1> QED
  BY <1>1, <1>2, <1>3, <1>4 DEF Next

\* And every step of the specification, until an I/O error occurs.
LEMMA NextAgree == ASSUME IInv, AgreeInv, [Next]_vars PROVE AgreeInv'
<1> SUFFICES ASSUME faults' = 0 PROVE Agreed'
  BY DEF AgreeInv, Agreed
<1>1. Agreed
  <2>1. faults' = faults
    BY NoFaultYet, FaultsCounted DEF FaultsMore
  <2> QED
    BY <2>1 DEF AgreeInv, Agreed
<1>2. CASE Call
  BY <1>1, <1>2, CallAgree
<1>3. CASE Steps
  BY <1>1, <1>3, StepAgree
<1>4. CASE cleanup
  BY <1>1, <1>4, cleanupAgree
<1>5. CASE Crash
  BY <1>1, <1>5, CrashAgree
<1>6. CASE UNCHANGED vars
  <2>1. disk' = disk /\ mem' = mem /\ todo' = todo /\ phase' = phase
    BY <1>6 DEF vars
  <2> QED
    BY <1>1, <2>1 DEF Agreed
<1> QED
  BY <1>2, <1>3, <1>4, <1>5, <1>6 DEF Next

\* When no call is in progress, the journal says what memory says.
LEMMA AgreeFollows == IInv /\ AgreeInv => JournalAgrees
<1> DEFINE c == NewCache(mem.version, mem.maxSize, mem.base)
           r == FoldLeft(Replay, c, disk.journal.lines \o mem.out)
<1> SUFFICES ASSUME IInv, AgreeInv, phase = "up", todo = <<>>, faults = 0, NEW k \in Keys
             PROVE  /\ mem.ent[k] = NoEntry => r.ent[k] = NoEntry \/ r.ent[k].editor # NoEditor
                    /\ mem.ent[k] # NoEntry =>
                         /\ r.ent[k] # NoEntry
                         /\ (r.ent[k].editor = NoEditor) = ~Editing(k)
                         /\ ~Editing(k) => r.ent[k].readable /\ r.ent[k].len = mem.ent[k].len
  BY DEF JournalAgrees
<1>1. Agreed /\ Idle
  BY DEF AgreeInv, Agreed, Idle
<1>2. mem.writer = "open" /\ disk.journal # NoFile /\ mem \in Mems /\ disk \in Disks /\ Agree(disk, mem, <<>>, "up")
  BY <1>1, IdleWrites
<1>3. Full(disk, mem) = disk.journal.lines \o mem.out /\ Full(disk, mem) \in Seq(Lines)
  <2>1. Full(disk, mem) \in Seq(Lines)
    BY <1>2, TextsType
  <2> QED
    BY <1>2, <2>1 DEF Full, Journal, Out
<1>4. c \in Empties
  <2>1. mem.version \in Versions /\ mem.maxSize \in Nat \ {0} /\ mem.base \in Nat
    BY <1>2 DEF Mems
  <2>2. Sound(c) /\ c.lru = <<>> /\ c.ent = [x \in Keys |-> NoEntry]
    BY <2>1, NewCacheIs
  <2> QED
    BY <2>2 DEF Empties, Sound, NoEntries
<1> HIDE DEF c
<1>5. r.ent = Journaled(Full(disk, mem))
  BY <1>3, <1>4, FoldIs, ReadSame
<1> HIDE DEF r
<1>6. AgreeAt(mem.ent[k], r.ent[k])
  BY <1>2, <1>5 DEF Agree, Settled, Excused, At
<1> QED
  BY <1>6 DEF AgreeAt, Editing

(* As long as no I/O error occurs, the journal with what its writer holds  *)
(* back says of every entry what memory says, when no call is in progress: *)
(* after any calls, rebuilds, crashes at any step, and opens of what they  *)
(* left.                                                                   *)
THEOREM JournalCorrect == Spec => []JournalAgrees
<1>1. IInv /\ AgreeInv /\ [Next]_vars => IInv' /\ AgreeInv'
  BY NextHolds, NextAgree
<1>2. Init => IInv /\ AgreeInv
  BY InitHolds, InitAgree DEF AgreeInv, Agreed
<1>3. IInv /\ AgreeInv => JournalAgrees
  BY AgreeFollows
<1> QED
  BY <1>1, <1>2, <1>3, PTL DEF Spec

-----------------------------------------------------------------------------
(***************************************************************************)
(* What a crash leaves, as long as no I/O error occurs.                    *)
(***************************************************************************)
\* The edit that the call in progress is to give to its caller, and the one that
\* it brings to an end.
Giving(t, k) == t # <<>> /\ Final(t) = "give" /\ t[Len(t)].key = k
Ending(t, k) == At(t, {"publish", "discard", "complete"}) /\ Head(t).key = k

\* Every edit is held by a client, which has seen it since before the call in
\* progress began; or is about to be.
Attended(m, t, ph, sn) ==
    ph = "up" => \A k \in Keys : EditingIn(m, k) =>
      \/ Giving(t, k)
      \/ sn.draft[k] # NoDraft /\ (m.ent[k].editor.held \/ Ending(t, k))

\* What the journal file says of an entry, without what the writer holds back, is
\* what memory says; but for an edit that has ended in the call in progress.
Stored(d, m, t, ph, sn) ==
    ph = "up" /\ Settled(d, t, ph) =>
      \A k \in Keys : Resting(m, k) /\ ~Excused(t, k) =>
        \/ AgreeAt(m.ent[k], Journaled(Journal(d).lines)[k])
        \/ At(t, {"flush"}) /\ sn.draft[k] # NoDraft
Kept == Attended(mem, todo, phase, seen) /\ Stored(disk, mem, todo, phase, seen)

\* How it is kept: no edit appears but the one that is given, none loses its client
\* but the one that ends; and no entry comes to rest but one whose edit has ended.
Handed(m, t, n, u) ==
    \A k \in Keys : EditingIn(n, k) =>
      \/ Giving(u, k)
      \/ /\ EditingIn(m, k) /\ ~Giving(t, k)
         /\ Ending(u, k) \/ (n.ent[k].editor.held = m.ent[k].editor.held /\ ~Ending(t, k))
      \/ u = <<>> /\ n.ent[k].editor.held
ComesToRest(m, t, n, u, sn) ==
    \A k \in Keys : Resting(n, k) /\ ~Excused(u, k) =>
      \/ Resting(m, k) /\ ~Excused(t, k) /\ n.ent[k].len = m.ent[k].len
      \/ At(u, {"flush"}) /\ sn.draft[k] # NoDraft

\* Edits that are handed over are attended to.
LEMMA HandedKept ==
  ASSUME Observe, Attended(mem, todo, "up", seen), phase' = "up", mem' \in Mems, Handed(mem, todo, mem', todo')
  PROVE  Attended(mem', todo', "up", seen')
<1> SUFFICES ASSUME NEW k \in Keys, EditingIn(mem', k), ~Giving(todo', k)
             PROVE  seen'.draft[k] # NoDraft /\ (mem'.ent[k].editor.held \/ Ending(todo', k))
  BY DEF Attended
<1>1. CASE todo' = <<>>
  <2>1. mem'.ent[k].editor.held
    BY <1>1 DEF Handed, Attended, Ending, At
  <2>2. mem'.ent[k].editor.wrote \in Values
    BY DEF EditingIn, Mems, Entries, Editors
  <2>3. seen' = ViewOf(disk', mem', seen.value)
    BY <1>1 DEF Observe
  <2>4. seen'.draft[k] = mem'.ent[k].editor.wrote
    BY <2>1, <2>3 DEF ViewOf, EditingIn
  <2> QED
    BY <2>1, <2>2, <2>4, NullAssumption
<1>2. CASE todo' # <<>>
  <2>1. seen' = seen
    BY <1>2 DEF Observe
  <2> QED
    BY <1>2, <2>1 DEF Handed, Attended
<1> QED
  BY <1>1, <1>2

\* When nothing is held back the file says what the journal says.
LEMMA DryStored ==
  ASSUME NEW d \in Disks, NEW m \in Mems, NEW t, NEW sn, Agree(d, m, t, "up"), Out(m) = <<>>
  PROVE  Stored(d, m, t, "up", sn)
<1> SUFFICES ASSUME Settled(d, t, "up"), NEW k \in Keys, Resting(m, k), ~Excused(t, k)
             PROVE  AgreeAt(m.ent[k], Journaled(Journal(d).lines)[k])
  BY DEF Stored
<1>1. Journal(d) # NoFile /\ AgreeAt(m.ent[k], Journaled(Full(d, m))[k])
  BY DEF Agree
<1>2. Full(d, m) = IF Journal(d) = NoFile THEN <<>> ELSE Journal(d).lines
  BY TextsDry
<1> QED
  BY <1>1, <1>2

\* Entries that were at rest are in the file as they were.
LEMMA RestsStored ==
  ASSUME NEW d, NEW m, NEW t, NEW sn, NEW e, NEW n, NEW u, NEW so,
         Stored(d, m, t, "up", sn), Settled(d, t, "up"), ~At(t, {"flush"}),
         SameJournals(d, e), ComesToRest(m, t, n, u, so)
  PROVE  Stored(e, n, u, "up", so)
<1>1. Journal(e) = Journal(d)
  BY DEF SameJournals, Journal
<1> SUFFICES ASSUME NEW k \in Keys, Resting(n, k), ~Excused(u, k), ~(At(u, {"flush"}) /\ so.draft[k] # NoDraft)
             PROVE  AgreeAt(n.ent[k], Journaled(Journal(e).lines)[k])
  BY DEF Stored
<1>2. Resting(m, k) /\ ~Excused(t, k) /\ n.ent[k].len = m.ent[k].len
  BY DEF ComesToRest
<1>3. AgreeAt(m.ent[k], Journaled(Journal(d).lines)[k])
  BY <1>2 DEF Stored
<1> QED
  BY <1>1, <1>2, <1>3 DEF AgreeAt, Resting

\* A step that leaves the cache open, with all in the file, or with the file as it was.
Onward ==
    /\ Observe /\ phase = "up" /\ phase' = "up" /\ Handed(mem, todo, mem', todo')
    /\ \/ Out(mem') = <<>>
       \/ /\ ~At(todo, {"flush", "wipe", "down"}) /\ SameJournals(disk, disk')
          /\ ComesToRest(mem, todo, mem', todo', seen')

\* It keeps this.
LEMMA OnwardKept == ASSUME Kept, IInv', Agreed', Onward PROVE Kept'
<1>1. mem' \in Mems /\ disk' \in Disks /\ Agree(disk', mem', todo', "up")
  BY DEF IInv, TypeInv, Agreed, Onward
<1>2. Attended(mem', todo', "up", seen')
  BY <1>1, HandedKept DEF Onward, Kept
<1>3. Stored(disk', mem', todo', "up", seen')
  <2>1. CASE Out(mem') = <<>>
    BY <1>1, <2>1, DryStored
  <2>2. CASE Out(mem') # <<>>
    <3>1. Settled(disk, todo, "up") /\ ~At(todo, {"flush"}) /\ Stored(disk, mem, todo, "up", seen)
      BY <2>2 DEF Onward, Settled, At, Kept
    <3> QED
      BY <2>2, <3>1, RestsStored DEF Onward
  <2> QED
    BY <2>1, <2>2
<1> QED
  BY <1>2, <1>3 DEF Kept, Onward

\* So does a step to where no cache is open.
LEMMA ShutKept == ASSUME phase' # "up" PROVE Kept'
  BY DEF Kept, Attended, Stored

\* A step that is about no edit, and no removal.
Aside(t) ==
    t # <<>> => /\ Head(t).do \notin {"publish", "discard", "complete", "unlink", "dropEntry", "deleteClean", "removed"}
                /\ Final(t) # "give"
SameEntries ==
    /\ Observe /\ Aside(todo) /\ mem'.ent = mem.ent
    /\ \/ Out(mem') = <<>>
       \/ ~At(todo, {"flush", "wipe", "down"}) /\ SameJournals(disk, disk')

\* It keeps this.
LEMMA SameKept == ASSUME Kept, IInv', Agreed', phase = "up", SameEntries PROVE Kept'
<1>1. CASE phase' # "up"
  BY <1>1, ShutKept
<1>2. CASE phase' = "up"
  <2>1. Handed(mem, todo, mem', todo')
    BY DEF SameEntries, Handed, Aside, Giving, Ending, EditingIn, At
  <2>2. ComesToRest(mem, todo, mem', todo', seen')
    BY DEF SameEntries, ComesToRest, Aside, Excused, Resting, At
  <2>3. Onward
    BY <1>2, <2>1, <2>2 DEF Onward, SameEntries
  <2> QED
    BY <2>3, OnwardKept
<1> QED
  BY <1>1, <1>2

\* Only a call of edit ends with its editor.
LEMMA NotGiving ==
  ASSUME IInv, NEW op, Step(op), op \notin {"flush", "give"}
  PROVE  Final(todo) # "give" /\ \A k : ~Giving(todo, k)
<1>1. op \in StepsOf(Final(todo))
  BY StepIs
<1>2. Final(todo) # "give"
  BY <1>1 DEF StepsOf
<1> QED
  BY <1>2 DEF Giving

\* While a cache is opened nothing is asked.
LEMMA OpeningOnly ==
  ASSUME IInv, NEW op \in {"useBackup", "load", "process", "collect", "unlink", "dropEntry", "fresh", "opened", "created"},
         Step(op)
  PROVE  phase = "opening"
<1>1. /\ op \in StepsOf(Final(todo)) /\ Final(todo) \in OpenEnds \cup UpEnds
      /\ phase = (IF Final(todo) \in OpenEnds THEN "opening" ELSE "up")
  BY StepIs
<1>2. Final(todo) \in OpenEnds
  BY <1>1 DEF StepsOf, OpenEnds, UpEnds, Rebuild, Closes, Removes, Aborts, Drops
<1> QED
  BY <1>1, <1>2

\* The steps that leave the entries alone.
LEMMA SubmitKept == ASSUME IInv, Agreed, IInv', Agreed', Kept, SubmitStep PROVE Kept'
<1>1. Step("submit") /\ todo # <<>> /\ Head(todo).do = "submit" /\ disk' = disk /\ mem' = mem /\ Observe
  BY DEF SubmitStep, Step
<1>2. phase = "up"
  BY <1>1, WorkingIs DEF CacheOps, Working
<1>3. Aside(todo) /\ ~At(todo, {"flush", "wipe", "down"})
  BY <1>1, NotGiving DEF Aside, At
<1>4. SameEntries
  BY <1>1, <1>3 DEF SameEntries, SameJournals
<1> QED
  BY <1>2, <1>4, SameKept

\* Erase.
LEMMA EraseKept == ASSUME IInv, Agreed, IInv', Agreed', Kept, Erase PROVE Kept'
<1>1. Step("erase") /\ todo # <<>> /\ Head(todo).do = "erase" /\ disk' = disk /\ mem' = mem /\ Observe
  BY DEF Erase, Step
<1>2. phase = "up"
  BY <1>1, WorkingIs DEF CacheOps, Working
<1>3. Aside(todo) /\ ~At(todo, {"flush", "wipe", "down"})
  BY <1>1, NotGiving DEF Aside, At
<1>4. SameEntries
  BY <1>1, <1>3 DEF SameEntries, SameJournals
<1> QED
  BY <1>2, <1>4, SameKept

\* Zero.
LEMMA ZeroKept == ASSUME IInv, Agreed, IInv', Agreed', Kept, Zero PROVE Kept'
<1>1. /\ Step("zero") /\ todo # <<>> /\ Head(todo).do = "zero" /\ disk' = disk /\ Observe
      /\ mem' = [mem EXCEPT !.redundant = 0]
  BY DEF Zero, Step, Quiet
<1>2. phase = "up"
  BY <1>1, WorkingIs DEF CacheOps, Working
<1>3. Aside(todo) /\ ~At(todo, {"flush", "wipe", "down"})
  BY <1>1, NotGiving DEF Aside, At
<1>4. mem'.ent = mem.ent
  BY <1>1 DEF IInv, TypeInv, Mems
<1>5. SameEntries
  BY <1>1, <1>3, <1>4 DEF SameEntries, SameJournals
<1> QED
  BY <1>2, <1>5, SameKept

\* AbortEdit.
LEMMA AbortKept == ASSUME IInv, Agreed, IInv', Agreed', Kept, AbortEdit PROVE Kept'
<1>1. Step("abort") /\ todo # <<>> /\ Head(todo).do = "abort" /\ disk' = disk /\ mem' = mem /\ Observe
  BY DEF AbortEdit, Step
<1>2. phase = "up"
  BY <1>1, WorkingIs DEF CacheOps, Working
<1>3. Aside(todo) /\ ~At(todo, {"flush", "wipe", "down"})
  BY <1>1, NotGiving DEF Aside, At
<1>4. SameEntries
  BY <1>1, <1>3 DEF SameEntries, SameJournals
<1> QED
  BY <1>2, <1>4, SameKept

\* RebuildIf.
LEMMA RebuildIfKept == ASSUME IInv, Agreed, IInv', Agreed', Kept, RebuildIf PROVE Kept'
<1>1. Step("rebuildIf") /\ todo # <<>> /\ Head(todo).do = "rebuildIf" /\ disk' = disk /\ mem' = mem /\ Observe
  BY DEF RebuildIf, Step
<1>2. phase = "up"
  BY <1>1, WorkingIs DEF CacheOps, Working
<1>3. Aside(todo) /\ ~At(todo, {"flush", "wipe", "down"})
  BY <1>1, NotGiving DEF Aside, At
<1>4. SameEntries
  BY <1>1, <1>3 DEF SameEntries, SameJournals
<1> QED
  BY <1>2, <1>4, SameKept

\* A removal begins.
LEMMA RemovalKept ==
  ASSUME IInv, Agreed, IInv', Agreed', Kept, phase = "up", Observe, Aside(todo), ~At(todo, {"flush", "wipe", "down"}),
         disk' = disk, NEW k \in Keys, RemoveBegin(k)
  PROVE  Kept'
<1>1. mem \in Mems /\ todo \in Seq(StepRec)
  BY DEF IInv, TypeInv
<1>2. mem'.ent = mem.ent
  BY <1>1, RemoveHead
<1>3. SameEntries
  BY <1>2 DEF SameEntries, SameJournals
<1> QED
  BY <1>3, SameKept

\* Trim.
LEMMA TrimKept == ASSUME IInv, Agreed, IInv', Agreed', Kept, Trim PROVE Kept'
<1>1. Step("trim") /\ todo # <<>> /\ Head(todo).do = "trim" /\ disk' = disk /\ Observe /\ mem \in Mems
  BY DEF Trim, Step, IInv, TypeInv
<1>2. phase = "up"
  BY <1>1, WorkingIs DEF CacheOps, Working
<1>3. Aside(todo) /\ ~At(todo, {"flush", "wipe", "down"})
  BY <1>1, NotGiving DEF Aside, At
<1>4. CASE mem' = mem
  <2>1. SameEntries
    BY <1>1, <1>3, <1>4 DEF SameEntries, SameJournals
  <2> QED
    BY <1>2, <2>1, SameKept
<1>5. CASE mem.lru # <<>> /\ RemoveBegin(Head(mem.lru))
  <2> DEFINE k == Head(mem.lru)
  <2>1. k \in Keys /\ RemoveBegin(k)
    BY <1>1, <1>5 DEF Mems
  <2> HIDE DEF k
  <2> QED
    BY <1>1, <1>2, <1>3, <2>1, RemovalKept
<1> QED
  BY <1>4, <1>5 DEF Trim

\* The calls that remove.
LEMMA removeKept == ASSUME IInv, Agreed, IInv', Agreed', Kept, NEW k \in Keys, remove(k) PROVE Kept'
<1>1. Idle /\ RemoveBegin(k) /\ disk' = disk /\ Observe
  BY DEF remove
<1>2. phase = "up" /\ Aside(todo) /\ ~At(todo, {"flush", "wipe", "down"})
  BY <1>1 DEF Idle, Aside, At
<1> QED
  BY <1>1, <1>2, RemovalKept

\* RemoveStale.
LEMMA RemoveStaleKept == ASSUME IInv, Agreed, IInv', Agreed', Kept, NEW k \in Keys, RemoveStale(k) PROVE Kept'
<1>1. Idle /\ RemoveBegin(k) /\ disk' = disk /\ Observe
  BY DEF RemoveStale
<1>2. phase = "up" /\ Aside(todo) /\ ~At(todo, {"flush", "wipe", "down"})
  BY <1>1 DEF Idle, Aside, At
<1> QED
  BY <1>1, <1>2, RemovalKept

\* A call that leaves entries and directory alone.
LEMMA CallKept ==
  ASSUME IInv, Agreed, IInv', Agreed', Kept, Idle, Observe, SameJournals(disk, disk'), mem'.ent = mem.ent
  PROVE  Kept'
<1>1. phase = "up" /\ Aside(todo) /\ ~At(todo, {"flush", "wipe", "down"})
  BY DEF Idle, Aside, At
<1>2. SameEntries
  BY <1>1 DEF SameEntries
<1> QED
  BY <1>1, <1>2, SameKept

\* setMaxSize.
LEMMA setMaxSizeKept == ASSUME IInv, Agreed, IInv', Agreed', Kept, NEW m \in Limits, setMaxSize(m) PROVE Kept'
<1>1. Idle /\ Observe /\ disk' = disk /\ mem' = [mem EXCEPT !.maxSize = m] /\ mem \in Mems
  BY DEF setMaxSize, IInv, TypeInv
<1>2. mem'.ent = mem.ent
  BY <1>1 DEF Mems
<1> QED
  BY <1>1, <1>2, CallKept DEF SameJournals

\* The calls that only begin a program.
LEMMA ProgramKept == ASSUME IInv, Agreed, IInv', Agreed', Kept, NEW p, Program(p) PROVE Kept'
<1>1. Idle /\ Observe /\ disk' = disk /\ mem' = mem
  BY DEF Program
<1> QED
  BY <1>1, CallKept DEF SameJournals

\* get.
LEMMA getKept == ASSUME IInv, Agreed, IInv', Agreed', Kept, NEW k \in Keys, get(k) PROVE Kept'
<1> DEFINE m == [mem EXCEPT !.lru = Touch(@, k)]
           n == [m EXCEPT !.redundant = @ + 1]
           o == [n EXCEPT !.out = Append(@, Line("READ", k))]
<1>1. Idle /\ Observe /\ disk' = disk /\ mem \in Mems /\ mem' \in {m, n, o}
  BY DEF get, IInv, TypeInv
<1>2. m.ent = mem.ent
  BY <1>1 DEF Mems
<1>3. n.ent = m.ent
  BY <1>1 DEF Mems
<1>4. o.ent = n.ent
  BY <1>1 DEF Mems
<1> HIDE DEF m, n, o
<1>5. mem'.ent = mem.ent
  BY <1>1, <1>2, <1>3, <1>4
<1> QED
  BY <1>1, <1>5, CallKept DEF SameJournals

\* The steps of a rebuild, and those after close: nothing is held back.
LEMMA ClosingKept ==
  ASSUME IInv, Agreed, IInv', Agreed', Kept, Observe, phase' = phase, NEW op, Step(op),
         op \in ClosedOps \cup {"closeWriter"}, mem'.ent = mem.ent, mem' = mem \/ Out(mem') = <<>>,
         op = "closeWriter" => Out(mem') = <<>>
  PROVE  Kept'
<1>1. todo # <<>> /\ Head(todo).do = op
  BY DEF Step
<1>2. CASE phase # "up"
  BY <1>2, ShutKept
<1>3. CASE phase = "up"
  <2>1. Out(mem') = <<>>
    <3>1. op \in ClosedOps => mem.writer # "open"
      BY <1>1, <1>3 DEF Agreed, Agree, Writes, At
    <3> QED
      BY <3>1 DEF Out
  <2>2. Aside(todo)
    BY <1>1, NotGiving DEF Aside, ClosedOps
  <2>3. SameEntries
    BY <2>1, <2>2 DEF SameEntries
  <2> QED
    BY <1>3, <2>3, SameKept
<1> QED
  BY <1>2, <1>3

\* CloseWriter.
LEMMA CloseWriterKept == ASSUME IInv, Agreed, IInv', Agreed', Kept, faults' = 0, CloseWriter PROVE Kept'
<1>1. Step("closeWriter") /\ Observe /\ phase' = phase /\ mem \in Mems
      /\ mem' = [mem EXCEPT !.out = <<>>, !.writer = IF @ = "none" THEN @ ELSE "broken"]
  BY NoFaultYet DEF CloseWriter, Done, IInv, TypeInv
<1>2. mem'.ent = mem.ent /\ Out(mem') = <<>>
  BY <1>1 DEF Mems, Out
<1> QED
  BY <1>1, <1>2, ClosingKept

\* WriteTmp.
LEMMA WriteTmpKept == ASSUME IInv, Agreed, IInv', Agreed', Kept, faults' = 0, WriteTmp PROVE Kept'
<1>1. Step("writeTmp") /\ Observe /\ phase' = phase /\ mem' = mem
  BY NoFaultYet DEF WriteTmp, Done
<1> QED
  BY <1>1, ClosingKept DEF ClosedOps

\* Backup.
LEMMA BackupKept == ASSUME IInv, Agreed, IInv', Agreed', Kept, faults' = 0, Backup PROVE Kept'
<1>1. Step("backup") /\ Observe /\ phase' = phase /\ mem' = mem
  BY NoFaultYet DEF Backup, Done
<1> QED
  BY <1>1, ClosingKept DEF ClosedOps

\* Install.
LEMMA InstallKept == ASSUME IInv, Agreed, IInv', Agreed', Kept, faults' = 0, Install PROVE Kept'
<1>1. Step("install") /\ Observe /\ phase' = phase /\ mem' = mem
  BY NoFaultYet DEF Install, Done
<1> QED
  BY <1>1, ClosingKept DEF ClosedOps

\* Reopen.
LEMMA ReopenKept == ASSUME IInv, Agreed, IInv', Agreed', Kept, Reopen PROVE Kept'
<1>1. Step("reopen") /\ Observe /\ phase' = phase /\ mem \in Mems /\ mem' = [mem EXCEPT !.writer = "open", !.out = <<>>]
  BY DEF Reopen, Quiet, IInv, TypeInv
<1>2. mem'.ent = mem.ent /\ Out(mem') = <<>>
  BY <1>1 DEF Mems, Out
<1> QED
  BY <1>1, <1>2, ClosingKept DEF ClosedOps

\* Closed.
LEMMA ClosedKept == ASSUME IInv, Agreed, IInv', Agreed', Kept, Closed PROVE Kept'
<1>1. Step("closed") /\ Observe /\ phase' = phase /\ mem \in Mems /\ mem' = [mem EXCEPT !.writer = "none"]
  BY DEF Closed, IInv, TypeInv
<1>2. mem'.ent = mem.ent /\ Out(mem') = <<>>
  BY <1>1 DEF Mems, Out
<1> QED
  BY <1>1, <1>2, ClosingKept DEF ClosedOps

\* Wipe.
LEMMA WipeKept == ASSUME IInv, Agreed, IInv', Agreed', Kept, faults' = 0, Wipe PROVE Kept'
<1>1. Step("wipe") /\ Observe /\ phase' = phase /\ mem' = mem
  BY NoFaultYet DEF Wipe
<1> QED
  BY <1>1, ClosingKept DEF ClosedOps

\* FlushStep: all is in the file.
LEMMA FlushKept == ASSUME IInv, Agreed, IInv', Agreed', Kept, faults' = 0, FlushStep PROVE Kept'
<1>1. Step("flush") /\ todo # <<>> /\ Head(todo).do = "flush" /\ Observe
  BY DEF FlushStep, Step
<1>2. Working("flush") /\ mem.writer = "open" /\ mem \in Mems /\ phase = "up"
  BY <1>1, WorkingIs DEF CacheOps, Working, ClosedOps
<1>3. mem' = [mem EXCEPT !.out = <<>>] /\ Continue(<<>>) /\ Done
  BY <1>2, NoFaultYet DEF FlushStep
<1>4. todo' = Tail(todo) /\ phase' = "up"
  BY <1>1, <1>2, <1>3, Continues DEF Done
<1>5. mem'.ent = mem.ent /\ Out(mem') = <<>>
  BY <1>2, <1>3 DEF Mems, Out
<1>6. ASSUME NEW k, Giving(todo, k) PROVE Giving(todo', k)
  <2> DEFINE u == Tail(todo)
  <2>1. Popped(todo, u, phase) /\ Running(todo, phase) /\ HeadFacts(todo)
    BY <1>1, NextIs, StepIs DEF OpenEnds
  <2>2. Len(todo) # 1
    BY <1>1, <1>6, <2>1 DEF Giving, Final, HeadFacts
  <2>3. todo \in Seq(StepRec) /\ todo # <<>>
    BY <2>1 DEF Running
  <2>4. u # <<>> /\ Len(u) = Len(todo) - 1 /\ Len(u) \in DOMAIN u
    <3>1. u \in Seq(StepRec) /\ Len(u) = Len(todo) - 1 /\ Len(todo) \in Nat /\ Len(todo) > 0
      BY <2>3
    <3> HIDE DEF u
    <3>2. Len(u) \in Nat /\ DOMAIN u = 1..Len(u) /\ (u = <<>> => Len(u) = 0)
      BY <3>1
    <3> QED
      BY <2>2, <3>1, <3>2
  <2>5. u[Len(u)] = todo[Len(u) + 1]
    BY <2>1, <2>4 DEF Popped
  <2>6. Len(u) + 1 = Len(todo)
    BY <2>3, <2>4
  <2> HIDE DEF u
  <2>7. u[Len(u)] = todo[Len(todo)]
    BY <2>5, <2>6
  <2> QED
    BY <1>4, <1>6, <2>4, <2>7 DEF Giving, Final, u
<1>7. Handed(mem, todo, mem', todo')
  BY <1>1, <1>5, <1>6 DEF Handed, EditingIn, Ending, At
<1>8. Onward
  BY <1>1, <1>2, <1>4, <1>5, <1>7 DEF Onward
<1> QED
  BY <1>8, OnwardKept

\* Give: the client has its editor.
LEMMA GiveKept == ASSUME IInv, Agreed, IInv', Agreed', Kept, Give PROVE Kept'
<1> DEFINE k == Head(todo).key  e == [mem.ent[k].editor EXCEPT !.held = TRUE]
<1>1. /\ Step("give") /\ disk' = disk /\ phase' = phase /\ Observe
      /\ mem' = [mem EXCEPT !.ent[k].editor.held = TRUE]
  BY DEF Give, Quiet
<1>2. Working("give")
  BY <1>1, WorkingIs DEF CacheOps
<1>3. todo # <<>> /\ Head(todo).do = "give" /\ mem \in Mems /\ k \in Keys /\ phase = "up"
  BY <1>2 DEF Working, StepRec, PlainOps, IdxOps
<1>4. todo' = <<>> /\ Final(todo) = "give" /\ todo[Len(todo)] = Head(todo)
  BY <1>1, <1>3, Continues, LastStep DEF Give
<1>5. Known(mem, k) /\ EditingIn(mem, k)
  BY <1>3, <1>4 DEF IInv, Core, Given, Known
<1>6. mem.ent[k] \in Entries /\ mem.ent[k].editor \in Editors
  BY <1>3, <1>5 DEF EditingIn, Mems, Entries
<1>7. e \in Editors /\ e.held
  BY <1>6 DEF Editors
<1> DEFINE f == [mem.ent[k] EXCEPT !.editor = e]
<1>8. f \in Entries /\ f.editor = e /\ f.len = mem.ent[k].len
  BY <1>6, <1>7 DEF Entries
<1>9. mem'.ent = [mem.ent EXCEPT ![k] = f]
  BY <1>1, <1>3, <1>6 DEF Mems, Entries, Editors
<1>g. \A x : Giving(todo, x) <=> x = k
  BY <1>3, <1>4 DEF Giving
<1> HIDE DEF e, f, k
<1>10. mem'.ent[k] = f /\ \A x \in Keys : x # k => mem'.ent[x] = mem.ent[x]
  BY <1>3, <1>9 DEF Mems
<1>11. f # NoEntry /\ f.editor # NoEditor /\ f.editor.held
  BY <1>7, <1>8, NullAssumption
<1>12. Handed(mem, todo, mem', todo')
  BY <1>3, <1>4, <1>10, <1>11, <1>g DEF Handed, EditingIn, Ending, At
<1>13. ComesToRest(mem, todo, mem', todo', seen')
  BY <1>3, <1>10, <1>11 DEF ComesToRest, Resting, Excused, At
<1>14. Onward
  BY <1>1, <1>3, <1>12, <1>13 DEF Onward, SameJournals, At
<1> QED
  BY <1>14, OnwardKept

\* An edit stays one, and what else there is stays.
EditAlone(k) ==
    /\ EditingIn(mem, k) /\ EditingIn(mem', k)
    /\ \A x \in Keys : x # k => mem'.ent[x] = mem.ent[x]

\* A step on the way to its end.
LEMMA EndingKept ==
  ASSUME IInv, Agreed, IInv', Agreed', Kept, Observe, NEW op \in {"publish", "discard"}, Step(op), phase' = phase,
         SameJournals(disk, disk'), Ending(todo', Head(todo).key), EditAlone(Head(todo).key)
  PROVE  Kept'
<1>1. todo # <<>> /\ Head(todo).do = op /\ phase = "up"
  BY WorkingIs DEF CacheOps, Working
<1>2. \A x : ~Giving(todo, x)
  BY NotGiving
<1>3. \A x : x # Head(todo).key => ~Ending(todo, x)
  BY DEF Ending
<1>4. Handed(mem, todo, mem', todo')
  BY <1>2, <1>3 DEF Handed, EditAlone, EditingIn
<1>5. ComesToRest(mem, todo, mem', todo', seen')
  BY <1>1 DEF ComesToRest, Resting, Excused, At, EditAlone, EditingIn
<1>6. Onward
  BY <1>1, <1>4, <1>5 DEF Onward, At
<1> QED
  BY <1>6, OnwardKept

\* Discard.
LEMMA DiscardKept == ASSUME IInv, Agreed, IInv', Agreed', Kept, faults' = 0, Discard PROVE Kept'
<1> DEFINE k == Head(todo).key  i == Head(todo).idx
<1>1. Step("discard") /\ todo # <<>> /\ Head(todo).do = "discard" /\ mem' = mem /\ disk \in Disks /\ Observe
  BY DEF Discard, Step, IInv, TypeInv
<1>2. disk' = [disk EXCEPT !.dirty[k][i] = NoFile] /\ Continue(<<>>) /\ Done
  BY NoFaultYet DEF Discard
<1>3. todo' = Tail(todo) /\ phase' = phase
  BY <1>1, <1>2, Continues DEF Done
<1>4. Advances(todo, todo')
  BY <1>1, <1>3, IndexNext DEF IdxOps
<1>5. k \in Keys /\ i \in Idx /\ Ending(todo', k)
  BY <1>1, <1>4 DEF Advances, AfterOps, Ending, At
<1>6. SameJournals(disk, disk')
  BY <1>1, <1>2, <1>5 DEF Disks, SameJournals
<1>7. EditAlone(k)
  BY <1>1 DEF IInv, Core, Ready, At, EditAlone
<1> QED
  BY <1>1, <1>3, <1>5, <1>6, <1>7, EndingKept

\* PublishStep.
LEMMA PublishKept == ASSUME IInv, Agreed, IInv', Agreed', Kept, faults' = 0, PublishStep PROVE Kept'
<1> DEFINE k == Head(todo).key  i == Head(todo).idx  c == disk.dirty[k][i]
<1>1. Step("publish") /\ todo # <<>> /\ Head(todo).do = "publish" /\ disk \in Disks /\ phase' = phase /\ Observe
      /\ mem \in Mems /\ Listed(mem) /\ HeldKnown(mem)
  BY DEF PublishStep, Step, IInv, TypeInv, Core
<1>2. todo' = Tail(todo)
  BY <1>1, Continues DEF PublishStep
<1>4. Advances(todo, todo')
  BY <1>1, <1>2, IndexNext DEF IdxOps
<1>5. k \in Keys /\ i \in Idx /\ Ending(todo', k)
  BY <1>1, <1>4 DEF Advances, AfterOps, Ending, At
<1>6. EditingIn(mem, k)
  BY <1>1 DEF IInv, Core, Ready, At
<1>8. \/ c = NoFile /\ disk' = disk /\ mem' = mem
      \/ /\ c # NoFile /\ mem' = Resized(mem, k, i, c.len)
         /\ disk' = [disk EXCEPT !.clean[k][i] = c, !.dirty[k][i] = NoFile]
  BY NoFaultYet DEF PublishStep
<1>9. SameJournals(disk, disk')
  BY <1>1, <1>5, <1>8 DEF Disks, SameJournals
<1>10. EditAlone(k)
  <2>1. CASE mem' = mem
    BY <1>6, <2>1 DEF EditAlone
  <2>2. CASE c # NoFile /\ mem' = Resized(mem, k, i, c.len)
    <3> DEFINE v == c.len
    <3>1. v \in Nat
      <4>1. c \in Contents
        BY <1>1, <1>5, <2>2 DEF Disks, Values
      <4> QED
        BY <4>1, LimitAssumption DEF Contents
    <3>2. mem' = Resized(mem, k, i, v)
      BY <2>2
    <3> HIDE DEF v, k, i, c
    <3>3. Resizes(mem, mem', k, i, v)
      BY <1>5, <1>6, <3>1, <3>2 DEF Resizes, EditingIn
    <3>4. IsResized(mem, mem', k, i, v)
      BY <1>1, <3>3, ResizedIs
    <3> QED
      BY <1>6, <3>4 DEF IsResized, EditingIn, EditAlone
  <2> QED
    BY <1>8, <2>1, <2>2
<1> QED
  BY <1>1, <1>5, <1>9, <1>10, EndingKept

\* DeleteClean: the entry is being removed.
LEMMA DeleteCleanKept == ASSUME IInv, Agreed, IInv', Agreed', Kept, faults' = 0, DeleteClean PROVE Kept'
<1> DEFINE k == Head(todo).key  i == Head(todo).idx
<1>1. Step("deleteClean") /\ todo # <<>> /\ Head(todo).do = "deleteClean" /\ disk \in Disks
      /\ mem \in Mems /\ Listed(mem) /\ HeldKnown(mem) /\ Observe
  BY DEF DeleteClean, Step, IInv, TypeInv, Core
<1>2. disk' = [disk EXCEPT !.clean[k][i] = NoFile] /\ mem' = Resized(mem, k, i, 0) /\ Continue(<<>>) /\ Done
  BY NoFaultYet DEF DeleteClean
<1>3. todo' = Tail(todo) /\ phase' = phase
  BY <1>1, <1>2, Continues DEF Done
<1>4. Advances(todo, todo')
  BY <1>1, <1>3, IndexNext DEF IdxOps
<1>5. k \in Keys /\ i \in Idx /\ todo' # <<>> /\ Head(todo').key = k /\ Head(todo').do \in {"deleteClean", "removed"}
  BY <1>1, <1>4 DEF Advances, AfterOps
<1>6. Head(todo').do = "deleteClean" => Head(todo').idx # 0
  <2>1. Follows(Head(todo), Head(todo'))
    BY <1>1, <1>3, <1>5, NextIs DEF OpenEnds
  <2>2. Head(todo').do = "deleteClean" => Head(todo').idx = i + 1
    BY <1>1, <2>1 DEF Follows, NextIndex
  <2>3. i \in Nat
    BY <1>5, IdxFacts
  <2> HIDE DEF i
  <2>4. i + 1 # 0
    BY <2>3
  <2> QED
    BY <2>2, <2>4
<1>7. SameJournals(disk, disk')
  BY <1>1, <1>2, <1>5 DEF Disks, SameJournals
<1>8. Resting(mem, k)
  BY <1>1 DEF IInv, Core, Ready, At
<1>9. IsResized(mem, mem', k, i, 0)
  <2>1. Resizes(mem, mem', k, i, 0)
    BY <1>2, <1>5, <1>8 DEF Resizes, Resting
  <2> QED
    BY <1>1, <2>1, ResizedIs
<1>10. phase = "up" /\ \A x : ~Giving(todo, x)
  BY <1>1, WorkingIs, NotGiving DEF CacheOps, Working
<1>k. k = Head(todo).key
  OBVIOUS
<1>11. Excused(todo', k)
  BY <1>5, <1>6 DEF Excused, At
<1> HIDE DEF k, i
<1>12. ComesToRest(mem, todo, mem', todo', seen')
  BY <1>9, <1>11, <1>k DEF ComesToRest, IsResized, Resting, Excused
<1>13. Handed(mem, todo, mem', todo')
  BY <1>1, <1>8, <1>9, <1>10 DEF Handed, IsResized, EditingIn, Resting, Ending, At
<1>14. Onward
  BY <1>1, <1>3, <1>7, <1>10, <1>12, <1>13 DEF Onward, At
<1> QED
  BY <1>14, OnwardKept

\* Removed: the entry is gone.
LEMMA RemovedKept == ASSUME IInv, Agreed, IInv', Agreed', Kept, Removed PROVE Kept'
<1> DEFINE k == Head(todo).key
           m == [mem EXCEPT !.redundant = @ + 1]
           r == Line("REMOVE", k)
           n == [m EXCEPT !.out = Append(@, r), !.lru = Without(@, k), !.ent[k] = NoEntry]
<1>1. Step("removed") /\ todo # <<>> /\ Head(todo).do = "removed" /\ disk' = disk /\ Observe
  BY DEF Removed, Step
<1>2. /\ Working("removed") /\ mem.writer = "open" /\ mem \in Mems /\ phase = "up" /\ k \in Keys
  BY <1>1, WorkingIs DEF CacheOps, Working, ClosedOps, StepRec, PlainOps, IdxOps
<1>3. mem' = n /\ Done
  BY <1>2 DEF Removed
<1>4. phase' = "up" /\ \A x : ~Giving(todo, x)
  BY <1>1, <1>2, <1>3, NotGiving DEF Done
<1>6. m.ent = mem.ent
  BY <1>2 DEF Mems
<1>7. mem'.ent = [mem.ent EXCEPT ![k] = NoEntry]
  <2>1. mem'.ent = [m.ent EXCEPT ![k] = NoEntry]
    BY <1>2, <1>3 DEF Mems
  <2> QED
    BY <1>6, <2>1
<1>8. mem'.ent[k] = NoEntry /\ \A x \in Keys : x # k => mem'.ent[x] = mem.ent[x]
  BY <1>2, <1>7 DEF Mems
<1>k. k = Head(todo).key
  OBVIOUS
<1> HIDE DEF k, m, n, r
<1>9. ComesToRest(mem, todo, mem', todo', seen')
  BY <1>8, <1>k DEF ComesToRest, Resting, Excused
<1>10. Handed(mem, todo, mem', todo')
  BY <1>1, <1>4, <1>8 DEF Handed, EditingIn, Ending, At
<1>11. Onward
  BY <1>1, <1>2, <1>4, <1>9, <1>10 DEF Onward, SameJournals, At
<1> QED
  BY <1>11, OnwardKept

\* Complete: the line of an edit that has ended is about to be written.
LEMMA CompleteKept == ASSUME IInv, Agreed, IInv', Agreed', Kept, Complete PROVE Kept'
<1> DEFINE k == Head(todo).key  st == mem.ent[k].readable \/ Head(todo).ok
<1>1. Step("complete") /\ todo # <<>> /\ Head(todo).do = "complete" /\ disk' = disk /\ Observe
  BY DEF Complete, Step
<1>2. Working("complete") /\ mem.writer = "open" /\ phase = "up" /\ k \in Keys /\ EditingIn(mem, k)
  <2>1. Working("complete") /\ mem.writer = "open" /\ phase = "up"
    BY <1>1, WorkingIs DEF CacheOps, Working, ClosedOps
  <2>2. k \in Keys
    BY <1>1, <2>1 DEF Working, StepRec, PlainOps, KeyOps, IdxOps
  <2>3. EditingIn(mem, k)
    BY <1>1 DEF IInv, Core, Ready, At
  <2> QED
    BY <2>1, <2>2, <2>3
<1>3. Completed(mem, mem', k, st) /\ Continue(<<>>) /\ Done
  BY <1>2, CompletedIs
<1>4. todo' = Tail(todo) /\ phase' = "up"
  BY <1>1, <1>2, <1>3, Continues DEF Done
<1>5. Head(todo').do = "flush" /\ todo' # <<>>
  <2>1. Tail(todo) # <<>>
    <3>1. Running(todo, phase)
      BY <1>1, StepIs
    <3> QED
      BY <1>1, <3>1, NotLast DEF OpenEnds, UpEnds
  <2> QED
    BY <1>1, <1>4, <2>1, NextIs DEF OpenEnds, Follows
<1>6. \A x : ~Giving(todo, x)
  BY <1>1, NotGiving
<1>7. seen' = seen
  BY <1>1, <1>5 DEF Observe
<1>8. seen'.draft[k] # NoDraft
  BY <1>2, <1>6, <1>7 DEF Kept, Attended
<1>k. \A x : x # k => ~Ending(todo, x)
  BY DEF Ending
<1> HIDE DEF k, st
<1>9. ComesToRest(mem, todo, mem', todo', seen')
  <2> SUFFICES ASSUME NEW x \in Keys, Resting(mem', x), ~Excused(todo', x)
               PROVE  \/ Resting(mem, x) /\ ~Excused(todo, x) /\ mem'.ent[x].len = mem.ent[x].len
                      \/ At(todo', {"flush"}) /\ seen'.draft[x] # NoDraft
    BY DEF ComesToRest
  <2>1. CASE x = k
    BY <1>5, <1>8, <2>1 DEF At
  <2>2. CASE x # k
    BY <1>1, <1>3, <2>2 DEF Completed, Resting, Excused, At
  <2> QED
    BY <2>1, <2>2
<1>10. Handed(mem, todo, mem', todo')
  <2> SUFFICES ASSUME NEW x \in Keys, EditingIn(mem', x)
               PROVE  /\ EditingIn(mem, x) /\ ~Giving(todo, x)
                      /\ mem'.ent[x].editor.held = mem.ent[x].editor.held /\ ~Ending(todo, x)
    BY DEF Handed
  <2>1. x # k
    BY <1>3 DEF Completed, EditingIn
  <2> QED
    BY <1>3, <1>6, <1>k, <2>1 DEF Completed, EditingIn
<1>11. Onward
  BY <1>1, <1>2, <1>4, <1>9, <1>10 DEF Onward, SameJournals, At
<1> QED
  BY <1>11, OnwardKept

\* Alike memories have the same edits, but for who holds them, and the same entries at rest.
LEMMA AlikeRests ==
  ASSUME NEW m, NEW t, NEW n, NEW u, NEW sn, Alike(m, n), t = <<>>
  PROVE  ComesToRest(m, t, n, u, sn) /\ \A k \in Keys : EditingIn(n, k) <=> EditingIn(m, k)
  BY DEF Alike, ComesToRest, Resting, Excused, EditingIn, At

\* An edit ends.
LEMMA EditEndsKept ==
  ASSUME IInv, Agreed, IInv', Agreed', Kept, NEW k \in Keys, EditEnds(k), NEW ok \in BOOLEAN,
         \/ todo' = CompleteProgram(k, ok)
         \/ todo' = CompleteProgram(k, FALSE) \o DoKey("erase", k)
  PROVE  Kept'
<1>1. Held(k) /\ LetGo(k) /\ Idle /\ disk' = disk /\ phase' = phase /\ Observe /\ todo = <<>> /\ phase = "up"
  BY DEF EditEnds, Held, Idle
<1>2. HeldFacts(k)
  BY <1>1, HeldIs
<1>3. Alike(mem, mem')
  BY <1>1, <1>2, LetGoAlike
<1>h. \A x \in Keys : x # k => mem'.ent[x] = mem.ent[x]
  <2>1. mem \in Mems /\ mem.ent[k] \in Entries /\ mem.ent[k].editor \in Editors
    BY <1>2 DEF HeldFacts, IdleFacts
  <2>2. mem'.ent = [mem.ent EXCEPT ![k].editor.held = FALSE]
    BY <1>1, <2>1 DEF LetGo, Mems
  <2> QED
    BY <2>1, <2>2 DEF Mems
<1> DEFINE a == CompleteProgram(k, FALSE)  b == CompleteProgram(k, ok)  c == DoKey("erase", k)
<1>4. a \in Seq(StepRec) /\ a # <<>> /\ a[1].do = "discard" /\ a[1].key = k
  <2>1. Prog(a, Aborts) /\ a[1] = [do |-> "discard", key |-> k, idx |-> 0]
    BY CompleteProgramIs
  <2> HIDE DEF a
  <2> QED
    BY <2>1 DEF Prog
<1>5. b \in Seq(StepRec) /\ b # <<>> /\ b[1].do \in {"publish", "discard"} /\ b[1].key = k
  <2>1. /\ Prog(b, IF ok THEN Aborts \cup {"publish"} ELSE Aborts)
        /\ b[1] = [do |-> IF ok THEN "publish" ELSE "discard", key |-> k, idx |-> 0]
    BY CompleteProgramIs
  <2> HIDE DEF b
  <2> QED
    BY <2>1 DEF Prog
<1>6. c \in Seq(StepRec)
  <2>1. Prog(c, {"erase"})
    BY DoKeyIs DEF KeyOps
  <2> HIDE DEF c
  <2> QED
    BY <2>1 DEF Prog
<1>7. todo' = b \/ todo' = a \o c
  OBVIOUS
<1> HIDE DEF a, b, c
<1>8. todo' # <<>> /\ Head(todo').do \in {"publish", "discard"} /\ Head(todo').key = k
  <2>1. a \o c # <<>> /\ Head(a \o c) = a[1] /\ Head(b) = b[1]
    BY <1>4, <1>5, <1>6, FrontIs
  <2> QED
    BY <1>4, <1>5, <1>7, <2>1
<1>9. ComesToRest(mem, todo, mem', todo', seen') /\ \A x \in Keys : EditingIn(mem', x) <=> EditingIn(mem, x)
  BY <1>1, <1>3, AlikeRests
<1>10. Handed(mem, todo, mem', todo')
  BY <1>1, <1>8, <1>9, <1>h DEF Handed, Giving, Ending, At
<1>11. Onward
  BY <1>1, <1>9, <1>10 DEF Onward, SameJournals, At
<1> QED
  BY <1>11, OnwardKept

\* commit.
LEMMA commitKept == ASSUME IInv, Agreed, IInv', Agreed', Kept, NEW k \in Keys, commit(k) PROVE Kept'
<1> DEFINE e == mem.ent[k]
           complete == ~(~e.readable /\ \E i \in Idx : i \notin e.editor.written \/ disk.dirty[k][i] = NoFile)
<1>1. EditEnds(k)
  BY DEF commit, EditEnds
<1>2. complete \in BOOLEAN
  OBVIOUS
<1>3. \/ todo' = CompleteProgram(k, complete)
      \/ todo' = CompleteProgram(k, FALSE) \o DoKey("erase", k)
  BY DEF commit
<1> HIDE DEF complete
<1> QED
  BY <1>1, <1>2, <1>3, EditEndsKept

\* abort.
LEMMA abortKept == ASSUME IInv, Agreed, IInv', Agreed', Kept, NEW k \in Keys, abort(k) PROVE Kept'
<1>1. EditEnds(k) /\ todo' = CompleteProgram(k, FALSE)
  BY DEF abort, EditEnds
<1> QED
  BY <1>1, EditEndsKept

\* set: the client holds its editor as before.
LEMMA setKept ==
  ASSUME IInv, Agreed, IInv', Agreed', Kept, NEW k \in Keys, NEW i \in Idx, NEW l \in Lengths, set(k, i, l)
  PROVE  Kept'
<1>0. SetDoes(k, i) /\ Held(k) /\ Idle /\ Observe /\ phase' = phase
  BY SetIs DEF set, Held
<1>1. /\ HeldFacts(k) /\ mem \in Mems /\ todo = <<>> /\ phase = "up" /\ EditingIn(mem, k) /\ SameJournals(disk, disk')
      /\ mem.ent[k] \in Entries /\ mem.ent[k].editor.held
  BY <1>0 DEF SetDoes, HeldFacts, IdleFacts, SameJournals, Held
<1>2. PICK e \in Editors : e.id = mem.ent[k].editor.id /\ e.held = mem.ent[k].editor.held
                          /\ mem' = [mem EXCEPT !.ent[k].editor = e]
  BY <1>0 DEF SetDoes
<1>3. Alike(mem, mem') /\ Out(mem') = Out(mem) /\ mem'.writer = mem.writer
  BY <1>1, <1>2, PutAlike
<1>e. mem'.ent[k].editor = e
  BY <1>1, <1>2 DEF Mems, Entries
<1>h. \A x \in Keys : x # k => mem'.ent[x] = mem.ent[x]
  <2>1. mem'.ent = [mem.ent EXCEPT ![k].editor = e]
    BY <1>1, <1>2 DEF Mems
  <2> QED
    BY <1>1, <2>1 DEF Mems
<1>4. ComesToRest(mem, todo, mem', todo', seen') /\ \A x \in Keys : EditingIn(mem', x) <=> EditingIn(mem, x)
  BY <1>1, <1>3, AlikeRests
<1>5. \A x \in Keys : EditingIn(mem', x) => mem'.ent[x].editor.held = mem.ent[x].editor.held
  BY <1>2, <1>e, <1>h
<1>6. Handed(mem, todo, mem', todo')
  BY <1>1, <1>4, <1>5 DEF Handed, Giving, Ending, At
<1>7. Onward
  BY <1>0, <1>1, <1>4, <1>6 DEF Onward, At
<1> QED
  BY <1>7, OnwardKept

\* edit: the caller is to get the editor.
LEMMA editKept == ASSUME IInv, Agreed, IInv', Agreed', Kept, NEW k \in Keys, NEW expected, edit(k, expected) PROVE Kept'
<1>0. Idle /\ disk' = disk /\ phase' = phase /\ EditDoes(k) /\ Observe
  BY EditIs DEF edit
<1>1. mem.writer = "open" /\ mem \in Mems /\ phase = "up" /\ todo = <<>>
  BY <1>0, IdleWrites
<1>2. CASE EditRefused
  BY <1>0, <1>2, CallKept DEF EditRefused, SameJournals
<1>3. CASE EditBegun(k)
  <2>1. PICK f : EditorNew(mem, f, k, edits + 1) /\ mem'.ent = [mem.ent EXCEPT ![k] = f]
    BY <1>3 DEF EditBegun
  <2>2. /\ mem'.ent[k] = f /\ \A x \in Keys : x # k => mem'.ent[x] = mem.ent[x]
        /\ f # NoEntry /\ f.editor # NoEditor
    BY <1>1, <2>1, NullAssumption DEF EditorNew, Mems
  <2>3. todo' = EditProgram(k)
    BY <1>1, <1>3 DEF EditBegun
  <2>4. Giving(todo', k)
    <3> DEFINE p == Do("flush")  q == DoKey("give", k)
    <3>1. p \in Seq(StepRec) /\ q \in Seq(StepRec)
      BY DoIs, DoKeyIs DEF Prog, PlainOps, KeyOps
    <3>2. q # <<>> /\ q[Len(q)] = [do |-> "give", key |-> k]
      BY DEF DoKey
    <3>3. todo' = p \o q
      BY <2>3 DEF EditProgram
    <3> HIDE DEF p, q
    <3>4. todo' # <<>> /\ todo'[Len(todo')] = [do |-> "give", key |-> k]
      BY <3>1, <3>2, <3>3, FrontIs
    <3> QED
      BY <3>4 DEF Giving, Final
  <2>5. Handed(mem, todo, mem', todo')
    <3> SUFFICES ASSUME NEW x \in Keys, EditingIn(mem', x), x # k
                 PROVE  /\ EditingIn(mem, x) /\ ~Giving(todo, x)
                        /\ mem'.ent[x].editor.held = mem.ent[x].editor.held /\ ~Ending(todo, x)
      BY <2>4 DEF Handed
    <3> QED
      BY <1>1, <2>2 DEF EditingIn, Giving, Ending, At
  <2>6. ComesToRest(mem, todo, mem', todo', seen')
    BY <1>1, <2>2 DEF ComesToRest, Resting, Excused, At
  <2>7. Onward
    BY <1>0, <1>1, <2>5, <2>6 DEF Onward, SameJournals, At
  <2> QED
    BY <2>7, OnwardKept
<1> QED
  BY <1>0, <1>2, <1>3 DEF EditDoes

\* SnapshotEdit.
LEMMA SnapshotEditKept == ASSUME IInv, Agreed, IInv', Agreed', Kept, SnapshotEdit PROVE Kept'
<1>1. snap.key \in Keys /\ edit(snap.key, {snap.seq})
  BY DEF SnapshotEdit, IInv, TypeInv, Snapshots
<1> QED
  BY <1>1, editKept

\* A cache that has been opened has no edits.
LEMMA OpenedKept ==
  ASSUME IInv, Agreed, IInv', Agreed', Kept, NEW op \in {"opened", "created"}, Step(op), Continue(<<>>), mem' = mem,
         phase' = "up", Observe
  PROVE  Kept'
<1>1. todo # <<>> /\ Head(todo).do = op /\ phase = "opening"
  BY StepIs, OpeningOnly
<1>2. Tail(todo) = <<>> /\ Final(todo) = op /\ DOMAIN todo = {1} /\ todo[1] = Head(todo)
  BY <1>1, LastStep
<1>3. todo' = <<>>
  BY <1>1, <1>2, Continues
<1>4. mem \in Mems /\ Listed(mem) /\ Sized(mem, todo, phase)
  BY DEF IInv, Core
<1>5. \A k \in Keys : ~EditingIn(mem, k)
  <2>1. CASE op = "created"
    <3>1. mem.lru = <<>>
      BY <1>1, <1>2, <1>4, <2>1 DEF Sized
    <3> QED
      BY <1>4, <3>1, NoList DEF EditingIn
  <2>2. CASE op = "opened"
    <3>1. EditingKeys(mem) \subseteq Pend(mem, todo)
      BY <1>1, <1>2, <1>4, <2>2 DEF Sized, Uncounted
    <3>2. Pend(mem, todo) = {}
      BY <1>1, <1>2, <2>2 DEF Pend, At, Reloads, Rebuild, CollectKeys, Gathers, Unlinked
    <3> QED
      BY <3>1, <3>2 DEF EditingKeys
  <2> QED
    BY <2>1, <2>2
<1>6. Attended(mem', todo', "up", seen')
  BY <1>5 DEF Attended, EditingIn
<1>7. Out(mem') = <<>>
  BY <1>1 DEF Agreed, Agree, Writes, Out
<1>8. mem' \in Mems /\ disk' \in Disks /\ Agree(disk', mem', todo', "up")
  BY DEF IInv, TypeInv, Agreed
<1>9. Stored(disk', mem', todo', "up", seen')
  BY <1>7, <1>8, DryStored
<1> QED
  BY <1>6, <1>9 DEF Kept

\* At first no cache is open.
LEMMA InitKept == Init => Kept
  BY DEF Init, Kept, Attended, Stored

\* Every call keeps this.
LEMMA CallsKept == ASSUME IInv, Agreed, IInv', Agreed', Kept, Call PROVE Kept'
<1>1. CASE \E v \in Versions : open(v, OpenLimit)
  BY <1>1, ShutKept DEF open
<1>2. CASE \E k \in Keys : \/ get(k) \/ edit(k, {}) \/ remove(k) \/ commit(k) \/ abort(k) \/ RemoveStale(k)
                           \/ \E i \in Idx, l \in Lengths : set(k, i, l)
  <2>1. PICK k \in Keys : \/ get(k) \/ edit(k, {}) \/ remove(k) \/ commit(k) \/ abort(k) \/ RemoveStale(k)
                          \/ \E i \in Idx, l \in Lengths : set(k, i, l)
    BY <1>2
  <2>2. CASE get(k)
    BY <2>2, getKept
  <2>3. CASE edit(k, {})
    BY <2>3, editKept
  <2>4. CASE remove(k)
    BY <2>4, removeKept
  <2>5. CASE commit(k)
    BY <2>5, commitKept
  <2>6. CASE abort(k)
    BY <2>6, abortKept
  <2>7. CASE RemoveStale(k)
    BY <2>7, RemoveStaleKept
  <2>8. CASE \E i \in Idx, l \in Lengths : set(k, i, l)
    BY <2>8, setKept
  <2> QED
    BY <2>1, <2>2, <2>3, <2>4, <2>5, <2>6, <2>7, <2>8
<1>3. CASE \E m \in Limits : setMaxSize(m)
  BY <1>3, setMaxSizeKept
<1>4. CASE SnapshotEdit
  BY <1>4, SnapshotEditKept
<1>5. CASE flush
  BY <1>5, ProgramKept DEF flush
<1>6. CASE close
  BY <1>6, ProgramKept DEF close
<1>7. CASE delete
  BY <1>7, ProgramKept DEF delete
<1> QED
  BY <1>1, <1>2, <1>3, <1>4, <1>5, <1>6, <1>7 DEF Call

\* The steps of an open that go on with it.
OpenStep == UseBackup \/ Load \/ Process \/ Collect \/ Unlink \/ DropEntry \/ Fresh

\* So they do.
LEMMA OpeningKept == ASSUME IInv, faults' = 0, OpenStep PROVE Kept'
<1>1. PICK op \in {"useBackup", "load", "process", "collect", "unlink", "dropEntry", "fresh"} : Step(op)
  BY DEF OpenStep, UseBackup, Load, Process, Collect, Unlink, DropEntry, Fresh
<1>2. phase = "opening"
  BY <1>1, OpeningOnly
<1>3. phase' = phase
  BY NoFaultYet DEF OpenStep, UseBackup, Load, Process, Collect, Unlink, DropEntry, Fresh, Quiet, Done
<1> QED
  BY <1>2, <1>3, ShutKept

\* So does every step of a call in which no I/O error occurs.
LEMMA StepsKept == ASSUME IInv, Agreed, IInv', Agreed', Kept, faults' = 0, Steps PROVE Kept'
<1>1. CASE OpenStep
  BY <1>1, OpeningKept
<1>2. CASE Opened
  <2>1. Step("opened") /\ Continue(<<>>) /\ mem' = mem /\ phase' = "up" /\ Observe
    BY <1>2 DEF Opened
  <2> QED
    BY <2>1, OpenedKept
<1>3. CASE Created
  <2>1. Step("created") /\ Continue(<<>>) /\ mem' = mem /\ phase' = "up" /\ Observe
    BY <1>3 DEF Created
  <2> QED
    BY <2>1, OpenedKept
<1>4. CASE CloseWriter
  BY <1>4, CloseWriterKept
<1>5. CASE WriteTmp
  BY <1>5, WriteTmpKept
<1>6. CASE Backup
  BY <1>6, BackupKept
<1>7. CASE Install
  BY <1>7, InstallKept
<1>8. CASE Reopen
  BY <1>8, ReopenKept
<1>9. CASE PublishStep
  BY <1>9, PublishKept
<1>10. CASE Discard
  BY <1>10, DiscardKept
<1>11. CASE Complete
  BY <1>11, CompleteKept
<1>12. CASE FlushStep
  BY <1>12, FlushKept
<1>13. CASE SubmitStep
  BY <1>13, SubmitKept
<1>14. CASE Give
  BY <1>14, GiveKept
<1>15. CASE Erase
  BY <1>15, EraseKept
<1>16. CASE DeleteClean
  BY <1>16, DeleteCleanKept
<1>17. CASE Removed
  BY <1>17, RemovedKept
<1>18. CASE Trim
  BY <1>18, TrimKept
<1>19. CASE RebuildIf
  BY <1>19, RebuildIfKept
<1>20. CASE Zero
  BY <1>20, ZeroKept
<1>21. CASE AbortEdit
  BY <1>21, AbortKept
<1>22. CASE Closed
  BY <1>22, ClosedKept
<1>23. CASE Wipe
  BY <1>23, WipeKept
<1>24. CASE Down
  BY <1>24, ShutKept DEF Down
<1> QED
  BY <1>1, <1>2, <1>3, <1>4, <1>5, <1>6, <1>7, <1>8, <1>9, <1>10, <1>11, <1>12, <1>13, <1>14, <1>15,
     <1>16, <1>17, <1>18, <1>19, <1>20, <1>21, <1>22, <1>23, <1>24 DEF Steps, OpenStep

\* As long as no I/O error occurs, this and what was said of the files holds.
KeptInv == faults = 0 => Kept /\ LeakInv

\* And every step of the specification keeps it.
LEMMA NextKept == ASSUME IInv, AgreeInv, IInv', AgreeInv', KeptInv, [Next]_vars PROVE KeptInv'
<1> SUFFICES ASSUME faults' = 0 PROVE Kept' /\ LeakInv'
  BY DEF KeptInv
<1>1. Agreed /\ Agreed' /\ Kept /\ LeakInv
  <2>1. faults' = faults
    BY NoFaultYet, FaultsCounted DEF FaultsMore
  <2>2. faults = 0
    BY <2>1
  <2>3. Agreed /\ Kept /\ LeakInv
    BY <2>2 DEF AgreeInv, KeptInv, Agreed
  <2>4. Agreed'
    BY DEF AgreeInv, Agreed
  <2> QED
    BY <2>3, <2>4
<1>2. LeakInv'
  BY <1>1, NoFaultYet, NextLeak
<1>3. CASE Call
  BY <1>1, <1>2, <1>3, CallsKept
<1>4. CASE Steps
  BY <1>1, <1>2, <1>4, StepsKept
<1>5. CASE cleanup
  BY <1>1, <1>2, <1>5, ProgramKept DEF cleanup
<1>6. CASE Crash
  BY <1>2, <1>6, ShutKept DEF Crash
<1>7. CASE UNCHANGED vars
  <2>1. disk' = disk /\ mem' = mem /\ todo' = todo /\ phase' = phase /\ seen' = seen
    BY <1>7 DEF vars
  <2> QED
    BY <1>1, <1>2, <2>1 DEF Kept
<1> QED
  BY <1>3, <1>4, <1>5, <1>6, <1>7, <1>2 DEF Next

\* What is not being removed has all its files, and the other way round.
LEMMA VisibleStays ==
  ASSUME IInv, phase = "up", Worked(disk, todo), NEW k \in Keys, Visible(k)
  PROVE  ~Excused(todo, k) /\ ~NoValues(disk)
<1>1. 0 \in Idx
  BY LimitAssumption DEF Idx
<1>2. \A i \in Idx : disk.clean[k][i] # NoFile
  BY DEF Visible, VisibleIn
<1>3. ~NoValues(disk)
  BY <1>1, <1>2 DEF NoValues, NoValue
<1>4. ASSUME Excused(todo, k) PROVE FALSE
  <2>1. todo # <<>> /\ Step(Head(todo).do) /\ Head(todo).do \in {"unlink", "dropEntry", "deleteClean", "removed"}
        /\ Head(todo).key = k
    BY <1>4 DEF Excused, At, Step
  <2>2. Head(todo).do \notin {"unlink", "dropEntry"}
    BY <2>1, OpeningOnly
  <2>3. Head(todo) \in StepRec
    BY <2>1, StepIs DEF HeadFacts
  <2>4. Behind(todo, 0)
    <3>1. CASE Head(todo).do = "removed"
      BY <3>1 DEF Behind, IdxOps
    <3>2. CASE Head(todo).do = "deleteClean"
      <4> DEFINE i == Head(todo).idx
      <4>1. i \in Idx
        BY <2>3, <3>2 DEF StepRec, PlainOps, KeyOps, IdxOps
      <4>2. i # 0
        BY <1>4, <3>2 DEF Excused
      <4> HIDE DEF i
      <4>3. 0 < i
        BY <4>1, <4>2 DEF Idx
      <4> QED
        BY <4>3 DEF Behind, i
    <3> QED
      BY <2>1, <2>2, <3>1, <3>2
  <2>5. disk.clean[k][0] = NoFile
    BY <1>1, <2>1, <2>2, <2>4 DEF Worked, At
  <2> QED
    BY <1>1, <1>2, <2>5
<1> QED
  BY <1>3, <1>4

\* So the next open finds what is shown.
LEMMA KeptFollows == IInv /\ AgreeInv /\ KeptInv => Durable
<1> DEFINE j == IF disk.journal = NoFile THEN disk.backup ELSE disk.journal
           c == NewCache(mem.version, mem.maxSize, mem.base)
           r == FoldLeft(Replay, c, j.lines)
<1> SUFFICES ASSUME IInv, AgreeInv, KeptInv, phase = "up", faults = 0, ~leaky,
                    \A n \in DOMAIN todo : todo[n].do # "wipe",
                    NEW k \in Keys, seen.draft[k] = NoDraft, Visible(k), ~Editing(k)
             PROVE  /\ j # NoFile
                    /\ r.ent[k] # NoEntry /\ r.ent[k].editor = NoEditor
                    /\ \A i \in Idx : r.ent[k].len[i] = disk.clean[k][i].len
  BY DEF Durable
<1>1. Agree(disk, mem, todo, "up") /\ Kept /\ Leak(disk, mem, todo, "up") /\ mem \in Mems /\ disk \in Disks
  BY DEF AgreeInv, KeptInv, LeakInv, IInv, TypeInv
<1>2. Matched(disk, mem, todo) /\ Worked(disk, todo)
  BY <1>1 DEF Leak
<1>3. ~Excused(todo, k) /\ ~NoValues(disk)
  BY <1>2, VisibleStays
<1>4. ~At(todo, {"wipe"})
  <2> SUFFICES ASSUME todo # <<>>, Head(todo).do = "wipe" PROVE FALSE
    BY DEF At
  <2>1. Step("wipe")
    BY DEF Step
  <2>2. Head(todo) = todo[1] /\ 1 \in DOMAIN todo
    BY <2>1, StepIs DEF HeadFacts
  <2> QED
    BY <2>2
<1>5. Settled(disk, todo, "up")
  BY <1>3, <1>4 DEF Settled
<1>6. j = Journal(disk) /\ j # NoFile /\ j.lines \in Seq(Lines)
  <2>1. Journal(disk) # NoFile
    BY <1>1, <1>5 DEF Agree
  <2>2. Journal(disk).lines \in Seq(Lines)
    BY <1>1, <2>1, JournalType
  <2>3. j = Journal(disk)
    BY DEF Journal
  <2> QED
    BY <2>1, <2>2, <2>3
<1>7. Resting(mem, k)
  BY DEF Visible, VisibleIn, Editing, Resting
<1>8. AgreeAt(mem.ent[k], Journaled(Journal(disk).lines)[k])
  BY <1>1, <1>3, <1>5, <1>7 DEF Kept, Stored
<1>9. c \in Empties
  <2>1. mem.version \in Versions /\ mem.maxSize \in Nat \ {0} /\ mem.base \in Nat
    BY <1>1 DEF Mems
  <2>2. Sound(c) /\ c.lru = <<>> /\ c.ent = [x \in Keys |-> NoEntry]
    BY <2>1, NewCacheIs
  <2> QED
    BY <2>2 DEF Empties, Sound, NoEntries
<1> HIDE DEF c, j
<1>10. r.ent = Journaled(Journal(disk).lines)
  BY <1>6, <1>9, FoldIs, ReadSame
<1> HIDE DEF r
<1>11. r.ent[k] # NoEntry /\ r.ent[k].editor = NoEditor /\ r.ent[k].len = mem.ent[k].len
  BY <1>7, <1>8, <1>10 DEF AgreeAt, Resting
<1>12. \A i \in Idx : mem.ent[k].len[i] = disk.clean[k][i].len
  BY <1>2 DEF Matched, Visible, VisibleIn
<1> QED
  BY <1>6, <1>11, <1>12

(* As long as no I/O error occurs, a crash at any step of any call does not *)
(* cost an entry that is shown and that no edit, removal or eviction is    *)
(* about: the journal file, or its backup, has it with the lengths of the  *)
(* files that are there.                                                   *)
THEOREM EntriesDurable == Spec => []Durable
<1>1. IInv /\ AgreeInv /\ KeptInv /\ [Next]_vars => IInv' /\ AgreeInv' /\ KeptInv'
  BY NextHolds, NextAgree, NextKept
<1>2. Init => IInv /\ AgreeInv /\ KeptInv
  BY InitHolds, InitAgree, InitKept, InitLeak DEF AgreeInv, Agreed, KeptInv
<1>3. IInv /\ AgreeInv /\ KeptInv => Durable
  BY KeptFollows
<1> QED
  BY <1>1, <1>2, <1>3, PTL DEF Spec
-----------------------------------------------------------------------------
(***************************************************************************)
(* What the number of an entry says of a snapshot, as long as no I/O error *)
(* occurs.                                                                 *)
(***************************************************************************)
\* The edits are numbered in the order in which they began, those of earlier
\* processes first.
Dated(d, m, ph, last) ==
    /\ m.base <= last /\ (ph = "opening" => m.base = last)
    /\ \A k \in Keys, i \in Idx : /\ d.clean[k][i] # NoFile => d.clean[k][i].by <= last
                                  /\ d.dirty[k][i] # NoFile => d.dirty[k][i].by <= last
    /\ ph = "up" => \A k \in Keys : EditingIn(m, k) => m.ent[k].editor.id <= last

\* A value that this process has written, an entry with a number, and the steps
\* that take values away.
Own(f, m) == f # NoFile /\ f.by > m.base
Shows(m, k) == m.ent[k] # NoEntry /\ m.ent[k].readable
Deleting(t, k) == At(t, {"deleteClean", "removed"}) /\ Head(t).key = k
Emptying(t) == At(t, {"wipe", "down"})

\* An entry with such a value has a number that has been given, or gets one.
Ranked(d, m, t) ==
    \A k \in Keys, i \in Idx :
      /\ Own(d.clean[k][i], m) => Publishes(t, k) \/ (Shows(m, k) /\ m.ent[k].seq < m.nextSeq)
      /\ Deleting(t, k) /\ Behind(t, i) => d.clean[k][i] = NoFile

\* A snapshot with such a value has a number that has been given, and the values
\* of its entry while the numbers are equal; unless the entry is about to get
\* another number, or to go.
Taken(d, m, t, s) ==
    s # NoSnapshot =>
      /\ \A i \in Idx : s.value[i] # NoFile
      /\ (\E i \in Idx : Own(s.value[i], m)) =>
           /\ s.seq < m.nextSeq
           /\ Shows(m, s.key) /\ m.ent[s.key].seq = s.seq =>
                \/ Publishes(t, s.key) \/ Deleting(t, s.key) \/ Emptying(t)
                \/ d.clean[s.key] = s.value
Snapped == IF phase = "up" THEN Ranked(disk, mem, todo) /\ Taken(disk, mem, todo, snap) ELSE snap = NoSnapshot
Snaps == Dated(disk, mem, phase, edits) /\ Snapped

\* How the dates are kept.
DatesKept ==
    /\ mem'.base = mem.base /\ edits <= edits' /\ (phase' = "opening" => phase = "opening" /\ edits' = edits)
    /\ \A k \in Keys, i \in Idx :
         /\ disk'.clean[k][i] \in {NoFile, disk.clean[k][i], disk.dirty[k][i]}
         /\ disk'.dirty[k][i] \in {NoFile, disk.dirty[k][i]} \/ disk'.dirty[k][i].by <= edits'
    /\ phase' = "up" => \A k \in Keys : EditingIn(mem', k) =>
         \/ mem'.ent[k].editor.id <= edits'
         \/ phase = "up" /\ EditingIn(mem, k) /\ mem'.ent[k].editor.id = mem.ent[k].editor.id

\* Types of the dates.
LEMMA DatesTypes ==
  ASSUME IInv
  PROVE  /\ edits \in Nat /\ mem.base \in Nat /\ mem.nextSeq \in Nat
         /\ \A k \in Keys, i \in Idx : /\ disk.clean[k][i] # NoFile => disk.clean[k][i].by \in Nat
                                       /\ disk.dirty[k][i] # NoFile => disk.dirty[k][i].by \in Nat
         /\ \A k \in Keys : EditingIn(mem, k) => mem.ent[k].editor.id \in Nat
         /\ \A k \in Keys : Shows(mem, k) => mem.ent[k].seq \in Nat
<1>1. edits \in Nat /\ mem \in Mems /\ disk \in Disks
  BY DEF IInv, TypeInv
<1>2. mem.base \in Nat /\ mem.nextSeq \in Nat /\ mem.ent \in [Keys -> Entries \cup {NoEntry}]
  BY <1>1 DEF Mems
<1>3. \A k \in Keys, i \in Idx : disk.clean[k][i] \in Contents \cup {NoFile} /\ disk.dirty[k][i] \in Contents \cup {NoFile}
  BY <1>1 DEF Disks, Values
<1>4. \A c \in Contents : c.by \in Nat
  BY DEF Contents
<1>5. ASSUME NEW k \in Keys, EditingIn(mem, k) PROVE mem.ent[k].editor.id \in Nat
  <2>1. mem.ent[k] \in Entries /\ mem.ent[k].editor # NoEditor
    BY <1>2, <1>5 DEF EditingIn
  <2>2. mem.ent[k].editor \in Editors
    BY <2>1 DEF Entries
  <2> QED
    BY <2>2 DEF Editors
<1>6. ASSUME NEW k \in Keys, Shows(mem, k) PROVE mem.ent[k].seq \in Nat
  BY <1>2, <1>6 DEF Shows, Entries
<1> QED
  BY <1>1, <1>2, <1>3, <1>4, <1>5, <1>6

\* So they are.
LEMMA DatesStay ==
  ASSUME IInv, IInv', Dated(disk, mem, phase, edits), DatesKept
  PROVE  Dated(disk', mem', phase', edits')
<1>1. /\ edits \in Nat /\ mem.base \in Nat /\ mem'.base = mem.base /\ edits <= edits' /\ mem.base <= edits
      /\ phase' = "opening" => phase = "opening" /\ edits' = edits
      /\ phase = "opening" => mem.base = edits
  BY DatesTypes DEF Dated, DatesKept
<1>2. edits' \in Nat
  BY DEF IInv, TypeInv
<1>3. ASSUME NEW k \in Keys, NEW i \in Idx
      PROVE  /\ disk'.clean[k][i] # NoFile => disk'.clean[k][i].by <= edits'
             /\ disk'.dirty[k][i] # NoFile => disk'.dirty[k][i].by <= edits'
  <2> DEFINE c == disk.clean[k][i]  d == disk.dirty[k][i]
  <2>1. c # NoFile => c.by \in Nat /\ c.by <= edits
    BY <1>3, DatesTypes DEF Dated
  <2>2. d # NoFile => d.by \in Nat /\ d.by <= edits
    BY <1>3, DatesTypes DEF Dated
  <2>3. disk'.clean[k][i] \in {NoFile, c, d} /\ (disk'.dirty[k][i] \in {NoFile, d} \/ disk'.dirty[k][i].by <= edits')
    BY <1>3 DEF DatesKept
  <2> HIDE DEF c, d
  <2> QED
    BY <1>1, <1>2, <2>1, <2>2, <2>3
<1>4. ASSUME phase' = "up", NEW k \in Keys, EditingIn(mem', k) PROVE mem'.ent[k].editor.id <= edits'
  <2>1. CASE mem'.ent[k].editor.id <= edits'
    BY <2>1
  <2>2. CASE phase = "up" /\ EditingIn(mem, k) /\ mem'.ent[k].editor.id = mem.ent[k].editor.id
    <3>1. mem.ent[k].editor.id \in Nat /\ mem.ent[k].editor.id <= edits
      BY <1>4, <2>2, DatesTypes DEF Dated
    <3> QED
      BY <1>1, <1>2, <2>2, <3>1
  <2> QED
    BY <1>4, <2>1, <2>2 DEF DatesKept
<1>5. mem'.base <= edits' /\ (phase' = "opening" => mem'.base = edits')
  BY <1>1, <1>2
<1> QED
  BY <1>3, <1>4, <1>5 DEF Dated

\* What a step of an open cache does to an entry: nothing that matters here; it
\* publishes the values; it takes them away; it gives the entry the next number; or
\* the entry goes, or has no value of this process.
SameRank(k) == (Shows(mem', k) <=> Shows(mem, k)) /\ (Shows(mem, k) => mem'.ent[k].seq = mem.ent[k].seq)
Starts(u, k) == Deleting(u, k) => Head(u).do = "deleteClean" /\ Head(u).idx = 0
Untouched(k) ==
    /\ SameRank(k) /\ disk'.clean[k] = disk.clean[k] /\ (Publishes(todo, k) => Publishes(todo', k))
    /\ ~Deleting(todo, k) /\ Starts(todo', k)
Publishing(k) == Publishes(todo', k) /\ ~Deleting(todo', k)
Shrinks(k) ==
    /\ SameRank(k) /\ ~Publishes(todo, k) /\ (Deleting(todo', k) \/ Emptying(todo'))
    /\ \A i \in Idx : /\ disk'.clean[k][i] \in {NoFile, disk.clean[k][i]}
                      /\ Deleting(todo', k) /\ Behind(todo', i) => disk'.clean[k][i] = NoFile
Renumbered(k) ==
    /\ Shows(mem', k) /\ mem'.ent[k].seq = mem.nextSeq /\ mem.nextSeq < mem'.nextSeq
    /\ ~Deleting(todo', k)
Leaves(k) == ~Shows(mem', k) /\ ~Deleting(todo', k) /\ \A i \in Idx : ~Own(disk'.clean[k][i], mem)
Ranks ==
    /\ phase = "up" /\ phase' = "up" /\ mem'.base = mem.base /\ mem.nextSeq <= mem'.nextSeq /\ snap' = snap
    /\ Emptying(todo) => Emptying(todo')
    /\ \A k \in Keys : Untouched(k) \/ Publishing(k) \/ Shrinks(k) \/ Renumbered(k) \/ Leaves(k)

\* A step that does one of these to every entry keeps the numbers.
LEMMA RanksStay == ASSUME IInv, IInv', Snapped, Ranks PROVE Snapped'
<1>1. /\ phase = "up" /\ phase' = "up" /\ mem'.base = mem.base /\ mem.nextSeq <= mem'.nextSeq /\ snap' = snap
      /\ Ranked(disk, mem, todo) /\ Taken(disk, mem, todo, snap)
      /\ \A k \in Keys : Shows(mem, k) => mem.ent[k].seq \in Nat
      /\ mem.nextSeq \in Nat
  BY DatesTypes DEF Ranks, Snapped
<1>2. mem'.nextSeq \in Nat
  BY DEF IInv, TypeInv, Mems
<1>0. \A f : Own(f, mem') <=> Own(f, mem)
  BY <1>1 DEF Own
<1>z. ASSUME NEW k, NEW i \in Idx, Starts(todo', k), Deleting(todo', k) PROVE ~Behind(todo', i)
  <2>1. Head(todo').do = "deleteClean" /\ Head(todo').idx = 0 /\ i \in Nat
    BY <1>z, IdxFacts DEF Starts
  <2>2. ~(i < 0)
    BY <2>1
  <2> QED
    BY <2>1, <2>2 DEF Behind, IdxOps
<1>3. Ranked(disk', mem', todo')
  <2> SUFFICES ASSUME NEW k \in Keys, NEW i \in Idx
               PROVE  /\ Own(disk'.clean[k][i], mem) =>
                           Publishes(todo', k) \/ (Shows(mem', k) /\ mem'.ent[k].seq < mem'.nextSeq)
                      /\ Deleting(todo', k) /\ Behind(todo', i) => disk'.clean[k][i] = NoFile
    BY <1>0 DEF Ranked
  <2>0. Own(disk.clean[k][i], mem) => Publishes(todo, k) \/ (Shows(mem, k) /\ mem.ent[k].seq < mem.nextSeq)
    BY <1>1 DEF Ranked
  <2>s. ASSUME SameRank(k), Shows(mem, k), mem.ent[k].seq < mem.nextSeq
        PROVE  Shows(mem', k) /\ mem'.ent[k].seq < mem'.nextSeq
    BY <1>1, <1>2, <2>s DEF SameRank
  <2>1. CASE Untouched(k)
    BY <1>z, <2>0, <2>1, <2>s DEF Untouched
  <2>2. CASE Publishing(k)
    BY <2>2 DEF Publishing
  <2>3. CASE Shrinks(k)
    BY <2>0, <2>3, <2>s DEF Shrinks, Own
  <2>4. CASE Renumbered(k)
    BY <2>4 DEF Renumbered
  <2>5. CASE Leaves(k)
    BY <2>5 DEF Leaves
  <2> QED
    BY <2>1, <2>2, <2>3, <2>4, <2>5 DEF Ranks
<1>4. Taken(disk', mem', todo', snap)
  <2> SUFFICES ASSUME snap # NoSnapshot
               PROVE  /\ \A i \in Idx : snap.value[i] # NoFile
                      /\ (\E i \in Idx : Own(snap.value[i], mem)) =>
                           /\ snap.seq < mem'.nextSeq
                           /\ Shows(mem', snap.key) /\ mem'.ent[snap.key].seq = snap.seq =>
                                \/ Publishes(todo', snap.key) \/ Deleting(todo', snap.key) \/ Emptying(todo')
                                \/ disk'.clean[snap.key] = snap.value
    BY <1>0 DEF Taken
  <2>1. \A i \in Idx : snap.value[i] # NoFile
    BY <1>1 DEF Taken
  <2> SUFFICES ASSUME \E i \in Idx : Own(snap.value[i], mem)
               PROVE  /\ snap.seq < mem'.nextSeq
                      /\ Shows(mem', snap.key) /\ mem'.ent[snap.key].seq = snap.seq =>
                           \/ Publishes(todo', snap.key) \/ Deleting(todo', snap.key) \/ Emptying(todo')
                           \/ disk'.clean[snap.key] = snap.value
    BY <2>1
  <2>2. snap.key \in Keys /\ snap.seq \in Nat
    BY DEF IInv, TypeInv, Snapshots
  <2>3. snap.seq < mem.nextSeq
    BY <1>1 DEF Taken
  <2>4. snap.seq < mem'.nextSeq
    BY <1>1, <1>2, <2>2, <2>3
  <2> DEFINE k == snap.key
  <2>5. ASSUME Shows(mem', k), mem'.ent[k].seq = snap.seq
        PROVE  Publishes(todo', k) \/ Deleting(todo', k) \/ Emptying(todo') \/ disk'.clean[k] = snap.value
    <3>0. Shows(mem, k) /\ mem.ent[k].seq = snap.seq =>
            Publishes(todo, k) \/ Deleting(todo, k) \/ Emptying(todo) \/ disk.clean[k] = snap.value
      BY <1>1 DEF Taken
    <3> HIDE DEF k
    <3>1. CASE Untouched(k)
      BY <2>5, <3>0, <3>1 DEF Untouched, SameRank, Ranks
    <3>2. CASE Publishing(k)
      BY <3>2 DEF Publishing
    <3>3. CASE Shrinks(k)
      BY <3>3 DEF Shrinks
    <3>4. CASE Renumbered(k)
      BY <1>1, <2>2, <2>3, <2>5, <3>4 DEF Renumbered
    <3>5. CASE Leaves(k)
      BY <2>5, <3>5 DEF Leaves
    <3>6. k \in Keys
      BY <2>2 DEF k
    <3> QED
      BY <3>1, <3>2, <3>3, <3>4, <3>5, <3>6 DEF Ranks
  <2> QED
    BY <2>4, <2>5
<1> QED
  BY <1>1, <1>3, <1>4 DEF Snapped

\* A step that leaves the values alone that are published, and the numbers.
Passing == {"publish", "complete", "deleteClean", "removed", "wipe", "down"}
KeepsNumbers ==
    /\ phase = "up" /\ phase' = "up" /\ snap' = snap /\ edits <= edits' /\ ~At(todo, Passing)
    /\ mem'.base = mem.base /\ mem'.nextSeq = mem.nextSeq /\ disk'.clean = disk.clean
    /\ \A k \in Keys, i \in Idx : disk'.dirty[k][i] \in {NoFile, disk.dirty[k][i]} \/ disk'.dirty[k][i].by <= edits'
    /\ \A k \in Keys : /\ SameRank(k) /\ Starts(todo', k)
                       /\ EditingIn(mem', k) =>
                            \/ mem'.ent[k].editor.id <= edits'
                            \/ EditingIn(mem, k) /\ mem'.ent[k].editor.id = mem.ent[k].editor.id

\* It keeps this.
LEMMA KeepingSnaps == ASSUME IInv, IInv', Snaps, KeepsNumbers PROVE Snaps'
<1>1. DatesKept
  BY DEF KeepsNumbers, DatesKept
<1>2. mem.nextSeq <= mem'.nextSeq
  BY DatesTypes DEF KeepsNumbers
<1>3. \A k \in Keys : Untouched(k)
  BY DEF KeepsNumbers, Untouched, Passing, Publishes, Deleting, At
<1>4. ~Emptying(todo)
  BY DEF KeepsNumbers, Passing, Emptying, At
<1>5. Ranks
  BY <1>2, <1>3, <1>4 DEF KeepsNumbers, Ranks
<1> QED
  BY <1>1, <1>5, DatesStay, RanksStay DEF Snaps

\* So does a step of an open.
LEMMA OpeningSnaps ==
  ASSUME IInv, IInv', Snaps, phase = "opening", phase' = "opening", snap' = snap, edits' = edits, mem'.base = mem.base,
         \A k \in Keys, i \in Idx : /\ disk'.clean[k][i] \in {NoFile, disk.clean[k][i]}
                                    /\ disk'.dirty[k][i] \in {NoFile, disk.dirty[k][i]}
  PROVE  Snaps'
<1>1. DatesKept
  BY DatesTypes DEF DatesKept
<1>2. Snapped'
  BY DEF Snaps, Snapped
<1> QED
  BY <1>1, <1>2, DatesStay DEF Snaps

\* No step but a deletion is followed by one.
LEMMA TailStarts ==
  ASSUME IInv, todo # <<>>, Head(todo).do \notin OpenEnds \cup {"down", "deleteClean"}
  PROVE  \A k : ~Deleting(Tail(todo), k)
<1> SUFFICES ASSUME Tail(todo) # <<>>, Head(Tail(todo)).do \in {"deleteClean", "removed"} PROVE FALSE
  BY DEF Deleting, At
<1>1. Follows(Head(todo), Head(Tail(todo)))
  BY NextIs
<1> QED
  BY <1>1 DEF Follows, NextIndex

\* A step after which the call goes on, and that leaves all this alone.
SameNumbers(m, n) == n.base = m.base /\ n.nextSeq = m.nextSeq /\ n.ent = m.ent
StillOps == {"submit", "erase", "zero", "closeWriter", "writeTmp", "backup", "install", "reopen", "closed", "flush", "trim"}
Still == phase' = phase /\ Inside /\ SameValues(disk, disk') /\ SameNumbers(mem, mem')

\* What has the same entries has them with the same numbers.
LEMMA SameRanks ==
  ASSUME mem'.ent = mem.ent
  PROVE  \A k \in Keys : /\ SameRank(k)
                         /\ EditingIn(mem', k) => EditingIn(mem, k) /\ mem'.ent[k].editor.id = mem.ent[k].editor.id
  BY DEF SameRank, Shows, EditingIn

\* It keeps this.
LEMMA StillSnaps ==
  ASSUME IInv, IInv', Snaps, NEW op \in StillOps, Step(op), Continue(<<>>), Still
  PROVE  Snaps'
<1>1. /\ todo # <<>> /\ Head(todo).do = op /\ op \notin OpenEnds \cup Passing
      /\ phase' = phase /\ snap' = snap /\ edits' = edits /\ edits \in Nat
  BY DatesTypes DEF Step, StillOps, OpenEnds, Passing, Still, Inside
<1>2. todo' = Tail(todo)
  BY <1>1, Continues
<1>3. \A k : ~Deleting(todo', k)
  BY <1>1, <1>2, TailStarts DEF Passing
<1>4. CASE phase = "opening"
  BY <1>1, <1>4, OpeningSnaps DEF Still, SameValues, SameNumbers
<1>5. CASE phase = "up"
  <2>1. KeepsNumbers
    BY <1>1, <1>3, <1>5, SameRanks DEF KeepsNumbers, Still, SameValues, SameNumbers, Starts, At
  <2> QED
    BY <2>1, KeepingSnaps
<1> QED
  BY <1>4, <1>5, StepIs

\* SubmitStep.
LEMMA SubmitSnaps == ASSUME IInv, IInv', Snaps, SubmitStep PROVE Snaps'
<1>1. Step("submit") /\ Continue(<<>>) /\ Still
  BY DEF SubmitStep, Still, SameValues, SameNumbers
<1> QED
  BY <1>1, StillSnaps DEF StillOps

\* Erase.
LEMMA EraseSnaps == ASSUME IInv, IInv', Snaps, Erase PROVE Snaps'
<1>1. /\ Step("erase") /\ Continue(<<>>) /\ disk' = disk /\ mem' = mem
      /\ todo # <<>> /\ Head(todo).do = "erase" /\ phase' = phase /\ snap' = snap /\ edits' = edits /\ edits \in Nat
  BY DatesTypes DEF Erase, Step
<1>2. phase = "up" /\ \A k : ~Deleting(todo', k)
  <2>1. phase = "up"
    BY <1>1, StepIs, LastStep DEF OpenEnds
  <2>2. todo' = Tail(todo)
    BY <1>1, Continues
  <2> QED
    BY <1>1, <2>1, <2>2, TailStarts DEF OpenEnds
<1>3. KeepsNumbers
  BY <1>1, <1>2, SameRanks DEF KeepsNumbers, Starts, At, Passing
<1> QED
  BY <1>3, KeepingSnaps

\* Zero.
LEMMA ZeroSnaps == ASSUME IInv, IInv', Snaps, Zero PROVE Snaps'
<1>1. mem \in Mems
  BY DEF IInv, TypeInv
<1>2. Step("zero") /\ Continue(<<>>) /\ Still
  BY <1>1 DEF Zero, Quiet, Still, SameValues, SameNumbers, Mems
<1> QED
  BY <1>2, StillSnaps DEF StillOps

\* CloseWriter.
LEMMA CloseWriterSnaps == ASSUME IInv, IInv', Snaps, faults' = 0, CloseWriter PROVE Snaps'
<1>1. mem \in Mems /\ disk \in Disks
  BY DEF IInv, TypeInv
<1>2. Step("closeWriter") /\ Inside /\ Continue(<<>>) /\ Done
      /\ mem' = [mem EXCEPT !.out = <<>>, !.writer = IF @ = "none" THEN @ ELSE "broken"]
      /\ disk' = IF mem.writer # "open" THEN disk ELSE [disk EXCEPT !.journal.lines = @ \o mem.out]
  BY NoFaultYet DEF CloseWriter
<1>3. Still
  BY <1>1, <1>2 DEF Still, SameValues, SameNumbers, Mems, Disks, Done
<1> QED
  BY <1>2, <1>3, StillSnaps DEF StillOps

\* WriteTmp.
LEMMA WriteTmpSnaps == ASSUME IInv, IInv', Snaps, faults' = 0, WriteTmp PROVE Snaps'
<1>1. disk \in Disks
  BY DEF IInv, TypeInv
<1>2. Step("writeTmp") /\ Inside /\ Continue(<<>>) /\ Done /\ mem' = mem
      /\ disk' = [disk EXCEPT !.tmp = [version |-> mem.version, lines |-> Compacted, torn |-> FALSE]]
  BY NoFaultYet DEF WriteTmp
<1>3. Still
  BY <1>1, <1>2 DEF Still, SameValues, SameNumbers, Disks, Done
<1> QED
  BY <1>2, <1>3, StillSnaps DEF StillOps

\* Backup.
LEMMA BackupSnaps == ASSUME IInv, IInv', Snaps, faults' = 0, Backup PROVE Snaps'
<1>1. disk \in Disks
  BY DEF IInv, TypeInv
<1>2. Step("backup") /\ Inside /\ Continue(<<>>) /\ Done /\ mem' = mem
      /\ disk' = IF disk.journal = NoFile THEN disk ELSE JournalKept(disk)
  BY NoFaultYet DEF Backup
<1>3. Still
  BY <1>1, <1>2 DEF Still, SameValues, SameNumbers, Disks, Done, JournalKept
<1> QED
  BY <1>2, <1>3, StillSnaps DEF StillOps

\* Install.
LEMMA InstallSnaps == ASSUME IInv, IInv', Snaps, faults' = 0, Install PROVE Snaps'
<1>1. disk \in Disks
  BY DEF IInv, TypeInv
<1>2. Step("install") /\ Inside /\ Continue(<<>>) /\ Done /\ mem' = mem
      /\ disk' = [disk EXCEPT !.journal = disk.tmp, !.tmp = NoFile]
  BY NoFaultYet DEF Install
<1>3. Still
  BY <1>1, <1>2 DEF Still, SameValues, SameNumbers, Disks, Done
<1> QED
  BY <1>2, <1>3, StillSnaps DEF StillOps

\* Reopen.
LEMMA ReopenSnaps == ASSUME IInv, IInv', Snaps, Reopen PROVE Snaps'
<1>1. mem \in Mems /\ disk \in Disks
  BY DEF IInv, TypeInv
<1>2. Step("reopen") /\ Continue(<<>>) /\ Still
  BY <1>1 DEF Reopen, Quiet, Still, SameValues, SameNumbers, Mems, Disks
<1> QED
  BY <1>2, StillSnaps DEF StillOps

\* Closed.
LEMMA ClosedSnaps == ASSUME IInv, IInv', Snaps, Closed PROVE Snaps'
<1>1. mem \in Mems
  BY DEF IInv, TypeInv
<1>2. Step("closed") /\ Continue(<<>>) /\ Still
  BY <1>1 DEF Closed, Still, SameValues, SameNumbers, Mems
<1> QED
  BY <1>2, StillSnaps DEF StillOps

\* FlushStep.
LEMMA FlushSnaps == ASSUME IInv, Agreed, IInv', Snaps, faults' = 0, FlushStep PROVE Snaps'
<1>1. mem \in Mems /\ disk \in Disks /\ Step("flush") /\ Inside
  BY DEF IInv, TypeInv, FlushStep
<1>2. mem.writer = "open"
  BY <1>1, WorkingIs DEF CacheOps, Working, ClosedOps
<1>3. Continue(<<>>) /\ Done /\ mem' = [mem EXCEPT !.out = <<>>] /\ disk' = [disk EXCEPT !.journal.lines = @ \o mem.out]
  BY <1>2, NoFaultYet DEF FlushStep
<1>4. Still
  BY <1>1, <1>3 DEF Still, SameValues, SameNumbers, Mems, Disks, Done
<1> QED
  BY <1>1, <1>3, <1>4, StillSnaps DEF StillOps

\* What a program begins with.
LEMMA ProgramBegins ==
  ASSUME IInv, flush \/ cleanup \/ close \/ delete
  PROVE  todo' # <<>> /\ Head(todo').do \in {"trim", "abort"}
<1>m. mem \in Mems
  BY DEF IInv, TypeInv
<1>1. CASE flush \/ cleanup
  <2> DEFINE p == Do("trim") \o Do("flush")  q == Do("trim") \o Do("rebuildIf")
  <2>1. Whole(p, "up") /\ Whole(q, "up") /\ p[1] = [do |-> "trim"] /\ q[1] = [do |-> "trim"]
    BY TwoSteps DEF PlainOps, UpEnds, StepsOf, Follows, Removes
  <2>2. todo' \in {p, q}
    BY <1>1 DEF flush, cleanup, Program
  <2> HIDE DEF p, q
  <2> QED
    BY <2>1, <2>2, Begins
<1>2. CASE close
  <2> DEFINE p == CloseProgram \o Do("down")
  <2>1. Prog(p, StepsOf("down")) /\ Final(p) = "down" /\ p[1].do \in {"abort", "trim"}
    <3>1. Closes \cup {"down"} \subseteq StepsOf("down")
      BY DEF StepsOf
    <3> QED
      BY <1>m, <3>1, CloseAndThen
  <2>2. todo' = p
    BY <1>2 DEF close, Program
  <2> HIDE DEF p
  <2>3. Whole(p, "up")
    BY <2>1 DEF Whole, UpEnds, OpenEnds
  <2> QED
    BY <2>1, <2>2, <2>3, Begins
<1>3. CASE delete
  <2> DEFINE a == CloseProgram \o Do("wipe")  b == Do("down")
  <2>1. Prog(a, Closes \cup {"wipe"}) /\ a[1].do \in {"abort", "trim"}
    <3> DEFINE S == Closes \cup {"wipe"}
    <3>1. Closes \cup {"wipe"} \subseteq S
      OBVIOUS
    <3> HIDE DEF S
    <3>2. Prog(a, S) /\ a[1].do \in {"abort", "trim"}
      BY <1>m, <3>1, CloseAndThen
    <3> QED
      BY <3>2 DEF S
  <2>2. b \in Seq(StepRec)
    <3>1. Prog(b, {"down"})
      BY DoIs DEF PlainOps
    <3> QED
      BY <3>1 DEF Prog
  <2>3. todo' = a \o b
    BY <1>3 DEF delete, Program
  <2> HIDE DEF a, b
  <2> QED
    BY <2>1, <2>2, <2>3, FrontIs DEF Prog
<1> QED
  BY <1>1, <1>2, <1>3

\* What the end of an edit begins with.
LEMMA EditEndsBegins ==
  ASSUME NEW k \in Keys, NEW ok \in BOOLEAN,
         \/ todo' = CompleteProgram(k, ok)
         \/ todo' = CompleteProgram(k, FALSE) \o DoKey("erase", k)
  PROVE  todo' # <<>> /\ Head(todo').do \in {"publish", "discard"} /\ Head(todo').key = k
<1> DEFINE a == CompleteProgram(k, FALSE)  b == CompleteProgram(k, ok)  c == DoKey("erase", k)
<1>1. a \in Seq(StepRec) /\ a # <<>> /\ a[1].do = "discard" /\ a[1].key = k
  <2>1. Prog(a, Aborts) /\ a[1] = [do |-> "discard", key |-> k, idx |-> 0]
    BY CompleteProgramIs
  <2> HIDE DEF a
  <2> QED
    BY <2>1 DEF Prog
<1>2. b \in Seq(StepRec) /\ b # <<>> /\ b[1].do \in {"publish", "discard"} /\ b[1].key = k
  <2>1. /\ Prog(b, IF ok THEN Aborts \cup {"publish"} ELSE Aborts)
        /\ b[1] = [do |-> IF ok THEN "publish" ELSE "discard", key |-> k, idx |-> 0]
    BY CompleteProgramIs
  <2> HIDE DEF b
  <2> QED
    BY <2>1 DEF Prog
<1>3. c \in Seq(StepRec)
  <2>1. Prog(c, {"erase"})
    BY DoKeyIs DEF KeyOps
  <2> HIDE DEF c
  <2> QED
    BY <2>1 DEF Prog
<1>4. todo' = b \/ todo' = a \o c
  OBVIOUS
<1> HIDE DEF a, b, c
<1>5. a \o c # <<>> /\ Head(a \o c) = a[1] /\ Head(b) = b[1]
  BY <1>1, <1>2, <1>3, FrontIs
<1> QED
  BY <1>1, <1>2, <1>4, <1>5

\* What an abort in a close goes on with.
LEMMA AbortGoesOn == ASSUME IInv, AbortEdit PROVE todo' # <<>> => Head(todo').do \in {"discard", "abort", "trim"}
<1> DEFINE k == Head(todo).key  p == IF Editing(k) THEN CompleteProgram(k, FALSE) ELSE <<>>
<1>1. Step("abort") /\ todo # <<>> /\ Head(todo).do = "abort" /\ todo' = p \o Tail(todo)
  BY DEF AbortEdit, Step, Continue
<1>2. k \in Keys
  BY <1>1, StepIs DEF HeadFacts, StepRec, PlainOps, KeyOps, IdxOps
<1> HIDE DEF k
<1>3. p \in Seq(StepRec) /\ (p # <<>> => p[1].do = "discard")
  <2> DEFINE c == CompleteProgram(k, FALSE)
  <2>1. Prog(c, Aborts) /\ c[1] = [do |-> "discard", key |-> k, idx |-> 0]
    BY <1>2, CompleteProgramIs
  <2>2. p = c \/ p = <<>>
    OBVIOUS
  <2> HIDE DEF c, p
  <2>3. c \in Seq(StepRec) /\ c[1].do = "discard"
    BY <2>1 DEF Prog
  <2>4. <<>> \in Seq(StepRec)
    OBVIOUS
  <2> QED
    BY <2>2, <2>3, <2>4
<1> HIDE DEF p
<1>4. Tail(todo) \in Seq(StepRec) /\ (Tail(todo) # <<>> => Head(Tail(todo)).do \in {"abort", "trim"})
  BY <1>1, NextIs, Continues DEF OpenEnds, Follows
<1> DEFINE u == Tail(todo)
<1> HIDE DEF u
<1>5. /\ p = <<>> => p \o u = u
      /\ p # <<>> => p \o u # <<>> /\ Head(p \o u) = p[1]
  BY <1>3, <1>4, FrontIs DEF u
<1>6. CASE p = <<>>
  BY <1>1, <1>4, <1>5, <1>6 DEF u
<1>7. CASE p # <<>>
  BY <1>1, <1>3, <1>5, <1>7 DEF u
<1> QED
  BY <1>6, <1>7

\* A cache above its limit has entries to remove.
LEMMA OversizedHolds ==
  ASSUME IInv, Step("trim"), phase = "up", ~(mem.size <= mem.maxSize)
  PROVE  mem.lru # <<>>
<1> SUFFICES ASSUME mem.lru = <<>> PROVE FALSE
  OBVIOUS
<1>1. SizedBy(mem, {})
  BY DEF Step, IInv, Core, Sized
<1>2. ToSet(mem.lru) = {}
  BY DEF ToSet
<1>3. mem.size = 0
  BY <1>1, <1>2, SumEmpty DEF SizedBy, Sum
<1>4. mem.maxSize \in Nat
  BY DEF IInv, TypeInv, Mems
<1> QED
  BY <1>3, <1>4

\* AbortEdit.
LEMMA AbortSnaps == ASSUME IInv, Agreed, IInv', Snaps, AbortEdit PROVE Snaps'
<1>1. /\ Step("abort") /\ todo # <<>> /\ Head(todo).do = "abort" /\ disk' = disk /\ mem' = mem
      /\ phase' = phase /\ snap' = snap /\ edits' = edits /\ edits \in Nat
  BY DatesTypes DEF AbortEdit, Step, Quiet, Inside
<1>2. phase = "up"
  BY <1>1, WorkingIs DEF CacheOps, Working
<1>3. \A k : Starts(todo', k)
  BY AbortGoesOn DEF Starts, Deleting, At
<1>4. KeepsNumbers
  BY <1>1, <1>2, <1>3, SameRanks DEF KeepsNumbers, At, Passing
<1> QED
  BY <1>4, KeepingSnaps

\* RebuildIf.
LEMMA RebuildIfSnaps == ASSUME IInv, Agreed, IInv', Snaps, RebuildIf PROVE Snaps'
<1>1. /\ Step("rebuildIf") /\ todo # <<>> /\ Head(todo).do = "rebuildIf" /\ disk' = disk /\ mem' = mem
      /\ phase' = phase /\ snap' = snap /\ edits' = edits /\ edits \in Nat
  BY DatesTypes DEF RebuildIf, Step, Quiet, Inside
<1>2. phase = "up"
  BY <1>1, WorkingIs DEF CacheOps, Working
<1>3. \A k : Starts(todo', k)
  BY RebuildStarts DEF Starts, Deleting, At
<1>4. KeepsNumbers
  BY <1>1, <1>2, <1>3, SameRanks DEF KeepsNumbers, At, Passing
<1> QED
  BY <1>4, KeepingSnaps

\* A removal begins.
LEMMA RemovalSnaps ==
  ASSUME IInv, IInv', Snaps, phase = "up", phase' = phase, snap' = snap, edits' = edits, ~At(todo, Passing),
         disk' = disk, NEW k \in Keys, RemoveBegin(k)
  PROVE  Snaps'
<1>1. mem \in Mems /\ todo \in Seq(StepRec) /\ edits \in Nat
  BY DatesTypes DEF IInv, TypeInv
<1>2. /\ mem'.ent = mem.ent
      /\ \/ todo' = todo
         \/ todo' # <<>> /\ Head(todo') = [do |-> "deleteClean", key |-> k, idx |-> 0]
  BY <1>1, RemoveHead
<1>3. mem'.base = mem.base /\ mem'.nextSeq = mem.nextSeq
  BY <1>1 DEF RemoveBegin, Mems
<1>4. \A x : Starts(todo', x)
  BY <1>2 DEF Starts, Deleting, At, Passing
<1>5. KeepsNumbers
  BY <1>1, <1>2, <1>3, <1>4, SameRanks DEF KeepsNumbers
<1> QED
  BY <1>5, KeepingSnaps

\* Trim.
LEMMA TrimSnaps == ASSUME IInv, Agreed, IInv', Snaps, Trim PROVE Snaps'
<1>1. Step("trim") /\ todo # <<>> /\ Head(todo).do = "trim" /\ disk' = disk /\ Inside /\ mem \in Mems
  BY DEF Trim, Step, IInv, TypeInv
<1>2. phase = "up"
  BY <1>1, WorkingIs DEF CacheOps, Working
<1>3. CASE mem.size <= mem.maxSize
  <2>1. Continue(<<>>) /\ Still
    BY <1>1, <1>3 DEF Trim, Still, Done, SameValues, SameNumbers
  <2> QED
    BY <1>1, <2>1, StillSnaps DEF StillOps
<1>4. CASE ~(mem.size <= mem.maxSize)
  <2>1. mem.lru # <<>>
    BY <1>1, <1>2, <1>4, OversizedHolds
  <2> DEFINE k == Head(mem.lru)
  <2>2. RemoveBegin(k) /\ Done
    BY <1>4, <2>1 DEF Trim
  <2>3. k \in Keys
    BY <1>1, <2>1 DEF Mems
  <2> HIDE DEF k
  <2> QED
    BY <1>1, <1>2, <2>2, <2>3, RemovalSnaps DEF Inside, Done, At, Passing
<1> QED
  BY <1>3, <1>4

\* The calls that remove.
LEMMA removeSnaps == ASSUME IInv, IInv', Snaps, NEW k \in Keys, remove(k) \/ RemoveStale(k) PROVE Snaps'
<1>1. Idle /\ RemoveBegin(k) /\ disk' = disk /\ phase' = phase /\ snap' = snap /\ edits' = edits
  BY DEF remove, RemoveStale
<1> QED
  BY <1>1, RemovalSnaps DEF Idle, At

\* A call that leaves the entries and the values alone.
LEMMA CallSnaps ==
  ASSUME IInv, IInv', Snaps, Idle, phase' = phase, snap' = snap, edits' = edits, disk' = disk, SameNumbers(mem, mem'),
         \A k \in Keys : Starts(todo', k)
  PROVE  Snaps'
<1>1. edits \in Nat
  BY DatesTypes
<1>2. KeepsNumbers
  BY <1>1, SameRanks DEF KeepsNumbers, Idle, At, SameNumbers
<1> QED
  BY <1>2, KeepingSnaps

\* setMaxSize.
LEMMA setMaxSizeSnaps == ASSUME IInv, IInv', Snaps, NEW m \in Limits, setMaxSize(m) PROVE Snaps'
<1>1. /\ Idle /\ disk' = disk /\ phase' = phase /\ snap' = snap /\ edits' = edits /\ todo' = todo
      /\ mem' = [mem EXCEPT !.maxSize = m] /\ mem \in Mems
  BY DEF setMaxSize, IInv, TypeInv
<1>2. SameNumbers(mem, mem')
  BY <1>1 DEF SameNumbers, Mems
<1>3. \A k \in Keys : Starts(todo', k)
  BY <1>1 DEF Idle, Starts, Deleting, At
<1> QED
  BY <1>1, <1>2, <1>3, CallSnaps

\* The calls that only begin a program.
LEMMA ProgramSnaps == ASSUME IInv, IInv', Snaps, flush \/ cleanup \/ close \/ delete PROVE Snaps'
<1>1. Idle /\ disk' = disk /\ mem' = mem /\ phase' = phase /\ snap' = snap /\ edits' = edits
  BY DEF flush, cleanup, close, delete, Program
<1>2. \A k \in Keys : Starts(todo', k)
  BY ProgramBegins DEF Starts, Deleting, At
<1> QED
  BY <1>1, <1>2, CallSnaps DEF SameNumbers

\* get: the snapshot has the values that are there, and the number they have.
LEMMA getSnaps == ASSUME IInv, Agreed, IInv', Snaps, NEW k \in Keys, get(k) PROVE Snaps'
<1> DEFINE m == [mem EXCEPT !.lru = Touch(@, k)]
           n == [m EXCEPT !.redundant = @ + 1]
           o == [n EXCEPT !.out = Append(@, Line("READ", k))]
<1>1. /\ Idle /\ disk' = disk /\ phase' = phase /\ edits' = edits /\ mem' \in {m, n, o} /\ todo' = <<>>
      /\ snap' # snap => Visible(k) /\ snap' = [key |-> k, seq |-> mem.ent[k].seq, value |-> disk.clean[k]]
  BY DEF get, Idle
<1>2. mem \in Mems /\ edits \in Nat /\ phase = "up" /\ todo = <<>>
  BY <1>1, DatesTypes DEF IInv, TypeInv, Idle
<1>3. SameNumbers(mem, m)
  BY <1>2 DEF Mems, SameNumbers
<1>4. SameNumbers(mem, n)
  BY <1>2 DEF Mems, SameNumbers
<1>5. SameNumbers(mem, o)
  BY <1>2 DEF Mems, SameNumbers
<1> HIDE DEF m, n, o
<1>6. SameNumbers(mem, mem')
  BY <1>1, <1>3, <1>4, <1>5
<1>7. CASE snap' = snap
  BY <1>1, <1>2, <1>6, <1>7, CallSnaps DEF Starts, Deleting, At
<1>8. CASE snap' # snap
  <2>1. Ranked(disk, mem, <<>>) /\ Dated(disk, mem, "up", edits)
    BY <1>2 DEF Snaps, Snapped
  <2>2. Ranked(disk', mem', todo') /\ Dated(disk', mem', phase', edits')
    BY <1>1, <1>2, <1>6, <2>1 DEF Ranked, Dated, SameNumbers, Own, Shows, EditingIn, Publishes, Deleting, At
  <2>3. snap'.key = k /\ snap'.seq = mem.ent[k].seq /\ snap'.value = disk.clean[k]
    BY <1>1, <1>8
  <2>4. \A i \in Idx : disk.clean[k][i] # NoFile
    BY <1>1, <1>8 DEF Visible, VisibleIn
  <2>5. ASSUME NEW i \in Idx, Own(snap'.value[i], mem') PROVE snap'.seq < mem'.nextSeq
    <3>1. Own(disk.clean[k][i], mem)
      BY <1>6, <2>3, <2>5 DEF Own, SameNumbers
    <3>2. ~Publishes(<<>>, k)
      BY DEF Publishes, At
    <3>3. mem.ent[k].seq < mem.nextSeq
      BY <2>1, <3>1, <3>2 DEF Ranked
    <3> QED
      BY <1>6, <2>3, <3>3 DEF SameNumbers
  <2>6. Taken(disk', mem', todo', snap')
    BY <1>1, <2>3, <2>4, <2>5 DEF Taken
  <2> QED
    BY <1>1, <1>2, <2>2, <2>6 DEF Snaps, Snapped
<1> QED
  BY <1>7, <1>8

\* An editor changes, and not its number.
LEMMA EditorChanges ==
  ASSUME NEW k \in Keys, mem \in Mems, EditingIn(mem, k), NEW e \in Editors, e.id = mem.ent[k].editor.id,
         mem' = [mem EXCEPT !.ent[k].editor = e]
  PROVE  /\ mem'.base = mem.base /\ mem'.nextSeq = mem.nextSeq
         /\ \A x \in Keys : /\ SameRank(x)
                            /\ EditingIn(mem', x) => EditingIn(mem, x) /\ mem'.ent[x].editor.id = mem.ent[x].editor.id
<1> DEFINE f == [mem.ent[k] EXCEPT !.editor = e]
<1>1. mem.ent[k] \in Entries /\ mem.ent[k] # NoEntry
  BY DEF EditingIn, Mems
<1>2. f \in Entries /\ f.editor = e /\ f.readable = mem.ent[k].readable /\ f.seq = mem.ent[k].seq /\ f # NoEntry
  <2>1. f \in Entries
    BY <1>1 DEF Entries
  <2> QED
    BY <1>1, <2>1, NullAssumption DEF Entries
<1>3. mem'.base = mem.base /\ mem'.nextSeq = mem.nextSeq /\ mem'.ent = [mem.ent EXCEPT ![k] = f]
  BY <1>1 DEF Mems
<1> HIDE DEF f
<1>4. mem'.ent[k] = f /\ \A x \in Keys : x # k => mem'.ent[x] = mem.ent[x]
  BY <1>3 DEF Mems
<1>5. ASSUME NEW x \in Keys
      PROVE  /\ SameRank(x)
             /\ EditingIn(mem', x) => EditingIn(mem, x) /\ mem'.ent[x].editor.id = mem.ent[x].editor.id
  <2>1. CASE x = k
    BY <1>1, <1>2, <1>4, <2>1 DEF SameRank, Shows, EditingIn
  <2>2. CASE x # k
    BY <1>4, <2>2 DEF SameRank, Shows, EditingIn
  <2> QED
    BY <2>1, <2>2
<1> QED
  BY <1>3, <1>5

\* Give.
LEMMA GiveSnaps == ASSUME IInv, Agreed, IInv', Snaps, Give PROVE Snaps'
<1> DEFINE k == Head(todo).key  e == [mem.ent[k].editor EXCEPT !.held = TRUE]
<1>1. /\ Step("give") /\ disk' = disk /\ phase' = phase /\ snap' = snap /\ edits' = edits /\ edits \in Nat
      /\ mem' = [mem EXCEPT !.ent[k].editor.held = TRUE]
  BY DatesTypes DEF Give, Quiet, Inside
<1>2. Working("give")
  BY <1>1, WorkingIs DEF CacheOps
<1>3. todo # <<>> /\ Head(todo).do = "give" /\ mem \in Mems /\ k \in Keys /\ phase = "up"
  BY <1>2 DEF Working, StepRec, PlainOps, IdxOps
<1>4. todo' = <<>> /\ Final(todo) = "give" /\ todo[Len(todo)] = Head(todo)
  BY <1>1, <1>3, Continues, LastStep DEF Give
<1>5. EditingIn(mem, k)
  BY <1>3, <1>4 DEF IInv, Core, Given, Known
<1>6. mem.ent[k] \in Entries /\ mem.ent[k].editor \in Editors
  BY <1>3, <1>5 DEF EditingIn, Mems, Entries
<1>7. e \in Editors /\ e.id = mem.ent[k].editor.id
  BY <1>6 DEF Editors
<1>8. mem' = [mem EXCEPT !.ent[k].editor = e]
  BY <1>1, <1>3, <1>6 DEF Mems, Entries, Editors
<1> HIDE DEF e, k
<1>9. /\ mem'.base = mem.base /\ mem'.nextSeq = mem.nextSeq
      /\ \A x \in Keys : /\ SameRank(x)
                         /\ EditingIn(mem', x) => EditingIn(mem, x) /\ mem'.ent[x].editor.id = mem.ent[x].editor.id
  BY <1>3, <1>5, <1>7, <1>8, EditorChanges
<1>g. ~At(todo, Passing) /\ (\A x : Starts(todo', x)) /\ edits <= edits'
  BY <1>1, <1>3, <1>4 DEF Passing, Starts, Deleting, At
<1>10. KeepsNumbers
  BY <1>1, <1>3, <1>9, <1>g DEF KeepsNumbers
<1> QED
  BY <1>10, KeepingSnaps

\* Discard.
LEMMA DiscardSnaps == ASSUME IInv, Agreed, IInv', Snaps, faults' = 0, Discard PROVE Snaps'
<1> DEFINE k == Head(todo).key  i == Head(todo).idx
<1>1. /\ Step("discard") /\ todo # <<>> /\ Head(todo).do = "discard" /\ mem' = mem /\ disk \in Disks
      /\ snap' = snap /\ edits' = edits /\ edits \in Nat
  BY DatesTypes DEF Discard, Step, IInv, TypeInv, Inside
<1>2. disk' = [disk EXCEPT !.dirty[k][i] = NoFile] /\ Continue(<<>>) /\ Done
  BY NoFaultYet DEF Discard
<1>3. todo' = Tail(todo) /\ phase' = phase /\ phase = "up"
  BY <1>1, <1>2, Continues, WorkingIs DEF Done, CacheOps, Working
<1>4. \A x : ~Deleting(todo', x)
  BY <1>1, <1>3, TailStarts DEF OpenEnds
<1>5. k \in Keys /\ i \in Idx
  BY <1>1, IndexNext DEF IdxOps, Advances
<1> HIDE DEF k, i
<1>d. disk'.clean = disk.clean /\ disk'.dirty = [disk.dirty EXCEPT ![k][i] = NoFile]
  BY <1>1, <1>2 DEF Disks
<1>6. \A x \in Keys, j \in Idx : disk'.dirty[x][j] \in {NoFile, disk.dirty[x][j]}
  BY <1>1, <1>5, <1>d DEF Disks, Values
<1>7. KeepsNumbers
  BY <1>1, <1>3, <1>4, <1>d, <1>6, SameRanks DEF KeepsNumbers, At, Passing, Starts
<1> QED
  BY <1>7, KeepingSnaps

\* commit, abort.
LEMMA EditEndsSnaps == ASSUME IInv, IInv', Snaps, NEW k \in Keys, commit(k) \/ abort(k) PROVE Snaps'
<1> DEFINE e == [mem.ent[k].editor EXCEPT !.held = FALSE]
           incomplete == ~mem.ent[k].readable /\ \E i \in Idx : i \notin mem.ent[k].editor.written \/ disk.dirty[k][i] = NoFile
<1>1. /\ Held(k) /\ LetGo(k) /\ disk' = disk /\ phase' = phase /\ snap' = snap /\ edits' = edits /\ edits \in Nat
      /\ phase = "up" /\ todo = <<>>
  BY DatesTypes DEF commit, abort, Held, Idle
<1>2. mem \in Mems /\ EditingIn(mem, k) /\ mem.ent[k] \in Entries /\ mem.ent[k].editor \in Editors
  BY <1>1, HeldIs DEF HeldFacts, IdleFacts
<1>3. e \in Editors /\ e.id = mem.ent[k].editor.id
  BY <1>2 DEF Editors
<1>4. mem' = [mem EXCEPT !.ent[k].editor = e]
  BY <1>1, <1>2 DEF LetGo, Mems, Entries, Editors
<1> HIDE DEF e
<1>5. /\ mem'.base = mem.base /\ mem'.nextSeq = mem.nextSeq
      /\ \A x \in Keys : /\ SameRank(x)
                         /\ EditingIn(mem', x) => EditingIn(mem, x) /\ mem'.ent[x].editor.id = mem.ent[x].editor.id
  BY <1>2, <1>3, <1>4, EditorChanges
<1> DEFINE ok == ~incomplete
<1>6. \/ todo' = CompleteProgram(k, ok) \/ todo' = CompleteProgram(k, FALSE)
      \/ todo' = CompleteProgram(k, FALSE) \o DoKey("erase", k)
  BY DEF commit, abort
<1>7. ok \in BOOLEAN
  OBVIOUS
<1> HIDE DEF ok
<1>8. todo' # <<>> /\ Head(todo').do \in {"publish", "discard"}
  BY <1>6, <1>7, EditEndsBegins
<1>9. KeepsNumbers
  BY <1>1, <1>5, <1>8 DEF KeepsNumbers, At, Starts, Deleting
<1> QED
  BY <1>9, KeepingSnaps

\* set: the file is of the edit.
LEMMA setSnaps ==
  ASSUME IInv, IInv', Snaps, NEW k \in Keys, NEW i \in Idx, NEW l \in Lengths, set(k, i, l)
  PROVE  Snaps'
<1> DEFINE ed == mem.ent[k].editor  c == [by |-> ed.id, len |-> l]
<1>1. /\ SetDoes(k, i) /\ Idle /\ phase' = phase /\ todo' = todo /\ snap' = snap /\ edits' = edits /\ edits \in Nat
      /\ disk' = disk \/ disk' = [disk EXCEPT !.dirty[k][i] = c]
  BY SetIs, DatesTypes DEF set, Held
<1>2. /\ mem \in Mems /\ todo = <<>> /\ phase = "up" /\ EditingIn(mem, k) /\ disk'.clean = disk.clean /\ disk \in Disks
  BY <1>1 DEF SetDoes, HeldFacts, IdleFacts
<1>3. PICK e \in Editors : e.id = ed.id /\ mem' = [mem EXCEPT !.ent[k].editor = e]
  BY <1>1 DEF SetDoes
<1>4. c.by <= edits
  BY <1>2 DEF Snaps, Dated
<1> HIDE DEF c
<1>5. ASSUME NEW x \in Keys, NEW j \in Idx PROVE disk'.dirty[x][j] = disk.dirty[x][j] \/ disk'.dirty[x][j].by <= edits'
  <2>1. CASE disk' = disk
    BY <2>1
  <2>2. CASE disk' = [disk EXCEPT !.dirty[k][i] = c]
    <3>1. disk'.dirty = [disk.dirty EXCEPT ![k][i] = c]
      BY <1>2, <2>2 DEF Disks
    <3>2. disk'.dirty[x][j] \in {disk.dirty[x][j], c}
      BY <1>2, <3>1 DEF Disks, Values
    <3> QED
      BY <1>1, <1>4, <3>2
  <2> QED
    BY <1>1, <2>1, <2>2
<1>6. /\ mem'.base = mem.base /\ mem'.nextSeq = mem.nextSeq
      /\ \A x \in Keys : /\ SameRank(x)
                         /\ EditingIn(mem', x) => EditingIn(mem, x) /\ mem'.ent[x].editor.id = mem.ent[x].editor.id
  BY <1>2, <1>3, EditorChanges
<1>7. KeepsNumbers
  BY <1>1, <1>2, <1>5, <1>6 DEF KeepsNumbers, At, Starts, Deleting
<1> QED
  BY <1>7, KeepingSnaps

\* A length changes, and no number.
LEMMA ResizedRank ==
  ASSUME NEW k, NEW i, NEW v, mem \in Mems, Listed(mem), HeldKnown(mem), Resizes(mem, mem', k, i, v)
  PROVE  /\ mem'.base = mem.base /\ mem'.nextSeq = mem.nextSeq
         /\ \A x \in Keys : /\ SameRank(x)
                            /\ EditingIn(mem', x) => EditingIn(mem, x) /\ mem'.ent[x].editor.id = mem.ent[x].editor.id
<1> DEFINE e == mem.ent[k]  f == [e EXCEPT !.len[i] = v]
<1>1. IsResized(mem, mem', k, i, v)
  BY ResizedIs
<1>2. k \in Keys /\ e # NoEntry /\ e \in Entries
  BY DEF Resizes, Mems
<1>3. mem'.base = mem.base /\ mem'.nextSeq = mem.nextSeq /\ mem'.ent = [mem.ent EXCEPT ![k] = f]
  BY <1>2 DEF Resizes, Resized, Mems
<1>4. f.seq = e.seq
  BY <1>2 DEF Entries
<1>5. mem'.ent[k] = f
  BY <1>2, <1>3 DEF Mems
<1> HIDE DEF f
<1>6. ASSUME NEW x \in Keys
      PROVE  /\ SameRank(x)
             /\ EditingIn(mem', x) => EditingIn(mem, x) /\ mem'.ent[x].editor.id = mem.ent[x].editor.id
  <2>1. CASE x = k
    BY <1>1, <1>2, <1>4, <1>5, <2>1 DEF IsResized, SameRank, Shows, EditingIn
  <2>2. CASE x # k
    BY <1>1, <2>2 DEF IsResized, SameRank, Shows, EditingIn
  <2> QED
    BY <2>1, <2>2
<1> QED
  BY <1>3, <1>6

\* PublishStep: the values of the entry are about to get their number.
LEMMA PublishSnaps == ASSUME IInv, Agreed, IInv', Snaps, faults' = 0, PublishStep PROVE Snaps'
<1> DEFINE k == Head(todo).key  i == Head(todo).idx  c == disk.dirty[k][i]
<1>1. /\ Step("publish") /\ todo # <<>> /\ Head(todo).do = "publish" /\ disk \in Disks /\ phase' = phase
      /\ mem \in Mems /\ Listed(mem) /\ HeldKnown(mem) /\ snap' = snap /\ edits' = edits /\ edits \in Nat
      /\ mem.nextSeq \in Nat
  BY DatesTypes DEF PublishStep, Step, IInv, TypeInv, Core, Inside
<1>2. todo' = Tail(todo) /\ phase = "up"
  BY <1>1, Continues, WorkingIs DEF PublishStep, CacheOps, Working
<1>3. Advances(todo, todo')
  BY <1>1, <1>2, IndexNext DEF IdxOps
<1>4. k \in Keys /\ i \in Idx /\ todo' # <<>> /\ Head(todo').key = k /\ Head(todo').do \in {"publish", "complete"}
      /\ (Head(todo').do = "complete" => Head(todo').ok)
  BY <1>1, <1>3 DEF Advances, AfterOps
<1>5. EditingIn(mem, k)
  BY <1>1 DEF IInv, Core, Ready, At
<1>6. \/ c = NoFile /\ disk' = disk /\ mem' = mem
      \/ /\ c # NoFile /\ mem' = Resized(mem, k, i, c.len)
         /\ disk' = [disk EXCEPT !.clean[k][i] = c, !.dirty[k][i] = NoFile]
  BY NoFaultYet DEF PublishStep
<1>7. c # NoFile => c.len \in Nat
  <2>1. c # NoFile => c \in Contents
    BY <1>1, <1>4 DEF Disks, Values
  <2> QED
    BY <2>1, LimitAssumption DEF Contents
<1>k. Publishes(todo', k) /\ (\A x : Publishes(todo, x) => x = k) /\ c = disk.dirty[k][i]
      /\ \A x : ~Deleting(todo, x) /\ ~Deleting(todo', x)
  BY <1>1, <1>4 DEF Publishes, Deleting, At
<1> HIDE DEF k, i, c
<1>8. /\ mem'.base = mem.base /\ mem'.nextSeq = mem.nextSeq
      /\ \A x \in Keys : /\ SameRank(x)
                         /\ EditingIn(mem', x) => EditingIn(mem, x) /\ mem'.ent[x].editor.id = mem.ent[x].editor.id
  <2>1. CASE mem' = mem
    BY <2>1, SameRanks
  <2>2. CASE c # NoFile /\ mem' = Resized(mem, k, i, c.len)
    <3>1. Resizes(mem, mem', k, i, c.len)
      BY <1>4, <1>5, <1>7, <2>2 DEF Resizes, EditingIn
    <3> QED
      BY <1>1, <3>1, ResizedRank
  <2> QED
    BY <1>6, <2>1, <2>2
<1>9. /\ \A x \in Keys : x # k => disk'.clean[x] = disk.clean[x]
      /\ \A x \in Keys, j \in Idx : /\ disk'.clean[x][j] \in {disk.clean[x][j], disk.dirty[x][j]}
                                    /\ disk'.dirty[x][j] \in {NoFile, disk.dirty[x][j]}
  <2>1. CASE disk' = disk
    BY <2>1
  <2>2. CASE disk' = [disk EXCEPT !.clean[k][i] = c, !.dirty[k][i] = NoFile]
    <3>1. /\ disk'.clean = [disk.clean EXCEPT ![k][i] = c] /\ disk'.dirty = [disk.dirty EXCEPT ![k][i] = NoFile]
          /\ disk.clean \in [Keys -> Values] /\ disk.dirty \in [Keys -> Values]
      BY <1>1, <2>2 DEF Disks
    <3> QED
      BY <1>4, <1>k, <3>1 DEF Values
  <2> QED
    BY <1>6, <2>1, <2>2
<1>10. DatesKept
  BY <1>1, <1>2, <1>8, <1>9 DEF DatesKept
<1>11. ASSUME NEW x \in Keys PROVE Untouched(x) \/ Publishing(x)
  <2>1. CASE x = k
    BY <1>k, <2>1 DEF Publishing
  <2>2. CASE x # k
    BY <1>8, <1>9, <1>k, <2>2 DEF Untouched, Starts
  <2> QED
    BY <2>1, <2>2
<1>12. Ranks
  BY <1>1, <1>2, <1>8, <1>11 DEF Ranks, Emptying, At
<1> QED
  BY <1>10, <1>12, DatesStay, RanksStay DEF Snaps

\* DeleteClean: the values of the entry go one by one.
LEMMA DeleteCleanSnaps == ASSUME IInv, Agreed, IInv', Snaps, faults' = 0, DeleteClean PROVE Snaps'
<1> DEFINE k == Head(todo).key  i == Head(todo).idx
<1>1. /\ Step("deleteClean") /\ todo # <<>> /\ Head(todo).do = "deleteClean" /\ disk \in Disks
      /\ mem \in Mems /\ Listed(mem) /\ HeldKnown(mem) /\ snap' = snap /\ edits' = edits /\ edits \in Nat
      /\ mem.nextSeq \in Nat
  BY DatesTypes DEF DeleteClean, Step, IInv, TypeInv, Core, Inside
<1>2. disk' = [disk EXCEPT !.clean[k][i] = NoFile] /\ mem' = Resized(mem, k, i, 0) /\ Continue(<<>>) /\ Done
  BY NoFaultYet DEF DeleteClean
<1>3. todo' = Tail(todo) /\ phase' = phase /\ phase = "up"
  BY <1>1, <1>2, Continues, WorkingIs DEF Done, CacheOps, Working
<1>4. Advances(todo, todo')
  BY <1>1, <1>3, IndexNext DEF IdxOps
<1>5. /\ k \in Keys /\ i \in Idx /\ todo' # <<>> /\ Head(todo').key = k /\ Head(todo').do \in {"deleteClean", "removed"}
      /\ \A j \in Idx : Behind(todo', j) => Behind(todo, j) \/ j = i
  BY <1>1, <1>4 DEF Advances, AfterOps
<1>6. Resting(mem, k)
  BY <1>1 DEF IInv, Core, Ready, At
<1>k. /\ \A x : ~Publishes(todo, x) /\ (Deleting(todo, x) <=> x = k) /\ (Deleting(todo', x) <=> x = k)
      /\ ~Emptying(todo)
  BY <1>1, <1>5 DEF Publishes, Deleting, Emptying, At
<1> HIDE DEF k, i
<1>7. /\ mem'.base = mem.base /\ mem'.nextSeq = mem.nextSeq
      /\ \A x \in Keys : /\ SameRank(x)
                         /\ EditingIn(mem', x) => EditingIn(mem, x) /\ mem'.ent[x].editor.id = mem.ent[x].editor.id
  <2>1. Resizes(mem, mem', k, i, 0)
    BY <1>2, <1>5, <1>6 DEF Resizes, Resting
  <2> QED
    BY <1>1, <2>1, ResizedRank
<1>8. /\ \A x \in Keys : x # k => disk'.clean[x] = disk.clean[x]
      /\ \A j \in Idx : disk'.clean[k][j] = IF j = i THEN NoFile ELSE disk.clean[k][j]
      /\ disk'.dirty = disk.dirty
  <2>1. disk'.clean = [disk.clean EXCEPT ![k][i] = NoFile] /\ disk'.dirty = disk.dirty /\ disk.clean \in [Keys -> Values]
    BY <1>1, <1>2 DEF Disks
  <2> QED
    BY <1>5, <2>1 DEF Values
<1>9. DatesKept
  <2>1. \A x \in Keys, j \in Idx : disk'.clean[x][j] \in {NoFile, disk.clean[x][j]}
    BY <1>8
  <2> QED
    BY <1>1, <1>3, <1>7, <1>8, <2>1 DEF DatesKept
<1>10. \A j \in Idx : Behind(todo, j) => disk.clean[k][j] = NoFile
  BY <1>3, <1>5, <1>k DEF Snaps, Snapped, Ranked
<1>11. ASSUME NEW x \in Keys PROVE Untouched(x) \/ Shrinks(x)
  <2>1. CASE x = k
    BY <1>5, <1>7, <1>8, <1>10, <1>k, <2>1 DEF Shrinks
  <2>2. CASE x # k
    BY <1>7, <1>8, <1>k, <2>2 DEF Untouched, Starts
  <2> QED
    BY <2>1, <2>2
<1>12. Ranks
  BY <1>1, <1>3, <1>7, <1>11, <1>k DEF Ranks
<1> QED
  BY <1>9, <1>12, DatesStay, RanksStay DEF Snaps

\* Removed: the entry goes, its values have.
LEMMA RemovedSnaps == ASSUME IInv, Agreed, IInv', Snaps, Removed PROVE Snaps'
<1> DEFINE k == Head(todo).key
           m == [mem EXCEPT !.redundant = @ + 1]
           r == Line("REMOVE", k)
           n == [m EXCEPT !.out = Append(@, r), !.lru = Without(@, k), !.ent[k] = NoEntry]
<1>1. Step("removed") /\ todo # <<>> /\ Head(todo).do = "removed" /\ disk' = disk /\ snap' = snap /\ edits' = edits
      /\ edits \in Nat /\ mem.nextSeq \in Nat
  BY DatesTypes DEF Removed, Step, Inside
<1>2. /\ Working("removed") /\ mem.writer = "open" /\ mem \in Mems /\ phase = "up" /\ k \in Keys
  BY <1>1, WorkingIs DEF CacheOps, Working, ClosedOps, StepRec, PlainOps, IdxOps
<1>3. mem' = n /\ Continue(<<>>) /\ Done
  BY <1>2 DEF Removed
<1>4. phase' = "up" /\ todo' = Tail(todo)
  BY <1>1, <1>2, <1>3, Continues DEF Done
<1>5. m.ent = mem.ent /\ m.base = mem.base /\ m.nextSeq = mem.nextSeq
  BY <1>2 DEF Mems
<1>6. mem'.ent = [mem.ent EXCEPT ![k] = NoEntry] /\ mem'.base = mem.base /\ mem'.nextSeq = mem.nextSeq
  <2>1. mem'.ent = [m.ent EXCEPT ![k] = NoEntry] /\ mem'.base = m.base /\ mem'.nextSeq = m.nextSeq
    BY <1>2, <1>3 DEF Mems
  <2> QED
    BY <1>5, <2>1
<1>7. mem'.ent[k] = NoEntry /\ \A x \in Keys : x # k => mem'.ent[x] = mem.ent[x]
  BY <1>2, <1>6 DEF Mems
<1>8. \A x : ~Deleting(todo', x)
  BY <1>1, <1>4, TailStarts DEF OpenEnds
<1>9. \A i \in Idx : disk.clean[k][i] = NoFile
  <2>1. Deleting(todo, k) /\ \A i \in Idx : Behind(todo, i)
    BY <1>1 DEF Deleting, At, Behind, IdxOps
  <2> QED
    BY <1>2, <2>1 DEF Snaps, Snapped, Ranked
<1>k. (\A x : ~Publishes(todo, x) /\ (Deleting(todo, x) => x = k)) /\ ~Emptying(todo)
  BY <1>1 DEF Publishes, Deleting, Emptying, At
<1> HIDE DEF k, m, n, r
<1>10. DatesKept
  BY <1>1, <1>2, <1>4, <1>6, <1>7 DEF DatesKept, EditingIn
<1>11. ASSUME NEW x \in Keys PROVE Untouched(x) \/ Leaves(x)
  <2>1. CASE x = k
    BY <1>1, <1>7, <1>8, <1>9, <2>1 DEF Leaves, Shows, Own
  <2>2. CASE x # k
    BY <1>1, <1>7, <1>8, <1>k, <2>2 DEF Untouched, SameRank, Shows, Starts
  <2> QED
    BY <2>1, <2>2
<1>12. Ranks
  BY <1>1, <1>2, <1>4, <1>6, <1>11, <1>k DEF Ranks
<1> QED
  BY <1>10, <1>12, DatesStay, RanksStay DEF Snaps

\* Complete: the entry has the next number, or as before, or is gone.
LEMMA CompleteSnaps == ASSUME IInv, Agreed, IInv', Snaps, Complete PROVE Snaps'
<1> DEFINE k == Head(todo).key  ok == Head(todo).ok  st == mem.ent[k].readable \/ ok
<1>1. Step("complete") /\ todo # <<>> /\ Head(todo).do = "complete" /\ disk' = disk /\ snap' = snap /\ edits' = edits
      /\ edits \in Nat /\ mem.nextSeq \in Nat
  BY DatesTypes DEF Complete, Step, Inside
<1>2. Working("complete") /\ mem.writer = "open" /\ phase = "up" /\ k \in Keys /\ EditingIn(mem, k) /\ ok \in BOOLEAN
  <2>1. Working("complete") /\ mem.writer = "open" /\ phase = "up"
    BY <1>1, WorkingIs DEF CacheOps, Working, ClosedOps
  <2>2. k \in Keys /\ ok \in BOOLEAN
    BY <1>1, <2>1 DEF Working, StepRec, PlainOps, KeyOps, IdxOps
  <2>3. EditingIn(mem, k)
    BY <1>1 DEF IInv, Core, Ready, At
  <2> QED
    BY <2>1, <2>2, <2>3
<1>3. Completed(mem, mem', k, st) /\ CompletedNumber(mem, mem', k, ok) /\ Continue(<<>>) /\ Done
  BY <1>2, CompletedIs
<1>4. todo' = Tail(todo) /\ phase' = "up"
  BY <1>1, <1>2, <1>3, Continues DEF Done
<1>5. \A x : ~Deleting(todo', x)
  BY <1>1, <1>4, TailStarts DEF OpenEnds
<1>k. /\ \A x : ~Deleting(todo, x) /\ (Publishes(todo, x) <=> x = k /\ ok)
      /\ ~Emptying(todo) /\ (st <=> mem.ent[k].readable \/ ok)
  BY <1>1 DEF Publishes, Deleting, Emptying, At
<1> HIDE DEF k, ok, st
<1>6. mem'.base = mem.base /\ mem.nextSeq <= mem'.nextSeq
  BY <1>1, <1>2, <1>3 DEF CompletedNumber
<1>7. \A x \in Keys : EditingIn(mem', x) => x # k
  BY <1>3 DEF Completed, EditingIn
<1>8. DatesKept
  BY <1>1, <1>2, <1>3, <1>4, <1>6, <1>7 DEF DatesKept, Completed, EditingIn
<1>9. ASSUME ok PROVE Renumbered(k)
  BY <1>1, <1>3, <1>5, <1>9, <1>k DEF Renumbered, Completed, CompletedNumber, Shows
<1>10. ASSUME ~ok, mem.ent[k].readable PROVE Untouched(k)
  <2>1. SameRank(k)
    BY <1>2, <1>3, <1>10, <1>k DEF SameRank, Shows, Completed, CompletedNumber, EditingIn
  <2> QED
    BY <1>1, <1>5, <1>10, <1>k, <2>1 DEF Untouched, Starts
<1>11. ASSUME ~ok, ~mem.ent[k].readable PROVE Leaves(k)
  <2>1. \A i \in Idx : ~Own(disk.clean[k][i], mem)
    BY <1>2, <1>11, <1>k DEF Snaps, Snapped, Ranked, Shows
  <2>2. mem'.ent[k] = NoEntry
    BY <1>3, <1>11, <1>k DEF Completed
  <2> QED
    BY <1>1, <1>5, <2>1, <2>2 DEF Leaves, Shows
<1>12. ASSUME NEW x \in Keys PROVE Untouched(x) \/ Renumbered(x) \/ Leaves(x)
  <2>1. CASE x = k
    BY <1>2, <1>9, <1>10, <1>11, <2>1
  <2>2. CASE x # k
    BY <1>1, <1>3, <1>5, <1>k, <2>2 DEF Untouched, SameRank, Shows, Starts, Completed
  <2> QED
    BY <2>1, <2>2
<1>13. Ranks
  BY <1>1, <1>2, <1>4, <1>6, <1>12, <1>k DEF Ranks
<1> QED
  BY <1>8, <1>13, DatesStay, RanksStay DEF Snaps

\* Wipe: files go, in a cache that is being deleted or an open.
LEMMA WipeSnaps == ASSUME IInv, IInv', Snaps, faults' = 0, Wipe PROVE Snaps'
<1>1. /\ Step("wipe") /\ mem' = mem /\ todo # <<>> /\ Head(todo).do = "wipe" /\ disk \in Disks /\ phase' = phase
      /\ snap' = snap /\ edits' = edits /\ edits \in Nat /\ mem.nextSeq \in Nat
  BY NoFaultYet, DatesTypes DEF Wipe, Step, IInv, TypeInv, Inside
<1>2. /\ \A k \in Keys, i \in Idx : /\ disk'.clean[k][i] \in {NoFile, disk.clean[k][i]}
                                    /\ disk'.dirty[k][i] \in {NoFile, disk.dirty[k][i]}
      /\ todo' = todo \/ Continue(<<>>)
  <2>1. CASE disk' = disk /\ Continue(<<>>)
    BY <2>1
  <2>2. CASE /\ \E x \in ValueFiles(disk) :
                   disk' = [disk EXCEPT !.clean[x[1]][x[2]] = NoFile, !.dirty[x[1]][x[2]] = NoFile]
             /\ todo' = todo
    <3>1. PICK x \in ValueFiles(disk) :
                   disk' = [disk EXCEPT !.clean[x[1]][x[2]] = NoFile, !.dirty[x[1]][x[2]] = NoFile]
      BY <2>2
    <3>2. x[1] \in Keys /\ x[2] \in Idx
      BY DEF ValueFiles
    <3> DEFINE y == x[1]  j == x[2]
    <3>3. disk' = [disk EXCEPT !.clean[y][j] = NoFile, !.dirty[y][j] = NoFile] /\ y \in Keys /\ j \in Idx
      BY <3>1, <3>2
    <3> HIDE DEF y, j
    <3>4. /\ disk'.clean = [disk.clean EXCEPT ![y][j] = NoFile] /\ disk'.dirty = [disk.dirty EXCEPT ![y][j] = NoFile]
          /\ disk.clean \in [Keys -> Values] /\ disk.dirty \in [Keys -> Values]
      BY <1>1, <3>3 DEF Disks
    <3> QED
      BY <2>2, <3>3, <3>4 DEF Values
  <2>3. CASE (\E f \in JournalFiles(disk) : disk' = [disk EXCEPT ![f] = NoFile]) /\ todo' = todo
    <3>1. PICK f \in JournalFiles(disk) : disk' = [disk EXCEPT ![f] = NoFile]
      BY <2>3
    <3>2. f \in {"journal", "tmp", "backup"}
      BY DEF JournalFiles
    <3>3. disk'.clean = disk.clean /\ disk'.dirty = disk.dirty
      BY <1>1, <3>1, <3>2 DEF Disks
    <3> QED
      BY <2>3, <3>3
  <2> QED
    BY <2>1, <2>2, <2>3, NoFaultYet DEF Wipe
<1>3. CASE phase = "opening"
  BY <1>1, <1>2, <1>3, OpeningSnaps
<1>4. CASE phase = "up"
  <2>1. Emptying(todo') /\ \A x : ~Deleting(todo', x) /\ ~Publishes(todo, x)
    <3>1. CASE todo' = todo
      BY <1>1, <3>1 DEF Emptying, Deleting, Publishes, At
    <3>2. CASE Continue(<<>>)
      BY <1>1, <1>4, <3>2, WipeNext DEF Emptying, Deleting, Publishes, At
    <3> QED
      BY <1>2, <3>1, <3>2
  <2>2. \A x \in Keys : Shrinks(x)
    BY <1>1, <1>2, <2>1, SameRanks DEF Shrinks
  <2>3. DatesKept
    BY <1>1, <1>2, <1>4 DEF DatesKept
  <2>4. Ranks
    BY <1>1, <1>4, <2>1, <2>2 DEF Ranks
  <2> QED
    BY <2>3, <2>4, DatesStay, RanksStay DEF Snaps
<1> QED
  BY <1>1, <1>3, <1>4, StepIs

\* edit: the number of the entry stays, the edit has the next one.
LEMMA EditNumbers ==
  ASSUME IInv, Agreed, NEW k \in Keys, NEW expected, edit(k, expected)
  PROVE  /\ mem'.base = mem.base /\ mem'.nextSeq = mem.nextSeq /\ (todo' = todo \/ todo' = EditProgram(k))
         /\ edits \in Nat /\ edits' \in {edits, edits + 1}
         /\ \A x \in Keys : /\ SameRank(x)
                            /\ EditingIn(mem', x) =>
                                 \/ mem'.ent[x].editor.id <= edits'
                                 \/ EditingIn(mem, x) /\ mem'.ent[x].editor.id = mem.ent[x].editor.id
<1> DEFINE m == [mem EXCEPT !.lru = Touch(@, k)]
           e == IF mem.ent[k] = NoEntry THEN Entry ELSE mem.ent[k]
           x == NewEditor(edits + 1)
           f == [e EXCEPT !.editor = x]
           n == [m EXCEPT !.lru = IF mem.ent[k] = NoEntry THEN Append(@, k) ELSE @, !.ent[k] = f]
           r == Line("DIRTY", k)
<1>1. mem.writer = "open" /\ mem \in Mems /\ edits \in Nat
  BY IdleWrites, DatesTypes DEF edit
<1>2. \/ mem' = m /\ todo' = todo /\ edits' = edits
      \/ mem' = [n EXCEPT !.out = Append(@, r)] /\ todo' = EditProgram(k) /\ edits' = edits + 1
  BY <1>1 DEF edit
<1>3. CASE mem' = m /\ todo' = todo /\ edits' = edits
  <2>1. mem'.base = mem.base /\ mem'.nextSeq = mem.nextSeq /\ mem'.ent = mem.ent
    BY <1>1, <1>3 DEF Mems
  <2> QED
    BY <1>1, <1>3, <2>1, SameRanks
<1>4. CASE mem' = [n EXCEPT !.out = Append(@, r)] /\ todo' = EditProgram(k) /\ edits' = edits + 1
  <2>1. e \in Entries /\ (mem.ent[k] # NoEntry => e = mem.ent[k]) /\ (mem.ent[k] = NoEntry => ~e.readable)
    <3>1. Entry \in Entries /\ ~Entry.readable
      BY EntryType DEF Entry
    <3> QED
      BY <1>1, <3>1 DEF Mems
  <2>2. x.id = edits + 1
    BY DEF NewEditor
  <2> HIDE DEF e, x
  <2>3. f.editor = x /\ f.seq = e.seq /\ f.readable = e.readable /\ f # NoEntry
    <3>1. f.editor = x /\ f.seq = e.seq /\ f.readable = e.readable
      BY <2>1 DEF Entries
    <3>2. x \in Editors
      BY <1>1, EditorType DEF x
    <3>3. f \in Entries
      BY <2>1, <3>2 DEF Entries
    <3> QED
      BY <3>1, <3>3, NullAssumption
  <2> HIDE DEF f
  <2> DEFINE l == IF mem.ent[k] = NoEntry THEN Append(m.lru, k) ELSE m.lru  g == [mem.ent EXCEPT ![k] = f]
  <2>4. n = [mem EXCEPT !.lru = l, !.ent = g]
    BY <1>1 DEF Mems
  <2> HIDE DEF l, g, n, m
  <2>5. mem'.base = mem.base /\ mem'.nextSeq = mem.nextSeq /\ mem'.ent = g
    BY <1>1, <1>4, <2>4 DEF Mems
  <2>6. mem'.ent[k] = f /\ \A y \in Keys : y # k => mem'.ent[y] = mem.ent[y]
    BY <1>1, <2>5 DEF Mems, g
  <2>7. ASSUME NEW y \in Keys
        PROVE  /\ SameRank(y)
               /\ EditingIn(mem', y) =>
                    \/ mem'.ent[y].editor.id <= edits'
                    \/ EditingIn(mem, y) /\ mem'.ent[y].editor.id = mem.ent[y].editor.id
    <3>1. CASE y = k
      <4>1. SameRank(k)
        BY <2>1, <2>3, <2>6 DEF SameRank, Shows
      <4>2. mem'.ent[k].editor.id <= edits'
        BY <1>1, <1>4, <2>2, <2>3, <2>6
      <4> QED
        BY <3>1, <4>1, <4>2
    <3>2. CASE y # k
      BY <2>6, <3>2 DEF SameRank, Shows, EditingIn
    <3> QED
      BY <3>1, <3>2
  <2> QED
    BY <1>1, <1>4, <2>5, <2>7
<1> QED
  BY <1>2, <1>3, <1>4

\* So edit keeps this.
LEMMA editSnaps == ASSUME IInv, Agreed, IInv', Snaps, NEW k \in Keys, NEW expected, edit(k, expected) PROVE Snaps'
<1>1. Idle /\ disk' = disk /\ phase' = phase /\ snap' = snap
  BY DEF edit
<1>2. todo' = EditProgram(k) => todo' # <<>> /\ Head(todo') = [do |-> "flush"]
  <2> SUFFICES ASSUME todo' = EditProgram(k) PROVE todo' # <<>> /\ Head(todo') = [do |-> "flush"]
    OBVIOUS
  <2>1. Whole(todo', "up") /\ todo'[1] = [do |-> "flush"]
    BY EditProgramIs
  <2> QED
    BY <2>1, Begins
<1>3. \A x : Starts(todo', x)
  BY <1>1, <1>2, EditNumbers DEF Starts, Deleting, At, Idle
<1>4. edits <= edits'
  BY EditNumbers
<1>5. KeepsNumbers
  BY <1>1, <1>3, <1>4, EditNumbers DEF KeepsNumbers, Idle, At
<1> QED
  BY <1>5, KeepingSnaps

\* SnapshotEdit.
LEMMA SnapshotEditSnaps == ASSUME IInv, Agreed, IInv', Snaps, SnapshotEdit PROVE Snaps'
<1>1. snap.key \in Keys /\ edit(snap.key, {snap.seq})
  BY DEF SnapshotEdit, IInv, TypeInv, Snapshots
<1> QED
  BY <1>1, editSnaps

\* An open goes on with the edits of earlier processes, and only removes files.
LEMMA OpenStepSnaps == ASSUME IInv, Agreed, IInv', Snaps, faults' = 0, OpenStep PROVE Snaps'
<1>1. PICK op \in {"useBackup", "load", "process", "collect", "unlink", "dropEntry", "fresh"} : Step(op)
  BY DEF OpenStep, UseBackup, Load, Process, Collect, Unlink, DropEntry, Fresh
<1>2. phase = "opening" /\ mem \in Mems /\ disk \in Disks
  BY <1>1, OpeningOnly DEF IInv, TypeInv
<1>3. phase' = phase /\ snap' = snap /\ edits' = edits
  BY NoFaultYet DEF OpenStep, UseBackup, Load, Process, Collect, Unlink, DropEntry, Fresh, Quiet, Done, Inside
<1>4. mem'.base = mem.base
  <2>1. CASE UseBackup \/ Process \/ Unlink
    BY <2>1 DEF UseBackup, Process, Unlink
  <2>2. CASE Load
    <3>1. Sound(mem) /\ mem.lru = <<>>
      BY <2>2, LoadingIs DEF Loading, Empties
    <3>2. CASE mem' = mem
      BY <3>2
    <3>3. CASE disk.journal # NoFile /\ mem' = ReadJournal(mem, disk.journal.lines)
      <4>1. disk.journal.lines \in Seq(Lines)
        BY <1>2, <3>3 DEF Disks, Journals
      <4> QED
        BY <3>1, <3>3, <4>1, ReadIs
    <3> QED
      BY <2>2, <3>2, <3>3 DEF Load
  <2>3. CASE Collect \/ DropEntry
    BY <1>2, <2>3 DEF Collect, DropEntry, Mems
  <2>4. CASE Fresh
    BY <2>4 DEF Fresh, NewCache
  <2> QED
    BY <2>1, <2>2, <2>3, <2>4 DEF OpenStep
<1>5. \A k \in Keys, i \in Idx : /\ disk'.clean[k][i] \in {NoFile, disk.clean[k][i]}
                                 /\ disk'.dirty[k][i] \in {NoFile, disk.dirty[k][i]}
  <2>1. CASE Load \/ Collect \/ DropEntry \/ Fresh
    BY <2>1 DEF Load, Collect, DropEntry, Fresh
  <2>2. CASE UseBackup \/ Process
    <3>1. disk'.clean = disk.clean /\ disk'.dirty = disk.dirty
      BY <1>2, <2>2 DEF UseBackup, Process, Disks
    <3> QED
      BY <3>1
  <2>3. CASE Unlink
    <3> DEFINE y == Head(todo).key  j == Head(todo).idx
    <3>1. disk' = [disk EXCEPT !.clean[y][j] = NoFile, !.dirty[y][j] = NoFile] /\ y \in Keys /\ j \in Idx
      <4>1. todo # <<>> /\ Head(todo).do = "unlink"
        BY <2>3 DEF Unlink, Step
      <4> QED
        BY <2>3, <4>1, NoFaultYet, IndexNext DEF Unlink, IdxOps, Advances
    <3> HIDE DEF y, j
    <3>2. /\ disk'.clean = [disk.clean EXCEPT ![y][j] = NoFile] /\ disk'.dirty = [disk.dirty EXCEPT ![y][j] = NoFile]
          /\ disk.clean \in [Keys -> Values] /\ disk.dirty \in [Keys -> Values]
      BY <1>2, <3>1 DEF Disks
    <3> QED
      BY <3>1, <3>2 DEF Values
  <2> QED
    BY <2>1, <2>2, <2>3 DEF OpenStep
<1> QED
  BY <1>2, <1>3, <1>4, <1>5, OpeningSnaps

\* A cache that has been opened has no edits.
LEMMA OpenedIs ==
  ASSUME IInv, NEW op \in {"opened", "created"}, Step(op), Continue(<<>>)
  PROVE  phase = "opening" /\ todo' = <<>> /\ \A k \in Keys : ~EditingIn(mem, k)
<1>1. todo # <<>> /\ Head(todo).do = op /\ phase = "opening"
  BY StepIs, OpeningOnly
<1>2. Tail(todo) = <<>> /\ Final(todo) = op /\ DOMAIN todo = {1} /\ todo[1] = Head(todo)
  BY <1>1, LastStep
<1>3. todo' = <<>>
  BY <1>1, <1>2, Continues
<1>4. mem \in Mems /\ Listed(mem) /\ Sized(mem, todo, phase)
  BY DEF IInv, Core
<1>5. \A k \in Keys : ~EditingIn(mem, k)
  <2>1. CASE op = "created"
    <3>1. mem.lru = <<>>
      BY <1>1, <1>2, <1>4, <2>1 DEF Sized
    <3> QED
      BY <1>4, <3>1, NoList DEF EditingIn
  <2>2. CASE op = "opened"
    <3>1. EditingKeys(mem) \subseteq Pend(mem, todo)
      BY <1>1, <1>2, <1>4, <2>2 DEF Sized, Uncounted
    <3>2. Pend(mem, todo) = {}
      BY <1>1, <1>2, <2>2 DEF Pend, At, Reloads, Rebuild, CollectKeys, Gathers, Unlinked
    <3> QED
      BY <3>1, <3>2 DEF EditingKeys
  <2> QED
    BY <2>1, <2>2
<1> QED
  BY <1>1, <1>3, <1>5

\* No value of this process is there yet.
LEMMA OpenedSnaps == ASSUME IInv, IInv', Snaps, Opened \/ Created PROVE Snaps'
<1>1. PICK op \in {"opened", "created"} : Step(op)
  BY DEF Opened, Created
<1>2. Continue(<<>>) /\ disk' = disk /\ mem' = mem /\ phase' = "up" /\ snap' = snap /\ edits' = edits
  BY DEF Opened, Created, Inside
<1>3. phase = "opening" /\ todo' = <<>> /\ \A k \in Keys : ~EditingIn(mem, k)
  BY <1>1, <1>2, OpenedIs
<1>4. snap' = NoSnapshot /\ mem.base = edits
  BY <1>2, <1>3 DEF Snaps, Snapped, Dated
<1>5. Dated(disk', mem', phase', edits')
  BY <1>2, <1>3 DEF Snaps, Dated
<1>6. \A k \in Keys, i \in Idx : ~Own(disk.clean[k][i], mem)
  BY <1>4, DatesTypes DEF Snaps, Dated, Own
<1>7. Ranked(disk', mem', todo')
  BY <1>2, <1>3, <1>6 DEF Ranked, Deleting, At
<1> QED
  BY <1>2, <1>4, <1>5, <1>7 DEF Snaps, Snapped, Taken

\* Without a cache there is no snapshot.
LEMMA ShutSnaps == ASSUME IInv, IInv', Snaps, Down \/ Crash PROVE Snaps'
<1>1. phase' = "down" /\ snap' = NoSnapshot /\ edits' = edits /\ edits \in Nat /\ disk \in Disks
  BY DatesTypes DEF Down, Crash, IInv, TypeInv
<1>2. mem'.base = mem.base
  <2>1. CASE Down
    BY <2>1 DEF Down
  <2>2. CASE Crash
    <3>1. mem' = NewCache(mem.version, mem.maxSize, mem.base)
      BY <2>2 DEF Crash
    <3> QED
      BY <3>1 DEF NewCache
  <2> QED
    BY <2>1, <2>2
<1>3. disk'.clean = disk.clean /\ disk'.dirty = disk.dirty
  <2>1. CASE disk' = disk
    BY <2>1
  <2>2. CASE \E n \in 0..Len(mem.out), t \in BOOLEAN :
               disk' = [disk EXCEPT !.journal.torn = t, !.journal.lines = @ \o SubSeq(mem.out, 1, n)]
    BY <1>1, <2>2 DEF Disks
  <2> QED
    BY <2>1, <2>2 DEF Down, Crash
<1>4. DatesKept
  BY <1>1, <1>2, <1>3 DEF DatesKept
<1> QED
  BY <1>1, <1>4, DatesStay DEF Snaps, Snapped

\* open: the edits so far are of earlier processes.
LEMMA openSnaps == ASSUME IInv, IInv', Snaps, NEW v \in Versions, open(v, OpenLimit) PROVE Snaps'
<1>1. phase' = "opening" /\ snap' = NoSnapshot /\ edits' = edits /\ edits \in Nat /\ disk' = disk /\ mem'.base = edits
  BY DatesTypes DEF open, NewCache
<1>2. Dated(disk', mem', phase', edits')
  BY <1>1 DEF Snaps, Dated
<1> QED
  BY <1>1, <1>2 DEF Snaps, Snapped

\* At first there is nothing.
LEMMA InitSnaps == Init => Snaps
<1> SUFFICES ASSUME Init PROVE Snaps
  OBVIOUS
<1>1. edits = 0 /\ phase = "down" /\ snap = NoSnapshot /\ mem.base = 0 /\ disk.clean = Blank(NoFile) /\ disk.dirty = Blank(NoFile)
  BY DEF Init, NewCache, EmptyDisk
<1> QED
  BY <1>1 DEF Snaps, Snapped, Dated, Blank

\* Every call keeps this.
LEMMA CallsSnaps == ASSUME IInv, Agreed, IInv', Snaps, Call PROVE Snaps'
<1>1. CASE \E v \in Versions : open(v, OpenLimit)
  BY <1>1, openSnaps
<1>2. CASE \E k \in Keys : \/ get(k) \/ edit(k, {}) \/ remove(k) \/ commit(k) \/ abort(k) \/ RemoveStale(k)
                           \/ \E i \in Idx, l \in Lengths : set(k, i, l)
  <2>1. PICK k \in Keys : \/ get(k) \/ edit(k, {}) \/ remove(k) \/ commit(k) \/ abort(k) \/ RemoveStale(k)
                          \/ \E i \in Idx, l \in Lengths : set(k, i, l)
    BY <1>2
  <2>2. CASE get(k)
    BY <2>2, getSnaps
  <2>3. CASE edit(k, {})
    BY <2>3, editSnaps
  <2>4. CASE remove(k) \/ RemoveStale(k)
    BY <2>4, removeSnaps
  <2>5. CASE commit(k) \/ abort(k)
    BY <2>5, EditEndsSnaps
  <2>6. CASE \E i \in Idx, l \in Lengths : set(k, i, l)
    BY <2>6, setSnaps
  <2> QED
    BY <2>1, <2>2, <2>3, <2>4, <2>5, <2>6
<1>3. CASE \E m \in Limits : setMaxSize(m)
  BY <1>3, setMaxSizeSnaps
<1>4. CASE SnapshotEdit
  BY <1>4, SnapshotEditSnaps
<1>5. CASE flush \/ close \/ delete
  BY <1>5, ProgramSnaps
<1> QED
  BY <1>1, <1>2, <1>3, <1>4, <1>5 DEF Call

\* So does every step of a call in which no I/O error occurs.
LEMMA StepsSnaps == ASSUME IInv, Agreed, IInv', Snaps, faults' = 0, Steps PROVE Snaps'
<1>1. CASE OpenStep
  BY <1>1, OpenStepSnaps
<1>2. CASE Opened \/ Created
  BY <1>2, OpenedSnaps
<1>3. CASE CloseWriter \/ WriteTmp \/ Backup \/ Install \/ Reopen
  BY <1>3, CloseWriterSnaps, WriteTmpSnaps, BackupSnaps, InstallSnaps, ReopenSnaps
<1>4. CASE PublishStep \/ Discard \/ Complete \/ FlushStep \/ SubmitStep
  BY <1>4, PublishSnaps, DiscardSnaps, CompleteSnaps, FlushSnaps, SubmitSnaps
<1>5. CASE Give \/ Erase \/ DeleteClean \/ Removed \/ Trim
  BY <1>5, GiveSnaps, EraseSnaps, DeleteCleanSnaps, RemovedSnaps, TrimSnaps
<1>6. CASE RebuildIf \/ Zero \/ AbortEdit \/ Closed \/ Wipe
  BY <1>6, RebuildIfSnaps, ZeroSnaps, AbortSnaps, ClosedSnaps, WipeSnaps
<1>7. CASE Down
  BY <1>7, ShutSnaps
<1> QED
  BY <1>1, <1>2, <1>3, <1>4, <1>5, <1>6, <1>7 DEF Steps, OpenStep

\* As long as no I/O error occurs, this holds.
SnapInv == faults = 0 => Snaps

\* And every step of the specification keeps it.
LEMMA NextSnaps == ASSUME IInv, AgreeInv, IInv', SnapInv, [Next]_vars PROVE SnapInv'
<1> SUFFICES ASSUME faults' = 0 PROVE Snaps'
  BY DEF SnapInv
<1>1. Agreed /\ Snaps
  <2>1. faults' = faults
    BY NoFaultYet, FaultsCounted DEF FaultsMore
  <2>2. faults = 0
    BY <2>1
  <2> QED
    BY <2>2 DEF AgreeInv, SnapInv, Agreed
<1>2. CASE Call
  BY <1>1, <1>2, CallsSnaps
<1>3. CASE Steps
  BY <1>1, <1>3, StepsSnaps
<1>4. CASE cleanup
  BY <1>1, <1>4, ProgramSnaps
<1>5. CASE Crash
  BY <1>1, <1>5, ShutSnaps
<1>6. CASE UNCHANGED vars
  <2>1. disk' = disk /\ mem' = mem /\ todo' = todo /\ phase' = phase /\ snap' = snap /\ edits' = edits
    BY <1>6 DEF vars
  <2> QED
    BY <1>1, <2>1 DEF Snaps, Snapped
<1> QED
  BY <1>2, <1>3, <1>4, <1>5, <1>6 DEF Next

\* So a snapshot with the number of its entry has the values of the entry.
LEMMA SnapsFollow == IInv /\ SnapInv => OwnSnapshotCurrent
<1> DEFINE k == snap.key
<1> SUFFICES ASSUME IInv, SnapInv, snap # NoSnapshot, faults = 0, NEW i \in Idx, snap.value[i].by > mem.base,
                    phase = "up", todo = <<>>, mem.ent[k] # NoEntry, mem.ent[k].seq = snap.seq, Visible(k)
             PROVE  disk.clean[k] = snap.value
  BY DEF OwnSnapshotCurrent, SnapshotCurrent
<1>1. Taken(disk, mem, <<>>, snap)
  BY DEF SnapInv, Snaps, Snapped
<1>2. Own(snap.value[i], mem)
  BY <1>1 DEF Taken, Own
<1>3. Shows(mem, k)
  BY DEF Visible, VisibleIn, Shows
<1>4. ~Publishes(<<>>, k) /\ ~Deleting(<<>>, k) /\ ~Emptying(<<>>)
  BY DEF Publishes, Deleting, Emptying, At
<1> QED
  BY <1>1, <1>2, <1>3, <1>4 DEF Taken

(* As long as no I/O error occurs, a snapshot of an entry with a value that *)
(* this process has committed has the values of the entry while their      *)
(* sequence numbers are equal, through evictions, removals, later edits,   *)
(* and everything else that may be called meanwhile.                       *)
THEOREM OwnSnapshotsCurrent == Spec => []OwnSnapshotCurrent
<1>1. IInv /\ AgreeInv /\ SnapInv /\ [Next]_vars => IInv' /\ AgreeInv' /\ SnapInv'
  BY NextHolds, NextAgree, NextSnaps
<1>2. Init => IInv /\ AgreeInv /\ SnapInv
  BY InitHolds, InitAgree, InitSnaps DEF AgreeInv, Agreed, SnapInv
<1>3. IInv /\ SnapInv => OwnSnapshotCurrent
  BY SnapsFollow
<1> QED
  BY <1>1, <1>2, <1>3, PTL DEF Spec
=============================================================================
