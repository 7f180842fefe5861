----------------------------- MODULE DiskLruCache -----------------------------
(***************************************************************************)
(* core: com.zipper.android.core.cache.disk.lru.DiskLruCache, on a file    *)
(* system that outlives the process.                                       *)
(*                                                                         *)
(* All calls are synchronized on the cache, so one call at a time changes  *)
(* it; what is not atomic is a call and the end of the process.  A call is *)
(* therefore a program: the sequence todo of the steps it still has to do, *)
(* each of which touches the disk at most once.  A crash drops todo and    *)
(* everything in memory, an I/O error drops todo and leaves what was done  *)
(* so far (the exception leaves the call).                                 *)
(*                                                                         *)
(* A content is [by, len]: the edit that wrote it and its length.          *)
(***************************************************************************)
EXTENDS Integers, Sequences, SequencesExt, FiniteSetsExt, Functions

CONSTANTS Keys, valueCount, NoFile, NoDraft,
          NoEntry, NoEditor, NoSnapshot, \* null
          Lengths,      \* the lengths of the values that are written
          OpenLimit,    \* the maxSize of open
          Limits,       \* the values given to setMaxSize
          Versions,     \* the values of appVersion
          Faults,       \* the kinds of I/O error: "stream", "create", "delete",
                        \* "discard", "publish", "rename", "flush", "rebuild"
          Compact,      \* redundantOpCompactThreshold (2000 in the code)
          MaxEdits, MaxCrashes, MaxFaults, MaxLines, MaxPending \* bounds

ASSUME LimitAssumption ==
    /\ valueCount \in Nat \ {0}
    /\ OpenLimit \in Nat \ {0} /\ Limits \subseteq Nat \ {0} /\ Lengths \subseteq Nat

(* The value indexes of an entry.                                          *)
Idx == 0..(valueCount - 1)

Contents == [by : 1..MaxEdits, len : Lengths]
Values == [Idx -> Contents \cup {NoFile}]

(* An entry and its editor; a line and the journal file it is in.          *)
Editors == [id : Nat, written : SUBSET Idx, hasErrors : BOOLEAN, held : BOOLEAN, wrote : Values]
Entries == [readable : BOOLEAN, len : [Idx -> Nat], seq : Nat, editor : Editors \cup {NoEditor}]
Lines == [state : {"CLEAN"}, key : Keys, len : [Idx -> Nat]]
           \cup [state : {"DIRTY", "REMOVE", "READ"}, key : Keys, len : {<<>>}]
Journals == [version : Versions, lines : Seq(Lines), torn : BOOLEAN]
Snapshots == [key : Keys, seq : Nat, value : Values]

(* A null is none of the values it stands for.                             *)
ASSUME NullAssumption ==
    /\ NoFile \notin Contents /\ NoFile \notin Journals /\ NoDraft \notin Values
    /\ NoEntry \notin Entries /\ NoEditor \notin Editors /\ NoSnapshot \notin Snapshots

ASSUME BoundAssumption == {MaxEdits, MaxCrashes, MaxFaults, MaxLines, MaxPending, Compact} \subseteq Nat

VARIABLES
  disk,     \* [journal, tmp, backup, clean, dirty]: the directory
  mem,      \* the fields of the DiskLruCache object
  todo,     \* the rest of the call in progress
  phase,    \* "down" (no object), "opening", "up"
  pending,  \* cleanupCallables in the executor's queue
  erased,   \* keys a failed commit has still to remove
  snap,     \* a snapshot a client holds
  seen,     \* history: what clients see, as of the last time no call ran
  leaky,    \* history: the directory was being emptied, and has not been since
  edits, crashes, faults \* counted for the bounds

vars == <<disk, mem, todo, phase, pending, erased, snap, seen, leaky, edits, crashes, faults>>

Blank(v) == [k \in Keys |-> [i \in Idx |-> v]]

EmptyDisk == [journal |-> NoFile, tmp |-> NoFile, backup |-> NoFile,
              clean |-> Blank(NoFile), dirty |-> Blank(NoFile)]

(* A DiskLruCache as its constructor leaves it.  lru lists the keys of     *)
(* lruEntries, least recently used first; out is what journalWriter holds  *)
(* back; a writer is "broken" when it was closed and not replaced; base    *)
(* counts the edits of earlier processes (history).                        *)
NewCache(v, m, b) ==
    [base |-> b, lru |-> <<>>, ent |-> [k \in Keys |-> NoEntry], size |-> 0, maxSize |-> m,
     redundant |-> 0, nextSeq |-> 0, writer |-> "none", out |-> <<>>, version |-> v]

Entry == [readable |-> FALSE, len |-> [i \in Idx |-> 0], seq |-> 0, editor |-> NoEditor]

NewEditor(id) == [id |-> id, written |-> {}, hasErrors |-> FALSE, held |-> FALSE,
                  wrote |-> [i \in Idx |-> NoFile]]

Line(state, k) == [state |-> state, key |-> k, len |-> <<>>]
CleanLine(k, e) == [state |-> "CLEAN", key |-> k, len |-> e.len]

(* LinkedHashMap in access order: a lookup moves the key to the end.       *)
TouchTwice(lru, k) == IF k \in ToSet(lru) THEN Append(lru, k) ELSE lru
Without(lru, k) == RemoveFirst(lru, k)
Touch(lru, k) == IF k \in ToSet(lru) THEN Append(Without(lru, k), k) ELSE lru

Total(e) == SumFunction(e.len)
Editing(k) == mem.ent[k] # NoEntry /\ mem.ent[k].editor # NoEditor

journalRebuildRequired(m) == m.redundant >= Compact /\ m.redundant >= Len(m.lru)

(* When completeEdit submits a cleanup.                                    *)
CleanupRequired(m) == m.size > m.maxSize \/ journalRebuildRequired(m)

(* The length of a value, and the size of the cache, after it has changed. *)
ResizedUp(m, k, i, n) == [m EXCEPT !.size = @ + n, !.ent[k].len[i] = n]
Resized(m, k, i, n) == [m EXCEPT !.size = @ - m.ent[k].len[i] + n, !.ent[k].len[i] = n]

(* A commit gives the entry the next sequence number.                      *)
NumberedStill(m, k) == [m EXCEPT !.ent[k].seq = m.nextSeq]
Numbered(m, k) == [m EXCEPT !.ent[k].seq = m.nextSeq, !.nextSeq = @ + 1]

(* Programs: a step is a record with the name of what it does, and for     *)
(* some the key, the index or the outcome it is about.                     *)
Do(op) == <<[do |-> op]>>
DoKey(op, k) == <<[do |-> op, key |-> k]>>
DoKeys(op, ks) == [n \in DOMAIN ks |-> [do |-> op, key |-> ks[n]]]
PerIndex(op, k) == [n \in 1..valueCount |-> [do |-> op, key |-> k, idx |-> n - 1]]

RemoveProgram(k) == PerIndex("deleteClean", k) \o DoKey("removed", k)
RebuildProgram == Do("closeWriter") \o Do("writeTmp") \o Do("backup") \o Do("install") \o Do("reopen")
EditUnflushed(k) == DoKey("give", k)
EditProgram(k) == Do("flush") \o DoKey("give", k)
CompleteJournalFirst(k, ok) ==
    <<[do |-> "complete", key |-> k, ok |-> ok]>> \o Do("flush")
      \o PerIndex(IF ok THEN "publish" ELSE "discard", k) \o Do("submit")
CompleteProgram(k, ok) ==
    PerIndex(IF ok THEN "publish" ELSE "discard", k)
      \o <<[do |-> "complete", key |-> k, ok |-> ok]>> \o Do("flush") \o Do("submit")
CloseProgram == DoKeys("abort", mem.lru) \o Do("trim") \o Do("closeWriter") \o Do("closed")

Step(op) == todo # <<>> /\ Head(todo).do = op
Continue(rest) == todo' = rest \o Tail(todo)
Idle == phase = "up" /\ todo = <<>>

(* An exception leaves the call.  open catches it while it reads the       *)
(* journal, deletes what is there and starts again with an empty cache; an *)
(* open that fails, or a delete that fails after close, leaves no cache.   *)
Throw ==
    LET caught == phase = "opening" /\ \E n \in DOMAIN todo : todo[n].do = "opened"
    IN  /\ todo' = IF caught
                   THEN (IF mem.writer = "none" THEN <<>> ELSE CloseProgram) \o Do("wipe") \o Do("fresh")
                   ELSE <<>>
        /\ leaky' = (leaky \/ caught)
        /\ phase' = IF ~caught /\ (phase = "opening" \/ mem.writer = "none") THEN "down" ELSE phase

(* Every step that does I/O may fail while the bound allows it.            *)
Fault(kind) == kind \in Faults /\ faults < MaxFaults /\ faults' = faults + 1
NoFault == UNCHANGED faults
Done == NoFault /\ UNCHANGED <<phase, leaky>>
------------------------------------------------------------------------------
(* What a client sees of an entry: get returns its values if the entry is  *)
(* readable and all its files are there.                                   *)
VisibleIn(d, m, k) == /\ m.ent[k] # NoEntry
                      /\ m.ent[k].readable
                      /\ \A i \in Idx : d.clean[k][i] # NoFile
Visible(k) == VisibleIn(disk, mem, k)

ViewOf(d, m, old) ==
    [value |-> [k \in Keys |-> [i \in Idx |->
                  IF d.clean[k][i] # NoFile THEN d.clean[k][i] ELSE old[k][i]]],
     shown |-> [k \in Keys |-> VisibleIn(d, m, k)],
     draft |-> [k \in Keys |->
                  IF /\ m.ent[k] # NoEntry /\ m.ent[k].editor # NoEditor
                     /\ m.ent[k].editor.held
                  THEN m.ent[k].editor.wrote ELSE NoDraft]]

(* Reading a journal line by line: readJournalLine.                        *)
Replay(m, l) ==
    LET e == IF m.ent[l.key] = NoEntry THEN Entry ELSE m.ent[l.key]
        n == CASE l.state = "CLEAN" -> [e EXCEPT !.readable = TRUE, !.editor = NoEditor, !.len = l.len]
               [] l.state = "DIRTY" -> [e EXCEPT !.editor = NewEditor(0)]
               [] OTHER -> e
    IN  IF l.state = "REMOVE"
        THEN [m EXCEPT !.lru = Without(@, l.key), !.ent[l.key] = NoEntry]
        ELSE [m EXCEPT !.lru = Append(Without(@, l.key), l.key), !.ent[l.key] = n]

ReadJournal(m, lines) ==
    LET r == FoldLeft(Replay, m, lines)
    IN  [r EXCEPT !.redundant = Len(lines) - Len(r.lru)]

(* The lines of a rebuilt journal: one for each entry.                     *)
CompactedClean == [n \in DOMAIN mem.lru |-> CleanLine(mem.lru[n], mem.ent[mem.lru[n]])]
Compacted == [n \in DOMAIN mem.lru |->
                LET k == mem.lru[n] IN
                IF Editing(k) THEN Line("DIRTY", k) ELSE CleanLine(k, mem.ent[k])]
------------------------------------------------------------------------------
Init ==
    /\ disk = EmptyDisk
    /\ \E v \in Versions : mem = NewCache(v, OpenLimit, 0)
    /\ todo = <<>> /\ phase = "down" /\ pending = 0 /\ erased = {}
    /\ snap = NoSnapshot /\ leaky = FALSE
    /\ seen = [value |-> Blank(NoFile), shown |-> [k \in Keys |-> FALSE],
               draft |-> [k \in Keys |-> NoDraft]]
    /\ edits = 0 /\ crashes = 0 /\ faults = 0

(* Part of every action: what clients see when no call is in progress.     *)
Observe == seen' = IF phase' = "up" /\ todo' = <<>> THEN ViewOf(disk', mem', seen.value) ELSE seen

(* A step of a call in progress, in the order of a call's life.            *)
Inside == UNCHANGED <<erased, snap, edits, crashes>>
Quiet == Inside /\ UNCHANGED <<phase, pending, leaky>> /\ NoFault

Submit(yes) == pending' = IF yes /\ pending < MaxPending THEN pending + 1 ELSE pending

\* open: a backup without a journal is the journal
UseBackup ==
    /\ Step("useBackup") /\ Inside /\ UNCHANGED <<mem, pending>>
    /\ \/ /\ disk' = IF disk.backup = NoFile THEN disk
                     ELSE [disk EXCEPT !.backup = NoFile,
                             !.journal = IF @ = NoFile THEN disk.backup ELSE @]
          /\ Continue(<<>>) /\ Done
       \/ /\ disk.backup # NoFile /\ disk.journal = NoFile
          /\ Fault("rename") /\ Throw /\ UNCHANGED disk
    /\ Observe

\* open, readJournal
Load ==
    /\ Step("load") /\ Quiet /\ UNCHANGED disk
    /\ IF disk.journal = NoFile
       THEN mem' = mem /\ Continue(Do("fresh"))
       ELSE IF disk.journal.version # mem.version
            THEN mem' = mem /\ Continue(Do("wipe") \o Do("fresh"))
            ELSE /\ mem' = ReadJournal(mem, disk.journal.lines)
                 /\ Continue((IF disk.journal.torn THEN RebuildProgram ELSE Do("reopen"))
                             \o Do("process") \o Do("opened"))
    /\ Observe

\* processJournal, an entry at a time
Process ==
    /\ Step("process") /\ Inside /\ UNCHANGED <<mem, pending>>
    /\ \/ /\ disk' = [disk EXCEPT !.tmp = NoFile]
          /\ Continue(DoKeys("collect", mem.lru))
          /\ Done
       \/ disk.tmp # NoFile /\ Fault("delete") /\ Throw /\ UNCHANGED disk
    /\ Observe

Collect ==
    /\ Step("collect") /\ Quiet /\ UNCHANGED disk
    /\ LET k == Head(todo).key IN
       IF Editing(k)
       THEN /\ mem' = [mem EXCEPT !.ent[k].editor = NoEditor]
            /\ Continue(PerIndex("unlink", k) \o DoKey("dropEntry", k))
       ELSE /\ mem' = [mem EXCEPT !.size = @ + Total(mem.ent[k])]
            /\ Continue(<<>>)
    /\ Observe

Unlink ==
    /\ Step("unlink") /\ Inside /\ UNCHANGED <<mem, pending>>
    /\ LET k == Head(todo).key  i == Head(todo).idx IN
       \/ /\ disk' = [disk EXCEPT !.clean[k][i] = NoFile, !.dirty[k][i] = NoFile]
          /\ Continue(<<>>) /\ Done
       \/ /\ disk.clean[k][i] # NoFile \/ disk.dirty[k][i] # NoFile
          /\ Fault("delete") /\ Throw /\ UNCHANGED disk
    /\ Observe

DropEntry ==
    /\ Step("dropEntry") /\ Quiet /\ UNCHANGED disk
    /\ LET k == Head(todo).key IN
       mem' = [mem EXCEPT !.lru = Without(@, k), !.ent[k] = NoEntry]
    /\ Continue(<<>>)
    /\ Observe

Opened ==
    /\ Step("opened") /\ Inside /\ UNCHANGED <<disk, mem, pending, leaky>> /\ NoFault
    /\ phase' = "up" /\ Continue(<<>>)
    /\ Observe

Fresh ==
    /\ Step("fresh") /\ Quiet /\ UNCHANGED disk
    /\ mem' = NewCache(mem.version, mem.maxSize, mem.base)
    /\ Continue(RebuildProgram \o Do("created"))
    /\ Observe

Created ==
    /\ Step("created") /\ Inside /\ UNCHANGED <<disk, mem, pending, leaky>> /\ NoFault
    /\ phase' = "up" /\ Continue(<<>>)
    /\ Observe
------------------------------------------------------------------------------
\* rebuildJournal
CloseWriter ==
    /\ Step("closeWriter") /\ Inside /\ UNCHANGED pending
    /\ mem' = [mem EXCEPT !.out = <<>>, !.writer = IF @ = "none" THEN @ ELSE "broken"]
    /\ \/ /\ disk' = IF mem.writer # "open" THEN disk
                     ELSE [disk EXCEPT !.journal.lines = @ \o mem.out]
          /\ Continue(<<>>) /\ Done
       \/ /\ mem.writer = "open" /\ mem.out # <<>>
          /\ Fault("flush") /\ Throw /\ UNCHANGED disk
    /\ Observe

WriteTmp ==
    /\ Step("writeTmp") /\ Inside /\ UNCHANGED <<mem, pending>>
    /\ \/ /\ disk' = [disk EXCEPT !.tmp = [version |-> mem.version, lines |-> Compacted, torn |-> FALSE]]
          /\ Continue(<<>>) /\ Done
       \/ Fault("rebuild") /\ Throw /\ UNCHANGED disk
    /\ Observe

JournalDropped(d) == [d EXCEPT !.journal = NoFile]
JournalKept(d) == [d EXCEPT !.backup = d.journal, !.journal = NoFile]

Backup ==
    /\ Step("backup") /\ Inside /\ UNCHANGED <<mem, pending>>
    /\ \/ /\ disk' = IF disk.journal = NoFile THEN disk ELSE JournalKept(disk)
          /\ Continue(<<>>) /\ Done
       \/ disk.journal # NoFile /\ Fault("rename") /\ Throw /\ UNCHANGED disk
    /\ Observe

Install ==
    /\ Step("install") /\ Inside /\ UNCHANGED <<mem, pending>>
    /\ \/ /\ disk' = [disk EXCEPT !.journal = disk.tmp, !.tmp = NoFile]
          /\ Continue(<<>>) /\ Done
       \/ Fault("rename") /\ Throw /\ UNCHANGED disk
    /\ Observe

Reopen ==
    /\ Step("reopen") /\ Quiet /\ Continue(<<>>)
    /\ disk' = [disk EXCEPT !.backup = NoFile]
    /\ mem' = [mem EXCEPT !.writer = "open", !.out = <<>>]
    /\ Observe
------------------------------------------------------------------------------
\* completeEdit
PublishStep ==
    /\ Step("publish") /\ Inside /\ UNCHANGED <<phase, pending, leaky>> /\ Continue(<<>>)
    /\ LET k == Head(todo).key  i == Head(todo).idx
           length(f) == IF f = NoFile THEN 0 ELSE f.len
           Resize(f) == mem' = Resized(mem, k, i, length(f))
       IN  \/ /\ disk.dirty[k][i] = NoFile
              /\ UNCHANGED <<disk, mem>> /\ NoFault
           \/ /\ disk.dirty[k][i] # NoFile
              /\ disk' = [disk EXCEPT !.clean[k][i] = disk.dirty[k][i], !.dirty[k][i] = NoFile]
              /\ Resize(disk.dirty[k][i]) /\ NoFault
           \/ /\ disk.dirty[k][i] # NoFile   \* the result of renameTo is not looked at
              /\ Resize(disk.clean[k][i])
              /\ Fault("publish") /\ UNCHANGED disk
    /\ Observe

Discard ==
    /\ Step("discard") /\ Inside /\ UNCHANGED <<mem, pending>>
    /\ LET k == Head(todo).key  i == Head(todo).idx IN
       \/ /\ disk' = [disk EXCEPT !.dirty[k][i] = NoFile]
          /\ Continue(<<>>) /\ Done
       \/ disk.dirty[k][i] # NoFile /\ Fault("discard") /\ Throw /\ UNCHANGED disk
    /\ Observe

Complete ==
    /\ Step("complete") /\ Inside /\ UNCHANGED <<disk, pending>> /\ NoFault
    /\ LET k == Head(todo).key
           ok == Head(todo).ok
           stays == mem.ent[k].readable \/ ok
           m == [mem EXCEPT !.redundant = @ + 1,
                   !.lru = IF stays THEN @ ELSE Without(@, k),
                   !.ent[k] = IF stays THEN [@ EXCEPT !.editor = NoEditor, !.readable = TRUE]
                                       ELSE NoEntry]
       IN  \/ /\ mem.writer = "open"
              /\ LET n == IF ok THEN Numbered(m, k) ELSE m
                     l == IF stays THEN CleanLine(k, m.ent[k]) ELSE Line("REMOVE", k)
                 IN  mem' = [n EXCEPT !.out = Append(@, l)]
              /\ Continue(<<>>) /\ Done
           \/ mem.writer # "open" /\ mem' = m /\ Throw
    /\ Observe

FlushStep ==
    /\ Step("flush") /\ Inside /\ UNCHANGED pending
    /\ \/ /\ mem.writer = "open"
          /\ disk' = [disk EXCEPT !.journal.lines = @ \o mem.out]
          /\ mem' = [mem EXCEPT !.out = <<>>]
          /\ Continue(<<>>) /\ Done
       \/ mem.writer # "open" /\ Throw /\ NoFault /\ UNCHANGED <<disk, mem>>
       \/ /\ mem.writer = "open" /\ mem.out # <<>>
          /\ \E o \in {mem.out, <<>>} : mem' = [mem EXCEPT !.out = o]
          /\ Fault("flush") /\ Throw /\ UNCHANGED disk
    /\ Observe

SubmitStep ==
    /\ Step("submit") /\ Inside /\ UNCHANGED <<disk, mem, phase, leaky>> /\ NoFault
    /\ Submit(CleanupRequired(mem))
    /\ Continue(<<>>)
    /\ Observe
------------------------------------------------------------------------------
\* remove
RemoveBegin(k) ==
    /\ mem' = [mem EXCEPT !.lru = Touch(@, k)]
    /\ todo' = (IF mem.ent[k] = NoEntry \/ Editing(k) THEN <<>> ELSE RemoveProgram(k)) \o todo

DeleteClean ==
    /\ Step("deleteClean") /\ Inside /\ UNCHANGED pending
    /\ LET k == Head(todo).key  i == Head(todo).idx IN
       \/ /\ disk' = [disk EXCEPT !.clean[k][i] = NoFile]
          /\ mem' = Resized(mem, k, i, 0)
          /\ Continue(<<>>) /\ Done
       \/ disk.clean[k][i] # NoFile /\ Fault("delete") /\ Throw /\ UNCHANGED <<disk, mem>>
    /\ Observe

Removed ==
    /\ Step("removed") /\ Inside /\ UNCHANGED disk /\ NoFault
    /\ LET k == Head(todo).key
           m == [mem EXCEPT !.redundant = @ + 1]
           n == [m EXCEPT !.out = Append(@, Line("REMOVE", k)),
                          !.lru = Without(@, k), !.ent[k] = NoEntry]
       IN  \/ /\ mem.writer = "open"
              /\ mem' = n /\ Submit(journalRebuildRequired(n))
              /\ Continue(<<>>) /\ Done
           \/ mem.writer # "open" /\ mem' = m /\ Throw /\ UNCHANGED pending
    /\ Observe

\* trimToSize: remove the least recently used entry until the limit is met.
\* An entry that is being edited is not removed, but looking it up has moved
\* it to the end.
Trim ==
    /\ Step("trim") /\ Inside /\ UNCHANGED <<disk, pending>> /\ NoFault
    /\ IF mem.size <= mem.maxSize
       THEN Continue(<<>>) /\ Done /\ UNCHANGED mem
       ELSE IF mem.lru = <<>> THEN Throw /\ UNCHANGED mem
       ELSE RemoveBegin(Head(mem.lru)) /\ Done
    /\ Observe

\* cleanupCallable
RebuildIf ==
    /\ Step("rebuildIf") /\ Quiet /\ UNCHANGED <<disk, mem>>
    /\ Continue(IF journalRebuildRequired(mem) THEN RebuildProgram \o Do("zero") ELSE <<>>)
    /\ Observe

Zero ==
    /\ Step("zero") /\ Quiet /\ UNCHANGED disk /\ Continue(<<>>)
    /\ mem' = [mem EXCEPT !.redundant = 0]
    /\ Observe

\* close, delete
AbortEdit ==
    /\ Step("abort") /\ Quiet /\ UNCHANGED <<disk, mem>>
    /\ LET k == Head(todo).key IN Continue(IF Editing(k) THEN CompleteProgram(k, FALSE) ELSE <<>>)
    /\ Observe

Closed ==
    /\ Step("closed") /\ Inside /\ UNCHANGED <<disk, phase, leaky>> /\ NoFault /\ Continue(<<>>)
    /\ mem' = [mem EXCEPT !.writer = "none"] /\ pending' = 0
    /\ Observe

(* The files of the directory that are not the cache's journals.           *)
ValueFiles(d) == {x \in Keys \X Idx : d.clean[x[1]][x[2]] # NoFile \/ d.dirty[x[1]][x[2]] # NoFile}
JournalFiles(d) == {f \in {"journal", "tmp", "backup"} : d[f] # NoFile}

\* Util.deleteContents, in the order of the directory, which is any order
Wipe ==
    /\ Step("wipe") /\ Inside /\ UNCHANGED <<mem, pending>>
    /\ \/ /\ ValueFiles(disk) \cup JournalFiles(disk) = {}
          /\ leaky' = FALSE /\ Continue(<<>>) /\ NoFault /\ UNCHANGED <<disk, phase>>
       \/ /\ \/ \E x \in ValueFiles(disk) :
                   disk' = [disk EXCEPT !.clean[x[1]][x[2]] = NoFile, !.dirty[x[1]][x[2]] = NoFile]
             \/ \E f \in JournalFiles(disk) : disk' = [disk EXCEPT ![f] = NoFile]
          /\ leaky' = TRUE /\ NoFault /\ UNCHANGED <<todo, phase>>
       \/ /\ ValueFiles(disk) \cup JournalFiles(disk) # {}
          /\ Fault("delete") /\ Throw /\ UNCHANGED disk
    /\ Observe

Down ==
    /\ Step("down") /\ UNCHANGED <<disk, mem, pending, leaky, edits, crashes>> /\ NoFault
    /\ phase' = "down" /\ erased' = {} /\ snap' = NoSnapshot
    /\ Continue(<<>>)
    /\ Observe
------------------------------------------------------------------------------
(* The calls.  A call begins when no other is in progress.                 *)
Calling == UNCHANGED <<leaky, crashes>> /\ NoFault

(* The bound: lines of the journal and operations counted.                 *)
Room == /\ mem.redundant <= MaxLines
        /\ IF disk.journal = NoFile THEN TRUE
           ELSE Len(disk.journal.lines) + Len(mem.out) < MaxLines

open(v, m) ==
    /\ phase = "down" /\ phase' = "opening"
    /\ mem' = NewCache(v, m, edits)
    /\ todo' = Do("useBackup") \o Do("load")
    /\ pending' = 0 /\ erased' = {} /\ snap' = NoSnapshot
    /\ Calling /\ UNCHANGED <<disk, edits>>
    /\ Observe

get(k) ==
    /\ Idle /\ Room /\ Calling /\ UNCHANGED <<disk, phase, erased, edits>>
    /\ LET m == [mem EXCEPT !.lru = Touch(@, k)]
           n == [m EXCEPT !.redundant = @ + 1]
           o == [n EXCEPT !.out = Append(@, Line("READ", k))]
       IN  IF ~Visible(k) THEN mem' = m /\ UNCHANGED <<todo, pending, snap>>
           ELSE \/ /\ mem.writer = "open" /\ mem' = o
                   /\ Submit(journalRebuildRequired(o)) /\ UNCHANGED todo
                   /\ snap' = [key |-> k, seq |-> mem.ent[k].seq, value |-> disk.clean[k]]
                \/ mem.writer # "open" /\ mem' = n /\ UNCHANGED <<todo, pending, snap>>
    /\ Observe

(* expected is a set: all numbers for ANY_SEQUENCE_NUMBER.                 *)
edit(k, expected) ==
    /\ Idle /\ Room /\ edits < MaxEdits
    /\ Calling /\ UNCHANGED <<disk, phase, erased, pending, snap>>
    /\ LET m == [mem EXCEPT !.lru = Touch(@, k)]
           e == IF mem.ent[k] = NoEntry THEN Entry ELSE mem.ent[k]
           n == [m EXCEPT !.lru = IF mem.ent[k] = NoEntry THEN Append(@, k) ELSE @,
                          !.ent[k] = [e EXCEPT !.editor = NewEditor(edits + 1)]]
       IN  IF \/ expected # {} /\ (mem.ent[k] = NoEntry \/ e.seq \notin expected)
              \/ Editing(k)
           THEN mem' = m /\ UNCHANGED <<todo, edits>>
           ELSE /\ edits' = edits + 1
                /\ \/ /\ mem.writer = "open"
                      /\ mem' = [n EXCEPT !.out = Append(@, Line("DIRTY", k))]
                      /\ todo' = EditProgram(k)
                   \/ mem.writer # "open" /\ mem' = n /\ UNCHANGED todo
    /\ Observe

\* the caller of edit gets the editor
Give ==
    /\ Step("give") /\ Quiet /\ UNCHANGED disk /\ Continue(<<>>)
    /\ mem' = [mem EXCEPT !.ent[Head(todo).key].editor.held = TRUE]
    /\ Observe

SnapshotEdit == snap # NoSnapshot /\ edit(snap.key, {snap.seq})

remove(k) ==
    /\ Idle /\ Room /\ Calling /\ UNCHANGED <<disk, phase, pending, erased, snap, edits>>
    /\ RemoveBegin(k)
    /\ Observe

setMaxSize(m) ==
    /\ Idle /\ m # mem.maxSize
    /\ mem' = [mem EXCEPT !.maxSize = m] /\ Submit(TRUE)
    /\ Calling /\ UNCHANGED <<disk, todo, phase, erased, snap, edits>>
    /\ Observe

Program(p) == /\ Idle /\ todo' = p /\ Calling /\ UNCHANGED <<disk, mem, phase, snap, edits>>
              /\ Observe

flush == Program(Do("trim") \o Do("flush")) /\ UNCHANGED <<pending, erased>>
close == Program(CloseProgram \o Do("down")) /\ UNCHANGED <<pending, erased>>
delete == Program(CloseProgram \o Do("wipe") \o Do("down")) /\ UNCHANGED <<pending, erased>>

cleanup == /\ pending > 0 /\ pending' = pending - 1 /\ UNCHANGED erased
           /\ Program(Do("trim") \o Do("rebuildIf"))

(* The editor of an entry, held by a client that matches its edit by one   *)
(* call of commit or abort.                                                *)
Held(k) == Idle /\ Editing(k) /\ mem.ent[k].editor.held
LetGo(k) == mem' = [mem EXCEPT !.ent[k].editor.held = FALSE]

\* newOutputStream, set: the value goes to the dirty file; a write error is
\* hidden from the client and remembered, a file that cannot be created
\* swallows the value
set(k, i, l) ==
    /\ Held(k) /\ UNCHANGED <<leaky, crashes, todo, phase, pending, erased, snap, edits>>
    /\ LET ed == mem.ent[k].editor
           c == [by |-> ed.id, len |-> l]
           w == IF mem.ent[k].readable THEN ed ELSE [ed EXCEPT !.written = @ \cup {i}]
           Put(e) == mem' = [mem EXCEPT !.ent[k].editor = e]
           File == disk' = [disk EXCEPT !.dirty[k][i] = c]
       IN  \/ Put([w EXCEPT !.wrote[i] = c]) /\ File /\ NoFault
           \/ Put([w EXCEPT !.wrote[i] = c, !.hasErrors = TRUE]) /\ File /\ Fault("stream")
           \/ disk.dirty[k][i] = NoFile /\ Put(w) /\ UNCHANGED disk /\ Fault("create")
    /\ Observe

commit(k) ==
    /\ Held(k) /\ LetGo(k) /\ Calling /\ UNCHANGED <<disk, phase, pending, erased, snap, edits>>
    /\ LET e == mem.ent[k]
           incomplete == ~e.readable /\ \E i \in Idx : i \notin e.editor.written \/ disk.dirty[k][i] = NoFile
       IN  todo' = IF e.editor.hasErrors THEN CompleteProgram(k, FALSE) \o DoKey("erase", k)
                   ELSE CompleteProgram(k, ~incomplete)
    /\ Observe

\* between the two synchronized halves of a failed commit
Erase ==
    /\ Step("erase") /\ UNCHANGED <<disk, mem, phase, pending, snap, leaky, edits, crashes>> /\ NoFault
    /\ erased' = erased \cup {Head(todo).key} /\ Continue(<<>>)
    /\ Observe

RemoveStale(k) ==
    /\ k \in erased /\ erased' = erased \ {k} /\ Idle
    /\ RemoveBegin(k) /\ Calling /\ UNCHANGED <<disk, phase, pending, snap, edits>>
    /\ Observe

abort(k) ==
    /\ Held(k) /\ LetGo(k) /\ Calling /\ UNCHANGED <<disk, phase, pending, erased, snap, edits>>
    /\ todo' = CompleteProgram(k, FALSE)
    /\ Observe

(* The process ends.  Of what the journal writer held back any part may    *)
(* have reached the file, the last line perhaps not as a whole.            *)
Crash ==
    /\ phase # "down" /\ crashes < MaxCrashes /\ crashes' = crashes + 1
    /\ \E n \in 0..Len(mem.out), t \in BOOLEAN :
         /\ t => n < Len(mem.out)
         /\ disk' = IF mem.writer = "open"
                    THEN [disk EXCEPT !.journal.torn = t, !.journal.lines = @ \o SubSeq(mem.out, 1, n)]
                    ELSE disk
    /\ mem' = NewCache(mem.version, mem.maxSize, mem.base)
    /\ todo' = <<>> /\ phase' = "down" /\ pending' = 0 /\ erased' = {} /\ snap' = NoSnapshot
    /\ UNCHANGED <<edits, leaky>> /\ NoFault
    /\ Observe
------------------------------------------------------------------------------
Call ==
    \/ \E v \in Versions : open(v, OpenLimit)
    \/ \E k \in Keys : \/ get(k) \/ edit(k, {}) \/ remove(k) \/ commit(k) \/ abort(k)
                       \/ RemoveStale(k)
                       \/ \E i \in Idx, l \in Lengths : set(k, i, l)
    \/ \E m \in Limits : setMaxSize(m)
    \/ SnapshotEdit \/ flush \/ close \/ delete

Steps ==
    \/ UseBackup \/ Load \/ Process \/ Collect \/ Unlink \/ DropEntry \/ Opened \/ Fresh \/ Created
    \/ CloseWriter \/ WriteTmp \/ Backup \/ Install \/ Reopen
    \/ PublishStep \/ Discard \/ Complete \/ FlushStep \/ SubmitStep \/ Give \/ Erase
    \/ DeleteClean \/ Removed \/ Trim \/ RebuildIf \/ Zero \/ AbortEdit \/ Closed \/ Wipe \/ Down

Next == Call \/ Steps \/ cleanup \/ Crash

(* The executor runs what is submitted to it, and a call in progress goes  *)
(* on: cleanups and steps are weakly fair.  Clients may stop calling.      *)
Spec == Init /\ [][Next]_vars /\ WF_vars(Steps) /\ WF_vars(cleanup)
------------------------------------------------------------------------------
(* Types of the fields, and no entry twice in the LRU list.                *)
TypeOK ==
    /\ \A f \in {"journal", "tmp", "backup"} : disk[f] = NoFile \/ disk[f].version \in Versions
    /\ ToSet(mem.lru) = {k \in Keys : mem.ent[k] # NoEntry}
    /\ Len(mem.lru) = Cardinality(ToSet(mem.lru))
    /\ mem.writer \in {"none", "open", "broken"}
    /\ mem.size \in Nat /\ mem.redundant \in Nat
    /\ phase \in {"down", "opening", "up"}
    /\ pending \in 0..MaxPending
    /\ phase = "down" => todo = <<>>

(* What the cache says it stores is what its entries say, whatever failed  *)
(* or crashed before: otherwise trimToSize evicts too much, or runs out of *)
(* entries (lruEntries.entrySet().iterator().next()).                      *)
SizeIsSum ==
    phase = "up" /\ todo = <<>> =>
      mem.size = MapThenSumSet(LAMBDA k : Total(mem.ent[k]), ToSet(mem.lru))

(* "Flush the journal before creating files to prevent file leaks": every  *)
(* value file belongs to an entry, with the length the entry accounts for, *)
(* and every dirty file to an edit.                                        *)
NoFileLeak ==
    phase = "up" /\ todo = <<>> /\ ~leaky =>
      \A k \in Keys, i \in Idx :
        /\ disk.clean[k][i] # NoFile =>
             mem.ent[k] # NoEntry /\ mem.ent[k].len[i] = disk.clean[k][i].len
        /\ disk.dirty[k][i] # NoFile => Editing(k)

(* The journal says of every entry what memory says: reading it back gives *)
(* the same edits in progress and the same lengths for the other entries;  *)
(* what memory does not have is not in the journal, or was dirty when the  *)
(* journal was last opened and is dirty there still.                       *)
JournalAgrees ==
    phase = "up" /\ todo = <<>> /\ faults = 0 =>
      LET r == FoldLeft(Replay, NewCache(mem.version, mem.maxSize, mem.base), disk.journal.lines \o mem.out)
      IN  \A k \in Keys :
            /\ mem.ent[k] = NoEntry => r.ent[k] = NoEntry \/ r.ent[k].editor # NoEditor
            /\ mem.ent[k] # NoEntry =>
                 /\ r.ent[k] # NoEntry
                 /\ (r.ent[k].editor = NoEditor) = ~Editing(k)
                 /\ ~Editing(k) => r.ent[k].readable /\ r.ent[k].len = mem.ent[k].len

(* A crash at this moment, in the middle of any call, does not cost an     *)
(* entry that is shown and that no edit, removal or eviction is about: the *)
(* journal, or its backup, still has it as published.                      *)
Durable ==
    phase = "up" /\ faults = 0 /\ ~leaky /\ (\A n \in DOMAIN todo : todo[n].do # "wipe") =>
      LET j == IF disk.journal = NoFile THEN disk.backup ELSE disk.journal
      IN  \A k \in Keys :
            seen.shown[k] /\ seen.draft[k] = NoDraft /\ Visible(k) /\ ~Editing(k) =>
              /\ j # NoFile
              /\ LET e == FoldLeft(Replay, NewCache(mem.version, mem.maxSize, mem.base), j.lines).ent[k]
                 IN  /\ e # NoEntry
                     /\ e.editor = NoEditor
                     /\ \A i \in Idx : e.len[i] = disk.clean[k][i].len

(* "the cache will remove entries in the background until the limit is     *)
(* satisfied": a scheduled eviction brings the cache back to its limit,    *)
(* unless it is closed or the process ends or an I/O error ends it.        *)
LimitRestored ==
    (phase = "up" /\ pending > 0 /\ mem.size > mem.maxSize)
      ~> (phase # "up" \/ mem.size <= mem.maxSize \/ faults > 0)

(* "a snapshot is stale if its sequence number is not equal to its entry's *)
(* sequence number": as long as they are equal, the entry has the values   *)
(* the snapshot was taken of.                                              *)
SnapshotCurrent ==
    snap # NoSnapshot /\ phase = "up" /\ todo = <<>> =>
      LET e == mem.ent[snap.key]
      IN  e # NoEntry /\ e.seq = snap.seq /\ Visible(snap.key) =>
            disk.clean[snap.key] = snap.value

(* The same for entries with a value that this process has committed.  (A  *)
(* snapshot of an entry read from the journal has number 0, and so has the *)
(* first commit.)                                                          *)
OwnSnapshotCurrent ==
    snap # NoSnapshot /\ faults = 0 /\ (\E i \in Idx : snap.value[i].by > mem.base) => SnapshotCurrent

Cache == INSTANCE CacheSpec WITH value <- seen.value, shown <- seen.shown, draft <- seen.draft

(* The cache is what CacheSpec promises: commits are atomic, nothing is    *)
(* altered or comes back, and a crash loses entries at worst.              *)
IsACache == Cache!CacheSpecification
==============================================================================
