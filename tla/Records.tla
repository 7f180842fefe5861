------------------------------ MODULE Records ------------------------------
(***************************************************************************)
(* What is written and read back: the operation recorder of bytehook       *)
(* (bh_recorder.c) with its date (bh_util_localtime_r), and the line       *)
(* reader of the disk cache's journal (StrictLineReader.java).             *)
(***************************************************************************)
EXTENDS Integers, Sequences, FiniteSets, FiniteSetsExt, SequencesExt

CONSTANTS MaxIdx,                   \* UINT16_MAX
          StrStep, StrMax,          \* BH_RECORDER_STRINGS_BUF_EXPAND_STEP, _MAX
          RecStep, RecMax,          \* BH_RECORDER_RECORDS_BUF_EXPAND_STEP, _MAX
          OutStep, OutMax,          \* BH_RECORDER_OUTPUT_BUF_EXPAND_STEP, _MAX
          HookSize, UnhookSize,     \* the sizes of the two kinds of records
          NameLen(_)                \* strlen

ASSUME RecordsAssumption ==
    /\ {MaxIdx, StrStep, StrMax, RecStep, RecMax, OutStep, OutMax} \subseteq Nat \ {0}
    /\ HookSize \in 1..RecStep /\ UnhookSize \in 1..RecStep

-----------------------------------------------------------------------------
(***************************************************************************)
(* The recorder.                                                           *)
(***************************************************************************)
EmptyBuf == [cap |-> 0, sz |-> 0, ok |-> TRUE]

\* bh_recorder_buf_append: it grows by one step, up to max.
BufAppend(buf, step, max, needs) ==
    LET grown == IF buf.cap - buf.sz < needs THEN buf.cap + step ELSE buf.cap
    IN IF needs > step \/ grown > max THEN [buf EXCEPT !.ok = FALSE]
       ELSE [cap |-> grown, sz |-> buf.sz + needs, ok |-> TRUE]

NoRecords == [strings |-> <<>>, strbuf |-> EmptyBuf, records |-> <<>>, recbuf |-> EmptyBuf,
              error |-> FALSE]

\* bh_recorder_add_str: [rec, idx, ok].  The index counts the strings before it.
AddStrWraps(rec, str) ==
    LET buf == BufAppend(rec.strbuf, StrStep, StrMax, NameLen(str) + 3)
        at == {i \in DOMAIN rec.strings : rec.strings[i] = str}
    IN IF at # {} THEN [rec |-> rec, idx |-> (Min(at) - 1) % MaxIdx, ok |-> TRUE]
       ELSE [rec |-> [rec EXCEPT !.strings = Append(@, str), !.strbuf = buf],
             idx |-> Len(rec.strings) % MaxIdx, ok |-> buf.ok]
AddStr(rec, str) ==
    LET at == {i \in DOMAIN rec.strings : rec.strings[i] = str /\ i <= MaxIdx}
        buf == BufAppend(rec.strbuf, StrStep, StrMax, NameLen(str) + 3)
    IN IF at # {} THEN [rec |-> rec, idx |-> Min(at) - 1, ok |-> TRUE]
       ELSE IF Len(rec.strings) >= MaxIdx \/ ~buf.ok THEN [rec |-> rec, idx |-> 0, ok |-> FALSE]
       ELSE [rec |-> [rec EXCEPT !.strings = Append(@, str), !.strbuf = buf],
             idx |-> Len(rec.strings), ok |-> TRUE]

\* Adds the strings in their order; stops at the first that fails.
AddStrs(rec, strs) ==
    FoldLeft(LAMBDA r, s : IF ~r.ok THEN r
                           ELSE LET a == AddStr(r.rec, s)
                                IN [rec |-> a.rec, ok |-> a.ok, idx |-> Append(r.idx, a.idx)],
             [rec |-> rec, ok |-> TRUE, idx |-> <<>>], strs)

\* bh_recorder_add_hook and bh_recorder_add_unhook for op = [op, strs, stub]: strs is
\* <<lib_name, sym_name, caller_lib_name>> or <<caller_lib_name>>.  After an error nothing
\* more is recorded.
AddOp(rec, op) ==
    LET a == AddStrs(rec, op.strs)
        size == IF op.op = "hook" THEN HookSize ELSE UnhookSize
        buf == BufAppend(a.rec.recbuf, RecStep, RecMax, size)
    IN IF rec.error THEN rec
       ELSE IF ~a.ok \/ ~buf.ok THEN [a.rec EXCEPT !.error = TRUE]
       ELSE [a.rec EXCEPT !.recbuf = buf,
                          !.records = Append(@, [op |-> op.op, idx |-> a.idx, stub |-> op.stub])]

\* bh_recorder_find_str
FindStr(rec, idx) == IF idx < Len(rec.strings) THEN rec.strings[idx + 1] ELSE "error"

\* One line of bh_recorder_output, with all items, and its length.
Line(rec, r) == [op |-> r.op, strs |-> [i \in DOMAIN r.idx |-> FindStr(rec, r.idx[i])],
                 stub |-> r.stub]
LineSize(l) == FoldLeft(LAMBDA n, s : n + NameLen(s) + 1, 2, l.strs)
ErrorLine == [op |-> "error", strs |-> <<>>, stub |-> 0]

\* bh_recorder_output into a string.  A line that does not fit ends the loop with the
\* buffer freed, but its size and capacity stay: what is appended after that and still
\* fits is written through a null pointer ("wild").
Output(rec) ==
    LET put(o, l) == LET buf == BufAppend(o.buf, OutStep, OutMax, LineSize(l))
                     IN IF o.freed THEN o
                        ELSE IF buf.ok THEN [o EXCEPT !.buf = buf, !.lines = Append(@, l)]
                        ELSE [o EXCEPT !.freed = TRUE]
        loop == FoldLeft(LAMBDA o, r : put(o, Line(rec, r)),
                         [buf |-> EmptyBuf, lines |-> <<>>, freed |-> FALSE], rec.records)
        told == IF rec.error THEN put(loop, ErrorLine) ELSE loop
        last == BufAppend(told.buf, OutStep, OutMax,
                          IF loop.freed /\ rec.error THEN LineSize(ErrorLine) ELSE 1)
    IN IF rec.records = <<>> THEN [kind |-> "none", lines |-> <<>>]
       ELSE IF loop.freed
            THEN [kind |-> IF last.ok THEN "wild" ELSE "none", lines |-> <<>>]
       ELSE IF told.freed \/ ~last.ok THEN [kind |-> "none", lines |-> <<>>]
       ELSE [kind |-> "text", lines |-> told.lines]

-----------------------------------------------------------------------------
(***************************************************************************)
(* bh_util_localtime_r: the date of a day and a second of it.              *)
(***************************************************************************)
SecsPerDay == 86400
CDiv(a, b) == IF a >= 0 THEN a \div b ELSE -((-a) \div b)
CMod(a, b) == a - b * CDiv(a, b)
Borrow(a, b) == IF CMod(a, b) < 0 THEN 1 ELSE 0
IsLeap(y) == y % 4 = 0 /\ (y % 100 # 0 \/ y % 400 = 0)
LeapsThruEndOf(y) == (CDiv(y, 4) - Borrow(y, 4)) - (CDiv(y, 100) - Borrow(y, 100))
                     + (CDiv(y, 400) - Borrow(y, 400))
MonYday(leap) == IF leap THEN <<0, 31, 60, 91, 121, 152, 182, 213, 244, 274, 305, 335, 366>>
                 ELSE <<0, 31, 59, 90, 120, 151, 181, 212, 243, 273, 304, 334, 365>>
YearLength(y) == IF IsLeap(y) THEN 366 ELSE 365

\* One round of the loop that guesses the year.
Guess(y, days) ==
    LET yg == y + CDiv(days, 365) - Borrow(days, 365)
    IN <<yg, days - ((yg - y) * 365 + LeapsThruEndOf(yg - 1) - LeapsThruEndOf(y - 1))>>

YearOf(days) ==
    LET round[k \in 0..4] ==
            IF k = 0 THEN <<1970, days>>
            ELSE LET r == round[k - 1]
                 IN IF r[2] < 0 \/ r[2] >= YearLength(r[1]) THEN Guess(r[1], r[2]) ELSE r
    IN round[4]

LocalTime(day, sec, gmtoff) ==
    LET rem == sec + gmtoff
        days == day + (rem \div SecsPerDay)     \* the two loops that carry
        in == rem % SecsPerDay
        year == YearOf(days)
        yday == MonYday(IsLeap(year[1]))
        mon == Max({m \in 1..12 : yday[m] <= year[2]})
    IN [year |-> year[1], mon |-> mon, mday |-> year[2] - yday[mon] + 1,
        hour |-> in \div 3600, min |-> (in % 3600) \div 60, sec |-> in % 60]

-----------------------------------------------------------------------------
(***************************************************************************)
(* StrictLineReader.  The stream is a sequence of chunks, what each        *)
(* in.read returns; a reader is [buf, chunks, torn], buf what is left of   *)
(* the buffer.                                                             *)
(***************************************************************************)
LfIn(s) == {i \in DOMAIN s : s[i] = "LF"}
StripCr(s) == IF s # <<>> /\ Last(s) = "CR" THEN Front(s) ELSE s

\* A line collected from several chunks: CR and LF may lie in different ones.
Collected(head, tail) == StripCr(head \o tail)

\* readLine: the line if LF is buffered, or else what is buffered and the chunks up to the
\* one with LF; the end of the stream before that leaves an unterminated line.
ReadLine(st) ==
    LET st1 == IF st.buf = <<>> /\ st.chunks # <<>>
               THEN [st EXCEPT !.buf = Head(st.chunks), !.chunks = Tail(st.chunks)] ELSE st
        with == {k \in DOMAIN st1.chunks : LfIn(st1.chunks[k]) # {}}
    IN IF st1.buf = <<>> THEN [st |-> st1, eof |-> TRUE, line |-> <<>>]
       ELSE IF LfIn(st1.buf) # {}
            THEN LET i == Min(LfIn(st1.buf))
                 IN [st |-> [st1 EXCEPT !.buf = SubSeq(@, i + 1, Len(@))], eof |-> FALSE,
                     line |-> StripCr(SubSeq(st1.buf, 1, i - 1))]
       ELSE IF with = {} THEN [st |-> [st1 EXCEPT !.torn = TRUE, !.chunks = <<>>], eof |-> TRUE,
                               line |-> <<>>]
       ELSE LET k == Min(with)
                c == st1.chunks[k]
                i == Min(LfIn(c))
            IN [st |-> [st1 EXCEPT !.buf = SubSeq(c, i + 1, Len(c)),
                                   !.chunks = SubSeq(@, k + 1, Len(@))], eof |-> FALSE,
                line |-> Collected(st1.buf \o FlattenSeq(SubSeq(st1.chunks, 1, k - 1)),
                                   SubSeq(c, 1, i - 1))]

\* The loop of DiskLruCache.readJournal over the reader: all lines, up to EOFException.
ReadAll(chunks) ==
    LET n == 1 + FoldLeft(LAMBDA a, c : a + Len(c), 0, chunks)
        after[k \in 0..n] ==
            IF k = 0 THEN [st |-> [buf |-> <<>>, chunks |-> chunks, torn |-> FALSE],
                           eof |-> FALSE, lines |-> <<>>]
            ELSE LET a == after[k - 1]
                     r == ReadLine(a.st)
                 IN IF a.eof THEN a
                    ELSE [st |-> r.st, eof |-> r.eof,
                          lines |-> IF r.eof THEN a.lines ELSE Append(a.lines, r.line)]
    IN [lines |-> after[n].lines, unterminated |-> after[n].st.torn]

=============================================================================
