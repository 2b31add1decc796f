------------------------ MODULE JournalStreamProofs --------------------------
(***************************************************************************)
(* The journal's lines, its readers and the pages that watch it, for any   *)
(* number of writers, threads, pages and faults.                           *)
(*                                                                         *)
(* Writers: the lock admits one, so the end it seeked to is still the end  *)
(* of the file when it writes, and a fragment there is its own.  Readers:  *)
(* the cache holds what its bytes say, and a splice can only stand in the  *)
(* line after the complete ones that the read began with.  Pages: what was *)
(* sent is as long as the offset, or the offset is back at the start.      *)
(* Order: the holder of the lock writes the event that was begun last.     *)
(***************************************************************************)
EXTENDS JournalStream, SequenceTheorems, TLAPS

Lines == Nat \X Nat

Sent == Nat \X Nat \X {"line", "nothing"}

\* like the file: as long as it at most, and each line ends as the file's does
Follows(file, lines) ==
    Len(lines) <= Len(file) /\ \A i \in 1..Len(lines) : lines[i][2] = file[i][2]

\* a frame that is no splice is dropped when the page has no schema for its event
TakenAs(frame, i) ==
    Whole(frame) => (frame[3] = "line" <=> i = 1 \/ frame[2] \notin Silent)

Pictures(file, frames) ==
    Follows(file, frames) /\ \A i \in 1..Len(frames) : TakenAs(frames[i], i)

\* lines read from len complete ones and then the rest: see ReadsAreTrue
SplicedAt(file, lines, len, frag) ==
    /\ len <= Len(lines) /\ Len(lines) <= Len(file)
    /\ \A i \in 1..Len(lines) :
          lines[i] = file[i] \/ (i = len + 1 /\ lines[i][1] = frag)

WriterInv ==
    /\ log \in Seq(Lines) /\ torn \in Nat /\ begun \in Nat
    /\ writer \in [Writers -> [pc : {"idle", "locked", "seeked"}, id : Nat, at : Nat]]
    /\ \A w, x \in Writers : writer[w].pc # "idle" /\ writer[x].pc # "idle" => w = x
    /\ \A w \in Writers : writer[w].pc = "seeked" =>
          writer[w].at = Len(log) /\ torn \in {None, writer[w].id}
    /\ LinesWhole

Reads == [pc : {"idle", "reading", "parsing", "returned"}, len : Nat, frag : Nat,
          snap : Seq(Lines), events : Seq(Lines)]

\* what a thread has read
ReadOK(file, t) ==
    /\ t.pc = "reading" => t.len <= Len(file)
    /\ t.pc = "parsing" => SplicedAt(file, t.snap, t.len, t.frag)
    /\ t.pc = "returned" => SplicedAt(file, t.events, t.len, t.frag)

ReaderInv ==
    /\ thread \in [Threads -> Reads]
    /\ cache.bytes \in Seq(Lines) /\ cache.events = cache.bytes
    /\ \A r \in Threads : ReadOK(log, thread[r])

EntryRecords == [id : Nat, prev : Nat]

Watches == [pc : {"away", "asking", "repaired", "entering", "writing", "recorded",
                  "tailing", "sent", "ended"},
            id : Nat, prev : Nat, offset : Nat, len : Nat, frag : Nat, shown : Seq(Sent)]

\* what a page has been shown
WatchOK(file, t) ==
    /\ Pictures(file, t.shown)
    /\ t.offset \in {0, Len(t.shown)}
    /\ t.pc = "tailing" => t.len <= Len(file)

PageInv ==
    /\ trail \in Seq(Seq(EntryRecords)) /\ visits \in Nat
    /\ scrap \in [id : Nat, prev : Nat, whole : BOOLEAN]
    /\ page \in [Pages -> Watches]
    /\ \A p \in Pages : WatchOK(log, page[p])

Inv == WriterInv /\ ReaderInv /\ PageInv

\* the last entry of the file
LastOf(lines) == IF lines = << >> THEN None ELSE Last(lines[Len(lines)]).id
Tip == LastOf(trail)

\* ChainNeverForks and Recorded, of the lines they are about
OneChain(lines) ==
    \A i \in DOMAIN lines :
        lines[i] # << >> /\ \A k \in DOMAIN lines[i] : lines[i][k].prev = Before(lines, i, k)
Holds(lines, id) == \E i \in DOMAIN lines : \E k \in DOMAIN lines[i] : lines[i][k].id = id

\* what a request will write follows the entry that it is written after
EntersOK(t) ==
    /\ t.pc = "entering" => t.prev = IF scrap = NoScrap THEN Tip ELSE scrap.id
    /\ t.pc = "writing" => t.prev = Tip
    /\ t.pc \in Serving => Recorded(t.id)

\* and one request at a time holds the lock; what a failed one has left follows the tip
TrailInv ==
    /\ ChainNeverForks
    /\ scrap # NoScrap => scrap.prev = Tip
    /\ \A p, q \in Pages : page[p].pc \in Entering /\ page[q].pc \in Entering => p = q
    /\ \A p \in Pages : EntersOK(page[p])

\* what a step may do to the lines of the file
LogGrew ==
    /\ log' \in Seq(Lines) /\ Len(log) <= Len(log')
    /\ \A i \in 1..Len(log) : log'[i] = log[i]

-----------------------------------------------------------------------------
\* Writing one element at the end of a sequence appends it.
LEMMA WriteAtEnd ==
    ASSUME NEW S, NEW s \in Seq(S), NEW e \in S
    PROVE  SubSeq(s, 1, Len(s)) \o <<e>> \o SubSeq(s, Len(s) + 2, Len(s)) = Append(s, e)
<1>1. SubSeq(s, 1, Len(s)) = s
  BY SubSeqFull
<1>2. Len(s) \in Nat
  BY LenProperties
<1>3. SubSeq(s, Len(s) + 2, Len(s)) = << >>
  BY <1>2, SubSeqEmpty
<1>4. s \o <<e>> = Append(s, e)
  BY AppendIsConcat
<1>5. Append(s, e) \o << >> = Append(s, e)
  BY AppendProperties, ConcatEmptySeq
<1>. QED  BY <1>1, <1>3, <1>4, <1>5

\* The lines after the first n.
LEMMA FromProperties ==
    ASSUME NEW S, NEW s \in Seq(S), NEW n \in 0..Len(s)
    PROVE  /\ From(s, n) \in Seq(S) /\ Len(From(s, n)) = Len(s) - n
           /\ \A i \in 1..Len(s) - n : From(s, n)[i] = s[n + i]
           /\ Prefix(s, n) \o From(s, n) = s
<1>1. Len(s) \in Nat /\ \A i \in n + 1..Len(s) : s[i] \in S
  BY ElementOfSeq, LenProperties
<1>2. /\ SubSeq(s, n + 1, Len(s)) \in Seq(S)
      /\ Len(SubSeq(s, n + 1, Len(s))) = IF n + 1 <= Len(s) THEN Len(s) - (n + 1) + 1 ELSE 0
      /\ \A i \in 1..Len(s) - (n + 1) + 1 : SubSeq(s, n + 1, Len(s))[i] = s[n + 1 + i - 1]
  BY <1>1, SubSeqProperties
<1>3. SubSeq(s, 1, n) \o SubSeq(s, n + 1, Len(s)) = SubSeq(s, 1, Len(s))
  <2>1. 1 \in 1..Len(s) + 1 /\ n \in 1 - 1..Len(s) /\ Len(s) \in n..Len(s)
    BY <1>1
  <2>. QED  BY <2>1, ConcatAdjacentSubSeq
<1>4. SubSeq(s, 1, Len(s)) = s
  BY SubSeqFull
<1>5. ASSUME NEW i \in 1..Len(s) - n
      PROVE  SubSeq(s, n + 1, Len(s))[i] = s[n + i]
  <2>1. i \in 1..Len(s) - (n + 1) + 1 /\ n + 1 + i - 1 = n + i
    BY <1>1
  <2>. QED  BY <1>2, <2>1
<1>6. Len(SubSeq(s, n + 1, Len(s))) = Len(s) - n
  BY <1>1, <1>2
<1>. QED  BY <1>2, <1>3, <1>4, <1>5, <1>6 DEF From, Prefix

\* A read by two calls is as long as the file, ends its lines as the file does, and is
\* a splice in one place at most (read_events, tail_events).
LEMMA ReadProperties ==
    ASSUME log \in Seq(Lines), NEW len \in 0..Len(log), NEW frag \in Nat
    PROVE  /\ Read(len, frag) \in Seq(Lines) /\ Len(Read(len, frag)) = Len(log)
           /\ Follows(log, Read(len, frag)) /\ SplicedAt(log, Read(len, frag), len, frag)
<1>1. Len(log) \in Nat
  BY LenProperties
<1>2. CASE frag = None \/ Len(log) = len \/ log[len + 1][1] = frag
  BY <1>1, <1>2 DEF Read, Follows, SplicedAt
<1>3. CASE ~(frag = None \/ Len(log) = len \/ log[len + 1][1] = frag)
  <2>1. len + 1 \in 1..Len(log)
    BY <1>1, <1>3
  <2>. DEFINE e == <<frag, log[len + 1][2]>>
  <2>2. log[len + 1] \in Lines
    BY <2>1, ElementOfSeq
  <2>3. e \in Lines /\ e[1] = frag /\ e[2] = log[len + 1][2]
    BY <2>2 DEF Lines
  <2>4. Read(len, frag) = [log EXCEPT ![len + 1] = e]
    BY <1>3 DEF Read, Line
  <2>. HIDE DEF e
  <2>5. /\ Read(len, frag) \in Seq(Lines) /\ Len(Read(len, frag)) = Len(log)
        /\ \A j \in 1..Len(log) : Read(len, frag)[j] = IF j = len + 1 THEN e ELSE log[j]
    BY <2>1, <2>3, <2>4, ExceptSeq
  <2>. QED  BY <1>1, <2>3, <2>5 DEF Follows, SplicedAt
<1>. QED  BY <1>2, <1>3

-----------------------------------------------------------------------------
\* The lock, the repair and the write of append_fsync_line: what is written is a whole
\* line at the end of the file.
LEMMA WriteAllAppends ==
    ASSUME WriterInv, NEW w \in Writers, WriteAll(w)
    PROVE  /\ log' = Append(log, Line(writer[w].id, writer[w].id))
           /\ writer[w].id \in Nat
<1>1. /\ writer[w].pc = "seeked" /\ writer[w].at = Len(log)
      /\ torn \in {None, writer[w].id} /\ writer[w].id \in Nat
  BY DEF WriterInv, WriteAll
<1>. DEFINE line == Line(writer[w].id, writer[w].id)
<1>2. line \in Lines
  BY <1>1 DEF Line, Lines
<1>3. Line(IF torn = None THEN writer[w].id ELSE torn, writer[w].id) = line
  BY <1>1
<1>4. log' = SubSeq(log, 1, Len(log)) \o <<line>> \o SubSeq(log, Len(log) + 2, Len(log))
  BY <1>1, <1>3 DEF WriteAll
<1>5. log \in Seq(Lines)
  BY DEF WriterInv
<1>6. ASSUME NEW e \in Lines
      PROVE  SubSeq(log, 1, Len(log)) \o <<e>> \o SubSeq(log, Len(log) + 2, Len(log))
                = Append(log, e)
  BY <1>5, WriteAtEnd
<1>. HIDE DEF line
<1>7. log' = Append(log, line)
  BY <1>2, <1>4, <1>6
<1>. QED  BY <1>1, <1>7 DEF line

\* Appending keeps what is there.
LEMMA AppendGrows ==
    ASSUME log \in Seq(Lines), NEW e \in Lines, log' = Append(log, e)
    PROVE  /\ LogGrew /\ Len(log') = Len(log) + 1 /\ log'[Len(log) + 1] = e
           /\ Len(log) \in Nat
<1>1. Len(log) \in Nat
  BY LenProperties
<1>. QED  BY <1>1, AppendProperties DEF LogGrew

LEMMA WriterStep ==
    ASSUME WriterInv,
           \/ \E w \in Writers :
                 Open(w) \/ Repair(w) \/ WriteSome(w) \/ WriteAll(w) \/ WriterDies(w)
           \/ UNCHANGED <<log, torn, writer, begun>>
    PROVE  WriterInv' /\ LogGrew
<1>1. ASSUME UNCHANGED log PROVE LogGrew
  <2>1. Len(log) \in Nat
    BY LenProperties DEF WriterInv
  <2>. QED  BY <1>1, <2>1 DEF LogGrew, WriterInv
<1>2. ASSUME NEW w \in Writers, Open(w)
      PROVE  WriterInv' /\ LogGrew
  <2>1. UNCHANGED <<log, torn>> /\ begun' \in Nat
    BY <1>2 DEF Open, WriterInv
  <2>2. \A x \in Writers : writer[x].pc = "idle"
    BY <1>2 DEF Open, MayLock, Unlocked
  <2>3. /\ writer' \in [Writers -> [pc : {"idle", "locked", "seeked"}, id : Nat, at : Nat]]
        /\ \A x \in Writers \ {w} : writer'[x] = writer[x]
        /\ writer'[w].pc = "locked"
    BY <1>2 DEF Open, WriterInv
  <2>. QED  BY <1>1, <2>1, <2>2, <2>3 DEF WriterInv, LinesWhole
<1>3. ASSUME NEW w \in Writers, Repair(w)
      PROVE  WriterInv' /\ LogGrew
  <2>1. UNCHANGED <<log, begun>> /\ torn' = None /\ Len(log) \in Nat
    BY <1>3, LenProperties DEF Repair, Repaired, WriterInv
  <2>2. /\ writer' \in [Writers -> [pc : {"idle", "locked", "seeked"}, id : Nat, at : Nat]]
        /\ \A x \in Writers \ {w} : writer'[x] = writer[x]
        /\ writer[w].pc = "locked" /\ writer'[w].at = Len(log)
    BY <1>3, <2>1 DEF Repair, WriterInv
  <2>. QED  BY <1>1, <2>1, <2>2 DEF WriterInv, LinesWhole, None
<1>4. ASSUME NEW w \in Writers, WriteSome(w)
      PROVE  WriterInv' /\ LogGrew
  <2>1. /\ UNCHANGED <<log, begun, writer>> /\ torn' = writer[w].id
        /\ writer[w].pc = "seeked" /\ writer[w].id \in Nat
    BY <1>4 DEF WriteSome, WriterInv
  <2>. QED  BY <1>1, <2>1 DEF WriterInv, LinesWhole
<1>5. ASSUME NEW w \in Writers, WriteAll(w)
      PROVE  WriterInv' /\ LogGrew
  <2>. DEFINE line == Line(writer[w].id, writer[w].id)
  <2>1. log' = Append(log, line) /\ line \in Lines /\ Whole(line)
    BY <1>5, WriteAllAppends DEF Line, Lines, Whole
  <2>. HIDE DEF line
  <2>2. LogGrew /\ Len(log') = Len(log) + 1 /\ log'[Len(log) + 1] = line /\ Len(log) \in Nat
    BY <2>1, AppendGrows DEF WriterInv
  <2>3. DOMAIN log = 1..Len(log) /\ DOMAIN log' = 1..Len(log')
    BY <2>2, LenProperties DEF WriterInv, LogGrew
  <2>4. LinesWhole'
    <3>1. ASSUME NEW i \in 1..Len(log) + 1
          PROVE  Whole(log'[i])
      <4>1. CASE i = Len(log) + 1
        BY <2>1, <2>2, <4>1
      <4>2. CASE i # Len(log) + 1
        <5>1. i \in 1..Len(log)
          BY <2>2, <4>2
        <5>2. log'[i] = log[i] /\ Whole(log[i])
          BY <2>2, <2>3, <5>1 DEF WriterInv, LinesWhole, LogGrew
        <5>. QED  BY <5>2
      <4>. QED  BY <4>1, <4>2
    <3>. QED  BY <2>2, <2>3, <3>1 DEF LinesWhole
  <2>5. /\ torn' = None /\ begun' = begun
        /\ writer' = [writer EXCEPT ![w] = AtRest]
        /\ writer[w].pc = "seeked"
    BY <1>5 DEF WriteAll
  <2>6. /\ writer' \in [Writers -> [pc : {"idle", "locked", "seeked"}, id : Nat, at : Nat]]
        /\ \A x \in Writers \ {w} : writer'[x] = writer[x]
        /\ writer'[w].pc = "idle"
    BY <2>5 DEF WriterInv, AtRest, None
  <2>. QED  BY <2>2, <2>4, <2>5, <2>6 DEF WriterInv, LogGrew, None
<1>6. ASSUME NEW w \in Writers, WriterDies(w)
      PROVE  WriterInv' /\ LogGrew
  <2>1. UNCHANGED <<log, torn, begun>> /\ writer' = [writer EXCEPT ![w] = AtRest]
    BY <1>6 DEF WriterDies
  <2>2. /\ writer' \in [Writers -> [pc : {"idle", "locked", "seeked"}, id : Nat, at : Nat]]
        /\ \A x \in Writers \ {w} : writer'[x] = writer[x]
        /\ writer'[w].pc = "idle"
    BY <2>1 DEF WriterInv, AtRest, None
  <2>. QED  BY <1>1, <2>1, <2>2 DEF WriterInv, LinesWhole
<1>7. CASE UNCHANGED <<log, torn, writer, begun>>
  BY <1>1, <1>7 DEF WriterInv, LinesWhole
<1>. QED  BY <1>2, <1>3, <1>4, <1>5, <1>6, <1>7

-----------------------------------------------------------------------------
\* What was read or shown stays true of a file that only grows.
LEMMA Stays ==
    ASSUME NEW file \in Seq(Lines), NEW longer \in Seq(Lines), Len(file) <= Len(longer),
           \A i \in 1..Len(file) : longer[i] = file[i],
           NEW lines \in Seq(Lines)
    PROVE  /\ \A len \in Nat, frag \in Nat :
                 SplicedAt(file, lines, len, frag) => SplicedAt(longer, lines, len, frag)
<1>1. Len(file) \in Nat /\ Len(longer) \in Nat /\ Len(lines) \in Nat
  BY LenProperties
<1>3. ASSUME NEW len \in Nat, NEW frag \in Nat, SplicedAt(file, lines, len, frag)
      PROVE  SplicedAt(longer, lines, len, frag)
  <2>1. len <= Len(lines) /\ Len(lines) <= Len(longer)
    BY <1>1, <1>3 DEF SplicedAt
  <2>2. ASSUME NEW i \in 1..Len(lines)
        PROVE  lines[i] = longer[i] \/ (i = len + 1 /\ lines[i][1] = frag)
    <3>1. i \in 1..Len(file)
      BY <1>1, <1>3 DEF SplicedAt
    <3>. QED  BY <1>3, <3>1 DEF SplicedAt
  <2>. QED  BY <2>1, <2>2 DEF SplicedAt
<1>. QED  BY <1>3

LEMMA FollowsStays ==
    ASSUME NEW S, NEW file \in Seq(Lines), NEW longer \in Seq(Lines), Len(file) <= Len(longer),
           \A i \in 1..Len(file) : longer[i] = file[i],
           NEW lines \in Seq(S), Follows(file, lines)
    PROVE  Follows(longer, lines)
<1>1. Len(file) \in Nat /\ Len(longer) \in Nat /\ Len(lines) \in Nat
  BY LenProperties
<1>. QED  BY <1>1 DEF Follows

\* A thread that another's step leaves alone.
LEMMA ReadStays ==
    ASSUME log \in Seq(Lines), LogGrew, NEW t \in Reads, ReadOK(log, t)
    PROVE  ReadOK(log', t)
<1>1. t.snap \in Seq(Lines) /\ t.events \in Seq(Lines) /\ t.len \in Nat /\ t.frag \in Nat
  BY DEF Reads
<1>2. Len(log) \in Nat /\ log' \in Seq(Lines) /\ Len(log') \in Nat /\ Len(log) <= Len(log')
      /\ \A i \in 1..Len(log) : log'[i] = log[i]
  BY LenProperties DEF LogGrew
<1>3. SplicedAt(log, t.snap, t.len, t.frag) => SplicedAt(log', t.snap, t.len, t.frag)
  BY <1>1, <1>2, Stays
<1>4. SplicedAt(log, t.events, t.len, t.frag) => SplicedAt(log', t.events, t.len, t.frag)
  BY <1>1, <1>2, Stays
<1>. QED  BY <1>1, <1>2, <1>3, <1>4 DEF ReadOK

\* A step of one thread, seen from all of them.
LEMMA OneReads ==
    ASSUME ReaderInv, log \in Seq(Lines), LogGrew, NEW r \in Threads, NEW t \in Reads,
           thread' = [thread EXCEPT ![r] = t], ReadOK(log', t),
           cache'.bytes \in Seq(Lines), cache'.events = cache'.bytes
    PROVE  ReaderInv'
<1>1. /\ thread \in [Threads -> Reads] /\ thread' \in [Threads -> Reads]
      /\ \A q \in Threads : ReadOK(log, thread[q])
  BY DEF ReaderInv, Reads, ReadOK
<1>2. \A q \in Threads : ReadOK(log', thread'[q])
  BY <1>1, ReadStays
<1>. QED  BY <1>1, <1>2 DEF ReaderInv, Reads, ReadOK

LEMMA ReaderStep ==
    ASSUME WriterInv, ReaderInv, LogGrew,
           \/ UNCHANGED <<thread, cache>>
           \/ /\ UNCHANGED <<log, torn>>
              /\ \E r \in Threads :
                    ReadStart(r) \/ ReadRest(r) \/ Parse(r) \/ Malformed(r) \/ ReadDone(r)
    PROVE  ReaderInv'
<1>1. /\ log \in Seq(Lines) /\ torn \in Nat /\ Len(log) \in Nat
      /\ thread \in [Threads -> Reads] /\ \A q \in Threads : ReadOK(log, thread[q])
      /\ cache.bytes \in Seq(Lines) /\ cache.events = cache.bytes
      /\ Len(cache.bytes) \in Nat
  BY LenProperties DEF WriterInv, ReaderInv, Reads, ReadOK
<1>2. << >> \in Seq(Lines)
  OBVIOUS
<1>3. CASE UNCHANGED <<thread, cache>>
  BY <1>1, <1>3, ReadStays DEF ReaderInv, Reads, ReadOK
<1>4. ASSUME UNCHANGED <<log, torn>>, NEW r \in Threads, ReadStart(r)
      PROVE  ReaderInv'
  <2>. DEFINE t == [NoRead EXCEPT !.pc = "reading", !.len = Len(log), !.frag = torn]
  <2>1. t \in Reads /\ t.pc = "reading" /\ t.len = Len(log)
    BY <1>1, <1>2 DEF NoRead, None, Reads
  <2>2. thread' = [thread EXCEPT ![r] = t] /\ cache' = cache
    BY <1>4 DEF ReadStart
  <2>. HIDE DEF t
  <2>3. ReadOK(log', t)
    BY <1>1, <1>4, <2>1 DEF ReadOK
  <2>. QED  BY <1>1, <2>1, <2>2, <2>3, OneReads
<1>5. ASSUME UNCHANGED <<log, torn>>, NEW r \in Threads, ReadRest(r)
      PROVE  ReaderInv'
  <2>. DEFINE snap == Read(thread[r].len, thread[r].frag)
              t == [thread[r] EXCEPT !.pc = "parsing", !.snap = snap]
  <2>1. thread[r].len \in 0..Len(log) /\ thread[r].frag \in Nat /\ thread[r] \in Reads
    BY <1>1, <1>5 DEF ReadRest, ReadOK, Reads
  <2>2. snap \in Seq(Lines) /\ SplicedAt(log, snap, thread[r].len, thread[r].frag)
    BY <1>1, <2>1, ReadProperties
  <2>3. thread' = [thread EXCEPT ![r] = t] /\ cache' = cache
    BY <1>1, <1>5 DEF ReadRest, Reads
  <2>. HIDE DEF snap
  <2>4. t \in Reads /\ t.pc = "parsing" /\ t.snap = snap /\ t.len = thread[r].len
        /\ t.frag = thread[r].frag
    BY <2>1, <2>2 DEF Reads
  <2>. HIDE DEF t
  <2>5. ReadOK(log', t)
    BY <1>5, <2>2, <2>4 DEF ReadOK
  <2>. QED  BY <1>1, <2>3, <2>4, <2>5, OneReads
<1>6. ASSUME UNCHANGED <<log, torn>>, NEW r \in Threads, Parse(r)
      PROVE  ReaderInv'
  <2>. DEFINE snap == thread[r].snap
              t == [thread[r] EXCEPT !.pc = "returned", !.events = snap]
  <2>1. thread[r] \in Reads /\ thread[r].pc = "parsing" /\ snap \in Seq(Lines)
        /\ Len(snap) \in Nat
    BY <1>1, <1>6, LenProperties DEF Parse, Reads
  <2>2. (IF PrefixIntact(snap) THEN cache.events \o From(snap, Len(cache.bytes)) ELSE snap)
           = snap
    <3>1. CASE PrefixIntact(snap)
      <4>1. Len(cache.bytes) \in 0..Len(snap) /\ Prefix(snap, Len(cache.bytes)) = cache.bytes
        BY <1>1, <2>1, <3>1 DEF PrefixIntact
      <4>2. Prefix(snap, Len(cache.bytes)) \o From(snap, Len(cache.bytes)) = snap
        BY <2>1, <4>1, FromProperties
      <4>. QED  BY <1>1, <3>1, <4>1, <4>2
    <3>. QED  BY <3>1
  <2>3. thread' = [thread EXCEPT ![r] = t] /\ cache' = [bytes |-> snap, events |-> snap]
    BY <1>1, <1>6, <2>2 DEF Parse, Digested, Reads
  <2>4. SplicedAt(log, snap, thread[r].len, thread[r].frag)
    BY <1>1, <2>1 DEF ReadOK
  <2>5. cache'.bytes \in Seq(Lines) /\ cache'.events = cache'.bytes
    BY <2>1, <2>3
  <2>. HIDE DEF snap
  <2>6. t \in Reads /\ t.pc = "returned" /\ t.events = snap /\ t.len = thread[r].len
        /\ t.frag = thread[r].frag
    BY <2>1 DEF Reads
  <2>. HIDE DEF t
  <2>7. ReadOK(log', t)
    BY <1>6, <2>4, <2>6 DEF ReadOK
  <2>. QED  BY <1>1, <2>3, <2>5, <2>6, <2>7, OneReads
<1>7. ASSUME UNCHANGED <<log, torn>>, NEW r \in Threads, Malformed(r) \/ ReadDone(r)
      PROVE  ReaderInv'
  <2>1. thread' = [thread EXCEPT ![r] = NoRead] /\ cache' = cache
    BY <1>7 DEF Malformed, ReadDone
  <2>2. NoRead \in Reads /\ NoRead.pc = "idle"
    BY <1>2 DEF NoRead, Reads, None
  <2>3. ReadOK(log', NoRead)
    BY <2>2 DEF ReadOK
  <2>. QED  BY <1>1, <2>1, <2>2, <2>3, OneReads
<1>. QED  BY <1>3, <1>4, <1>5, <1>6, <1>7

-----------------------------------------------------------------------------
\* A page that another's step leaves alone.
LEMMA WatchStays ==
    ASSUME log \in Seq(Lines), LogGrew, NEW t \in Watches, WatchOK(log, t)
    PROVE  WatchOK(log', t)
<1>1. t.shown \in Seq(Sent) /\ t.len \in Nat
  BY DEF Watches
<1>2. Len(log) \in Nat /\ log' \in Seq(Lines) /\ Len(log') \in Nat /\ Len(log) <= Len(log')
      /\ \A i \in 1..Len(log) : log'[i] = log[i]
  BY LenProperties DEF LogGrew
<1>3. Follows(log, t.shown) => Follows(log', t.shown)
  BY <1>1, <1>2, FollowsStays
<1>. QED  BY <1>1, <1>2, <1>3 DEF WatchOK, Pictures

\* A step of one page, seen from all of them.
LEMMA OneWatches ==
    ASSUME PageInv, log \in Seq(Lines), log' = log, NEW p \in Pages, NEW t \in Watches,
           page' = [page EXCEPT ![p] = t], WatchOK(log, t),
           trail' \in Seq(Seq(EntryRecords)), visits' \in Nat,
           scrap' \in [id : Nat, prev : Nat, whole : BOOLEAN]
    PROVE  PageInv'
<1>1. /\ page \in [Pages -> Watches] /\ page' \in [Pages -> Watches]
      /\ \A q \in Pages : WatchOK(log, page[q])
  BY DEF PageInv
<1>2. \A q \in Pages : WatchOK(log', page'[q])
  BY <1>1
<1>. QED  BY <1>1, <1>2 DEF PageInv

\* A new request begins at the first event (EventSource, tail_events).
LEMMA AskingIsFresh ==
    ASSUME NEW t \in Watches, visits \in Nat
    PROVE  /\ Asking(t) \in Watches /\ Asking(t).shown = t.shown
           /\ Asking(t).offset = 0 /\ Asking(t).pc = "asking"
<1>. DEFINE a == [t EXCEPT !.pc = "asking"]
            b == [a EXCEPT !.id = visits + 1]
<1>1. a \in Watches /\ a.shown = t.shown /\ a.pc = "asking"
  BY DEF Watches
<1>2. Asking(t) = [b EXCEPT !.offset = 0]
  BY DEF Asking
<1>. HIDE DEF a
<1>3. visits + 1 \in Nat
  OBVIOUS
<1>4. b \in Watches /\ b.shown = t.shown /\ b.pc = "asking"
  BY <1>1, <1>3 DEF Watches
<1>. HIDE DEF b
<1>. QED  BY <1>2, <1>4, SMTT(20) DEF Watches

\* The head of the trail is the number of an entry (_last_entry_hash).
LEMMA HeadIsNumber ==
    ASSUME PageInv PROVE LastHash \in Nat
<1>1. /\ trail \in Seq(Seq(EntryRecords)) /\ scrap.id \in Nat /\ Len(trail) \in Nat
  BY LenProperties DEF PageInv
<1>2. CASE scrap = NoScrap /\ LastLine # << >>
  <2>1. trail # << >> /\ LastLine = trail[Len(trail)]
    BY <1>2 DEF LastLine
  <2>2. Len(trail) \in 1..Len(trail)
    BY <1>1, <2>1, EmptySeq
  <2>3. LastLine \in Seq(EntryRecords)
    BY <1>1, <2>1, <2>2, ElementOfSeq
  <2>4. 1 \in 1..Len(LastLine)
    BY <1>2, <2>3, EmptySeq
  <2>5. LastLine[1] \in EntryRecords
    BY <2>3, <2>4, ElementOfSeq
  <2>. QED  BY <1>2, <2>5 DEF LastHash, EntryRecords
<1>3. CASE ~(scrap = NoScrap /\ LastLine # << >>)
  BY <1>1, <1>3 DEF LastHash, None
<1>. QED  BY <1>2, <1>3

\* The audit of a request moves nothing that its page shows, and a new request begins at
\* the first event (AccessAudit.append, EventSource).
LEMMA AuditStep ==
    ASSUME PageInv, log \in Seq(Lines), AuditNext
    PROVE  PageInv'
<1>1. PICK p \in Pages :
         \/ Visit(p) \/ RepairTrail(p) \/ LockTrail(p) \/ TrailUnreadable(p)
         \/ EnterSome(p) \/ EnterAll(p) \/ EnterFails(p)
  BY DEF AuditNext
<1>2. /\ page \in [Pages -> Watches] /\ page[p] \in Watches /\ WatchOK(log, page[p])
      /\ trail \in Seq(Seq(EntryRecords)) /\ visits \in Nat
      /\ scrap \in [id : Nat, prev : Nat, whole : BOOLEAN]
  BY DEF PageInv
<1>3. log' = log
  BY <1>1 DEF Visit, RepairTrail, LockTrail, TrailUnreadable, EnterSome, EnterAll, EnterFails,
     journalVars
<1>4. ASSUME NEW t \in Watches, t.shown = page[p].shown, t.offset \in {0, page[p].offset},
             t.pc # "tailing"
      PROVE  WatchOK(log, t)
  BY <1>2, <1>4 DEF WatchOK
<1>5. CASE Visit(p)
  <2>. DEFINE t == Asking(page[p])
  <2>1. t \in Watches /\ t.shown = page[p].shown /\ t.offset = 0 /\ t.pc = "asking"
    BY <1>2, AskingIsFresh
  <2>2. page' = [page EXCEPT ![p] = t] /\ visits' \in Nat /\ UNCHANGED <<trail, scrap>>
    BY <1>2, <1>5 DEF Visit, Asking
  <2>. HIDE DEF t
  <2>. QED  BY <1>2, <1>3, <1>4, <2>1, <2>2, OneWatches
<1>6. CASE RepairTrail(p) \/ TrailUnreadable(p) \/ EnterFails(p)
  <2>1. PICK pc \in {"repaired", "away"} : page' = [page EXCEPT ![p].pc = pc]
    BY <1>2, <1>6 DEF RepairTrail, TrailUnreadable, EnterFails, Refused
  <2>. DEFINE t == [page[p] EXCEPT !.pc = pc]
  <2>2. t \in Watches /\ t.shown = page[p].shown /\ t.offset = page[p].offset /\ t.pc # "tailing"
    BY <1>2 DEF Watches
  <2>3. page' = [page EXCEPT ![p] = t]
    BY <1>2, <2>1
  <2>. HIDE DEF t
  <2>4. UNCHANGED <<trail, visits>> /\ scrap' \in {scrap, NoScrap}
    BY <1>6 DEF RepairTrail, TrailUnreadable, EnterFails
  <2>5. NoScrap \in [id : Nat, prev : Nat, whole : BOOLEAN]
    BY DEF NoScrap, None
  <2>. QED  BY <1>2, <1>3, <1>4, <2>2, <2>3, <2>4, <2>5, OneWatches
<1>7. CASE LockTrail(p)
  <2>. DEFINE t == [page[p] EXCEPT !.pc = "entering", !.prev = LastHash]
  <2>1. t \in Watches /\ t.shown = page[p].shown /\ t.offset = page[p].offset /\ t.pc # "tailing"
    BY <1>2, HeadIsNumber DEF Watches
  <2>2. page' = [page EXCEPT ![p] = t] /\ UNCHANGED <<trail, scrap, visits>>
    BY <1>2, <1>7 DEF LockTrail
  <2>. HIDE DEF t
  <2>. QED  BY <1>2, <1>3, <1>4, <2>1, <2>2, OneWatches
<1>8. CASE EnterSome(p)
  <2>. DEFINE t == [page[p] EXCEPT !.pc = "writing"]
  <2>1. t \in Watches /\ t.shown = page[p].shown /\ t.offset = page[p].offset /\ t.pc # "tailing"
    BY <1>2 DEF Watches
  <2>2. page' = [page EXCEPT ![p] = t] /\ UNCHANGED <<trail, visits>>
    BY <1>2, <1>8 DEF EnterSome
  <2>3. scrap' \in [id : Nat, prev : Nat, whole : BOOLEAN]
    BY <1>2, <1>8 DEF EnterSome, Watches
  <2>. HIDE DEF t
  <2>. QED  BY <1>2, <1>3, <1>4, <2>1, <2>2, <2>3, OneWatches
<1>9. CASE EnterAll(p)
  <2>. DEFINE t == [page[p] EXCEPT !.pc = "recorded"]
              entry == Entry(page[p].id, page[p].prev)
              before == IF scrap = NoScrap \/ page[p].pc = "writing" THEN << >>
                        ELSE <<Entry(scrap.id, scrap.prev)>>
  <2>1. t \in Watches /\ t.shown = page[p].shown /\ t.offset = page[p].offset /\ t.pc # "tailing"
    BY <1>2 DEF Watches
  <2>2. page' = [page EXCEPT ![p] = t] /\ visits' = visits /\ scrap' = NoScrap
    BY <1>2, <1>9 DEF EnterAll
  <2>3. NoScrap \in [id : Nat, prev : Nat, whole : BOOLEAN]
    BY DEF NoScrap, None
  <2>4. entry \in EntryRecords /\ Entry(scrap.id, scrap.prev) \in EntryRecords
    BY <1>2 DEF Entry, EntryRecords, Watches
  <2>5. before \in Seq(EntryRecords) /\ <<entry>> \in Seq(EntryRecords)
    BY <2>4
  <2>6. trail' = Append(trail, before \o <<entry>>)
    BY <1>9 DEF EnterAll
  <2>. HIDE DEF t, entry, before
  <2>7. before \o <<entry>> \in Seq(EntryRecords)
    BY <2>5, ConcatProperties
  <2>8. trail' \in Seq(Seq(EntryRecords))
    BY <1>2, <2>6, <2>7, AppendProperties
  <2>. QED  BY <1>2, <1>3, <1>4, <2>1, <2>2, <2>3, <2>8, OneWatches
<1>. QED  BY <1>1, <1>5, <1>6, <1>7, <1>8, <1>9

\* The frames of events are one for each, and each is dropped for its own kind alone
\* (parseRunEvent).
LEMMA FramesOf ==
    ASSUME NEW events \in Seq(Lines), NEW n \in Nat
    PROVE  /\ Frames(events, n) \in Seq(Sent) /\ Len(Frames(events, n)) = Len(events)
           /\ \A i \in 1..Len(events) :
                 /\ Frames(events, n)[i][2] = events[i][2]
                 /\ TakenAs(Frames(events, n)[i], n + i)
<1>1. DOMAIN events = 1..Len(events) /\ Len(events) \in Nat
  BY LenProperties
<1>2. ASSUME NEW i \in 1..Len(events)
      PROVE  /\ Frame(events[i], n + i) \in Sent
             /\ Frame(events[i], n + i)[2] = events[i][2]
             /\ TakenAs(Frame(events[i], n + i), n + i)
  <2>1. events[i] \in Lines
    BY <1>2, ElementOfSeq
  <2>. DEFINE k == n + i
              f == Frame(events[i], k)
  <2>2. f = <<events[i][1], events[i][2],
              IF k = 1 \/ events[i][1] \notin Silent THEN "line" ELSE "nothing">>
    BY DEF Frame
  <2>. HIDE DEF k
  <2>3. f \in Sent /\ f[2] = events[i][2] /\ f[1] = events[i][1]
    BY <2>1, <2>2 DEF Lines, Sent
  <2>4. f[3] = "line" <=> k = 1 \/ f[1] \notin Silent
    BY <2>2, <2>3
  <2>. HIDE DEF f
  <2>5. TakenAs(f, k)
    BY <2>4 DEF TakenAs, Whole
  <2>. QED  BY <2>3, <2>5 DEF f, k
<1>3. Frames(events, n) = [i \in 1..Len(events) |-> Frame(events[i], n + i)]
  BY <1>1 DEF Frames
<1>4. /\ Frames(events, n) \in Seq(Sent) /\ Len(Frames(events, n)) = Len(events)
      /\ \A i \in 1..Len(events) : Frames(events, n)[i] = Frame(events[i], n + i)
  BY <1>1, <1>2, <1>3, IsASeq, LenProperties
<1>. QED  BY <1>2, <1>4

\* After a poll a page has a frame for each line of the journal (tail_events).
LEMMA PollShowsAll ==
    ASSUME PageInv, log \in Seq(Lines), NEW p \in Pages, page[p].pc = "tailing"
    PROVE  LET shown == Shown(page[p].shown, Frames(Fresh(p), page[p].offset),
                              page[p].offset)
           IN  /\ shown \in Seq(Sent) /\ Pictures(log, shown)
               /\ Len(shown) = Len(log) /\ NewOffset(p) = Len(log) /\ Len(log) \in Nat
<1>. DEFINE old == page[p].shown
            offset == page[p].offset
            lines == Read(page[p].len, page[p].frag)
            sent == Frames(Fresh(p), offset)
            shown == Shown(old, sent, offset)
<1>1. /\ page[p].len \in 0..Len(log) /\ page[p].frag \in Nat /\ old \in Seq(Sent)
      /\ offset \in {0, Len(old)} /\ Pictures(log, old)
      /\ Len(log) \in Nat /\ Len(old) \in Nat
  <2>1. page[p] \in Watches /\ WatchOK(log, page[p])
    BY DEF PageInv
  <2>. QED  BY <2>1, LenProperties DEF WatchOK, Watches
<1>2. /\ lines \in Seq(Lines) /\ Len(lines) = Len(log) /\ Follows(log, lines)
      /\ Fresh(p) = From(lines, offset) /\ NewOffset(p) = Len(log)
  BY <1>1, ReadProperties DEF Fresh, NewOffset
<1>3. shown = IF offset = 0 /\ sent # << >> THEN sent ELSE old \o sent
  BY DEF Shown
<1>4. offset \in 0..Len(lines)
  BY <1>1, <1>2 DEF Pictures, Follows
<1>5. /\ From(lines, offset) \in Seq(Lines) /\ Len(From(lines, offset)) = Len(lines) - offset
      /\ \A i \in 1..Len(lines) - offset : From(lines, offset)[i] = lines[offset + i]
  BY <1>2, <1>4, FromProperties
<1>6. /\ sent \in Seq(Sent) /\ Len(sent) = Len(log) - offset /\ offset \in Nat
      /\ offset <= Len(log)
      /\ \A i \in 1..Len(log) - offset :
            sent[i][2] = log[offset + i][2] /\ TakenAs(sent[i], offset + i)
  <2>1. /\ sent \in Seq(Sent) /\ Len(sent) = Len(log) - offset
        /\ \A i \in 1..Len(log) - offset :
              sent[i][2] = From(lines, offset)[i][2] /\ TakenAs(sent[i], offset + i)
    BY <1>1, <1>2, <1>4, <1>5, FramesOf
  <2>2. ASSUME NEW i \in 1..Len(log) - offset
        PROVE  From(lines, offset)[i][2] = log[offset + i][2]
    <3>1. offset + i \in 1..Len(lines)
      BY <1>1, <1>2, <1>4
    <3>. QED  BY <1>2, <1>5, <2>2, <3>1 DEF Follows
  <2>. QED  BY <1>1, <1>2, <1>4, <2>1, <2>2
<1>. HIDE DEF old, offset, lines, sent, shown
<1>7. CASE offset = 0 /\ sent # << >>
  <2>1. shown = sent /\ Len(sent) = Len(log)
    BY <1>1, <1>3, <1>6, <1>7
  <2>2. ASSUME NEW i \in 1..Len(log)
        PROVE  shown[i][2] = log[i][2] /\ TakenAs(shown[i], i)
    <3>1. i \in 1..Len(log) - offset /\ offset + i = i
      BY <1>1, <1>7
    <3>. QED  BY <1>6, <2>1, <3>1
  <2>3. Pictures(log, shown)
    BY <1>1, <2>1, <2>2 DEF Pictures, Follows
  <2>. QED  BY <1>1, <1>2, <1>6, <2>1, <2>3 DEF shown, old, sent, offset
<1>8. CASE ~(offset = 0 /\ sent # << >>)
  <2>1. shown = old \o sent
    BY <1>3, <1>8
  <2>2. offset = Len(old)
    <3>1. CASE offset = 0
      <4>1. Len(log) = 0
        BY <1>1, <1>6, <1>8, <3>1, EmptySeq
      <4>. QED  BY <1>1, <3>1, <4>1 DEF Pictures, Follows
    <3>2. CASE offset # 0
      BY <1>1, <3>2
    <3>. QED  BY <3>1, <3>2
  <2>3. /\ shown \in Seq(Sent) /\ Len(shown) = Len(old) + Len(sent)
        /\ \A i \in 1..Len(old) + Len(sent) :
              shown[i] = IF i <= Len(old) THEN old[i] ELSE sent[i - Len(old)]
    <3>1. old \in Seq(Sent) /\ sent \in Seq(Sent)
      BY <1>1, <1>6
    <3>. QED  BY <2>1, <3>1, ConcatProperties
  <2>4. Len(shown) = Len(log)
    <3>1. Len(log) \in Nat /\ Len(old) \in Nat
      BY <1>1
    <3>2. Len(sent) = Len(log) - offset
      BY <1>6
    <3>3. Len(shown) = Len(old) + Len(sent)
      BY <2>3
    <3>. QED  BY <2>2, <3>1, <3>2, <3>3
  <2>5. ASSUME NEW i \in 1..Len(log)
        PROVE  shown[i][2] = log[i][2] /\ TakenAs(shown[i], i)
    <3>1. CASE i <= Len(old)
      <4>1. shown[i] = old[i] /\ i \in 1..Len(old)
        BY <1>1, <2>3, <2>4, <3>1
      <4>. QED  BY <1>1, <4>1 DEF Pictures, Follows
    <3>2. CASE ~(i <= Len(old))
      <4>1. PICK j \in Int : j = i - Len(old)
        <5>1. i - Len(old) \in Int
          BY <1>1
        <5>. QED  BY <5>1, Zenon
      <4>2. j \in 1..Len(log) - offset /\ offset + j = i
        BY <1>1, <2>2, <3>2, <4>1
      <4>3. shown[i] = sent[j]
        <5>1. shown[i] = sent[i - Len(old)]
          BY <2>3, <2>4, <3>2
        <5>. QED  BY <4>1, <5>1
      <4>. QED  BY <1>6, <4>2, <4>3
    <3>. QED  BY <3>1, <3>2
  <2>6. Pictures(log, shown)
    BY <1>1, <2>4, <2>5 DEF Pictures, Follows
  <2>. QED  BY <1>1, <1>2, <2>3, <2>4, <2>6 DEF shown, old, sent, offset
<1>. QED  BY <1>7, <1>8

\* A step of the stream keeps what its page shows in step with the journal.
LEMMA StreamStep ==
    ASSUME PageInv, WriterInv,
           \E p \in Pages :
              TailStart(p) \/ TailRest(p) \/ Breaks(p) \/ StreamEnds(p) \/ PollAgain(p)
    PROVE  PageInv'
<1>1. PICK p \in Pages :
         TailStart(p) \/ TailRest(p) \/ Breaks(p) \/ StreamEnds(p) \/ PollAgain(p)
  OBVIOUS
<1>2. /\ page \in [Pages -> Watches] /\ page[p] \in Watches /\ WatchOK(log, page[p])
      /\ trail \in Seq(Seq(EntryRecords)) /\ visits \in Nat
      /\ scrap \in [id : Nat, prev : Nat, whole : BOOLEAN]
      /\ log \in Seq(Lines) /\ torn \in Nat /\ Len(log) \in Nat
  BY LenProperties DEF PageInv, WriterInv
<1>3. log' = log /\ UNCHANGED <<trail, scrap>> /\ visits' \in Nat
  BY <1>1, <1>2 DEF TailStart, TailRest, Breaks, StreamEnds, PollAgain, OthersUnchanged, journalVars
<1>4. CASE TailStart(p)
  <2>. DEFINE t == [page[p] EXCEPT !.pc = "tailing", !.len = Len(log), !.frag = torn]
  <2>1. /\ t \in Watches /\ t.shown = page[p].shown /\ t.offset = page[p].offset
        /\ t.len = Len(log)
    BY <1>2 DEF Watches
  <2>2. page' = [page EXCEPT ![p] = t]
    BY <1>2, <1>4 DEF TailStart
  <2>. HIDE DEF t
  <2>3. WatchOK(log, t)
    BY <1>2, <2>1 DEF WatchOK
  <2>. QED  BY <1>2, <1>3, <2>1, <2>2, <2>3, OneWatches
<1>5. CASE TailRest(p)
  <2>. DEFINE shown == Shown(page[p].shown, Frames(Fresh(p), page[p].offset), page[p].offset)
              t == [page[p] EXCEPT !.pc = "sent", !.shown = shown, !.offset = NewOffset(p),
                                   !.len = 0, !.frag = None]
  <2>1. /\ shown \in Seq(Sent) /\ Pictures(log, shown)
        /\ Len(shown) = Len(log) /\ NewOffset(p) = Len(log)
    BY <1>2, <1>5, PollShowsAll DEF TailRest
  <2>2. page' = [page EXCEPT ![p] = t]
    BY <1>2, <1>5 DEF TailRest, Watches
  <2>. HIDE DEF shown
  <2>3. t \in Watches /\ t.shown = shown /\ t.offset = Len(log) /\ t.pc = "sent"
    BY <1>2, <2>1 DEF Watches, None
  <2>. HIDE DEF t
  <2>4. WatchOK(log, t)
    BY <2>1, <2>3 DEF WatchOK
  <2>. QED  BY <1>2, <1>3, <2>2, <2>3, <2>4, OneWatches
<1>6. CASE Breaks(p)
  <2>. DEFINE s == [page[p] EXCEPT !.len = 0, !.frag = None]
              t == Asking(s)
  <2>1. s \in Watches /\ s.shown = page[p].shown
    BY <1>2 DEF Watches, None
  <2>2. page' = [page EXCEPT ![p] = t]
    BY <1>6 DEF Breaks
  <2>. HIDE DEF s
  <2>3. t \in Watches /\ t.shown = page[p].shown /\ t.offset = 0 /\ t.pc = "asking"
    BY <1>2, <2>1, AskingIsFresh
  <2>. HIDE DEF t
  <2>4. WatchOK(log, t)
    BY <1>2, <2>3 DEF WatchOK
  <2>. QED  BY <1>2, <1>3, <2>2, <2>3, <2>4, OneWatches
<1>7. CASE StreamEnds(p) \/ PollAgain(p)
  <2>1. PICK pc \in {"ended", "recorded"} : page' = [page EXCEPT ![p].pc = pc]
    BY <1>7 DEF StreamEnds, PollAgain
  <2>. DEFINE t == [page[p] EXCEPT !.pc = pc]
  <2>2. t \in Watches /\ t.shown = page[p].shown /\ t.offset = page[p].offset /\ t.pc # "tailing"
    BY <1>2 DEF Watches
  <2>3. page' = [page EXCEPT ![p] = t]
    BY <1>2, <2>1
  <2>. HIDE DEF t
  <2>4. WatchOK(log, t)
    BY <1>2, <2>2 DEF WatchOK
  <2>. QED  BY <1>2, <1>3, <2>2, <2>3, <2>4, OneWatches
<1>. QED  BY <1>1, <1>4, <1>5, <1>6, <1>7

-----------------------------------------------------------------------------
\* The first entry of a line follows the last of the line before.
LEMMA FirstOfLine ==
    ASSUME NEW lines, NEW n \in Nat
    PROVE  /\ n = 0 => Before(lines, n + 1, 1) = None
           /\ n # 0 => Before(lines, n + 1, 1) = Last(lines[n]).id
<1>1. ASSUME NEW i \in Nat
      PROVE  /\ i = 1 => Before(lines, i, 1) = None
             /\ i # 1 => Before(lines, i, 1) = Last(lines[i - 1]).id
  BY DEF Before
<1>2. \E i \in Nat : i = n + 1 /\ i - 1 = n
  OBVIOUS
<1>3. PICK i \in Nat : i = n + 1 /\ i - 1 = n
  BY <1>2
<1>4. (n = 0 => i = 1) /\ (n # 0 => i # 1)
  BY <1>3
<1>. QED  BY <1>1, <1>3, <1>4

\* A line that follows the tip keeps the entries one chain (AccessAudit.append).
LEMMA LineChains ==
    ASSUME NEW lines \in Seq(Seq(EntryRecords)), OneChain(lines),
           NEW line \in Seq(EntryRecords), NEW more, more = Append(lines, line),
           Len(line) \in {1, 2}, line[1].prev = LastOf(lines),
           Len(line) = 2 => line[2].prev = line[1].id
    PROVE  /\ OneChain(more)
           /\ \A id : Holds(lines, id) => Holds(more, id)
           /\ Holds(more, line[Len(line)].id)
<1>0. PICK n \in Nat : n = Len(lines)
  BY LenProperties
<1>1. /\ Len(more) = n + 1
      /\ \A i \in 1..n : more[i] = lines[i]
      /\ more[n + 1] = line
      /\ DOMAIN lines = 1..n /\ DOMAIN more = 1..n + 1
      /\ DOMAIN line = 1..Len(line)
  BY <1>0, AppendProperties, LenProperties
<1>2. ASSUME NEW id, Holds(lines, id)
      PROVE  Holds(more, id)
  <2>1. PICK i \in 1..n : \E k \in DOMAIN lines[i] : lines[i][k].id = id
    BY <1>1, <1>2 DEF Holds
  <2>2. i \in DOMAIN more /\ more[i] = lines[i]
    BY <1>1
  <2>3. \E k \in DOMAIN more[i] : more[i][k].id = id
    BY <2>1, <2>2
  <2>. QED  BY <2>2, <2>3 DEF Holds
<1>3. Holds(more, line[Len(line)].id)
  <2>1. n + 1 \in DOMAIN more /\ Len(line) \in DOMAIN more[n + 1]
    BY <1>1
  <2>. QED  BY <1>1, <2>1 DEF Holds
<1>4. ASSUME NEW i \in 1..n
      PROVE  /\ more[i] # << >>
             /\ \A k \in DOMAIN more[i] : more[i][k].prev = Before(more, i, k)
  <2>1. more[i] = lines[i] /\ (i # 1 => more[i - 1] = lines[i - 1])
    BY <1>1
  <2>2. \A k : Before(more, i, k) = Before(lines, i, k)
    BY <2>1 DEF Before
  <2>3. lines[i] # << >> /\ \A k \in DOMAIN lines[i] : lines[i][k].prev = Before(lines, i, k)
    BY <1>1 DEF OneChain
  <2>. QED  BY <2>1, <2>2, <2>3
<1>5. line # << >> /\ \A k \in DOMAIN line : line[k].prev = Before(more, n + 1, k)
  <2>1. line # << >>
    OBVIOUS
  <2>2. Before(more, n + 1, 1) = LastOf(lines)
    <3>1. CASE n = 0
      <4>1. lines = << >>
        BY <1>0, <3>1, EmptySeq
      <4>2. Before(more, n + 1, 1) = None
        BY <3>1, FirstOfLine
      <4>. QED  BY <4>1, <4>2 DEF LastOf
    <3>2. CASE n # 0
      <4>1. n \in 1..n /\ n + 1 # 1 /\ n + 1 - 1 = n /\ n + 1 \in Nat
        BY <3>2
      <4>2. lines # << >>
        BY <1>0, <3>2, EmptySeq
      <4>3. Before(more, n + 1, 1) = Last(more[n]).id
        BY <3>2, FirstOfLine
      <4>4. more[n] = lines[n]
        BY <1>1, <4>1
      <4>. QED  BY <1>0, <4>1, <4>2, <4>3, <4>4 DEF LastOf
    <3>. QED  BY <1>1, <3>1, <3>2
  <2>3. Before(more, n + 1, 2) = line[1].id
    BY <1>1 DEF Before
  <2>4. \A k \in DOMAIN line : k = 1 \/ (k = 2 /\ Len(line) = 2)
    BY <1>1
  <2>. QED  BY <2>1, <2>2, <2>3, <2>4
<1>6. OneChain(more)
  <2>1. \A i \in DOMAIN more : i \in 1..n \/ i = n + 1
    BY <1>1
  <2>. QED  BY <1>1, <1>4, <1>5, <2>1 DEF OneChain
<1>. QED  BY <1>2, <1>3, <1>6

\* A file that is not written keeps its chain.
LEMMA TrailStays ==
    ASSUME trail' = trail, ChainNeverForks
    PROVE  /\ ChainNeverForks' /\ Tip' = Tip
           /\ \A id : Recorded(id)' = Recorded(id)
BY DEF ChainNeverForks, Before, Tip, Recorded

\* A step of one page that leaves the file alone, seen from all of them.
LEMMA OneEnters ==
    ASSUME TrailInv, page \in [Pages -> Watches], UNCHANGED <<trail, scrap>>,
           NEW p \in Pages, NEW t, page' = [page EXCEPT ![p] = t], EntersOK(t),
           t.pc \in Entering => \A q \in Pages : page[q].pc \in Entering => q = p
    PROVE  TrailInv'
<1>1. /\ ChainNeverForks' /\ Tip' = Tip /\ scrap' = scrap
      /\ \A id : Recorded(id)' = Recorded(id)
  BY TrailStays DEF TrailInv
<1>2. page'[p] = t /\ \A q \in Pages \ {p} : page'[q] = page[q]
  OBVIOUS
<1>3. \A q \in Pages : EntersOK(page[q])' = EntersOK(page'[q])
  BY <1>1 DEF EntersOK
<1>4. \A q \in Pages : EntersOK(page'[q])
  BY <1>2 DEF TrailInv
<1>5. \A q, r \in Pages : page'[q].pc \in Entering /\ page'[r].pc \in Entering => q = r
  BY <1>2 DEF TrailInv
<1>. QED  BY <1>1, <1>3, <1>4, <1>5 DEF TrailInv

\* A step of one page after which none holds the lock or only this one does, seen from
\* all of them.
LEMMA OneWrites ==
    ASSUME TrailInv, page \in [Pages -> Watches], ChainNeverForks',
           \A id : Recorded(id) => Recorded(id)',
           (scrap # NoScrap => scrap.prev = Tip)',
           NEW p \in Pages, NEW t, page' = [page EXCEPT ![p] = t], EntersOK(page[p])',
           \A q \in Pages \ {p} : page[q].pc \notin Entering
    PROVE  TrailInv'
<1>1. \A q \in Pages \ {p} : page'[q] = page[q]
  OBVIOUS
<1>2. ASSUME NEW q \in Pages
      PROVE  EntersOK(page[q])'
  <2>1. CASE q = p
    BY <2>1
  <2>2. CASE q # p
    <3>1. page'[q] = page[q] /\ page[q].pc \notin Entering /\ EntersOK(page[q])
      BY <1>1, <2>2 DEF TrailInv
    <3>. QED  BY <3>1 DEF EntersOK, Entering
  <2>. QED  BY <2>1, <2>2
<1>3. \A q, r \in Pages : page'[q].pc \in Entering /\ page'[r].pc \in Entering => q = r
  BY <1>1
<1>. QED  BY <1>2, <1>3 DEF TrailInv

\* The head that a request reads is the entry that it will follow (_last_entry_hash).
LEMMA HeadIsTip ==
    ASSUME PageInv, TrailInv, Readable
    PROVE  LastHash = IF scrap = NoScrap THEN Tip ELSE scrap.id
<1>1. CASE scrap # NoScrap
  BY <1>1 DEF LastHash
<1>2. CASE scrap = NoScrap
  <2>1. Len(LastLine) <= 1 /\ trail \in Seq(Seq(EntryRecords)) /\ Len(trail) \in Nat
    BY <1>2, LenProperties DEF Readable, NoScrap, PageInv
  <2>2. CASE trail = << >>
    BY <1>2, <2>2 DEF LastHash, LastLine, Tip, LastOf
  <2>3. CASE trail # << >>
    <3>1. Len(trail) \in DOMAIN trail /\ LastLine = trail[Len(trail)]
      BY <2>1, <2>3, EmptySeq, LenProperties DEF LastLine
    <3>2. LastLine \in Seq(EntryRecords) /\ LastLine # << >>
      BY <2>1, <3>1, ElementOfSeq DEF TrailInv, ChainNeverForks
    <3>3. Len(LastLine) = 1
      <4>1. PICK n \in Nat : n = Len(LastLine)
        BY <3>2, LenProperties
      <4>2. n # 0 /\ n <= 1
        BY <2>1, <3>2, <4>1, EmptySeq
      <4>3. n = 1
        BY <4>2
      <4>. QED  BY <4>1, <4>3
    <3>4. Tip = LastLine[1].id
      BY <2>3, <3>1, <3>3 DEF Tip, LastOf, Last
    <3>. QED  BY <1>2, <3>2, <3>4 DEF LastHash
  <2>. QED  BY <2>2, <2>3
<1>. QED  BY <1>1, <1>2

\* What is left of a failed request and what follows it are one line.
LEMMA TwoEntries ==
    ASSUME NEW S, NEW a \in S, NEW b \in S
    PROVE  << >> \o <<b>> = <<b>> /\ <<a>> \o <<b>> = <<a, b>>
<1>1. <<a>> \in Seq(S) /\ <<b>> \in Seq(S) /\ <<a, b>> \in Seq(S)
  OBVIOUS
<1>2. << >> \o <<b>> = <<b>>
  BY <1>1, ConcatEmptySeq
<1>3. /\ <<a>> \o <<b>> \in Seq(S) /\ Len(<<a>> \o <<b>>) = 2
      /\ (<<a>> \o <<b>>)[1] = a /\ (<<a>> \o <<b>>)[2] = b
  BY <1>1, ConcatProperties
<1>4. \A i \in 1..2 : (<<a>> \o <<b>>)[i] = <<a, b>>[i]
  BY <1>3
<1>. QED  BY <1>1, <1>2, <1>3, <1>4, SeqEqual

\* The audit keeps its entries one chain: the head is read, followed and written under
\* one lock, and a repair waits for it (AccessAudit.append, repair_torn_jsonl).
LEMMA AuditKeepsChain ==
    ASSUME PageInv, TrailInv, AuditNext
    PROVE  TrailInv'
<1>1. PICK p \in Pages :
         \/ Visit(p) \/ RepairTrail(p) \/ LockTrail(p) \/ TrailUnreadable(p)
         \/ EnterSome(p) \/ EnterAll(p) \/ EnterFails(p)
  BY DEF AuditNext
<1>2. /\ page \in [Pages -> Watches] /\ page[p] \in Watches /\ EntersOK(page[p])
      /\ trail \in Seq(Seq(EntryRecords)) /\ visits \in Nat
      /\ scrap \in [id : Nat, prev : Nat, whole : BOOLEAN]
  BY DEF PageInv, TrailInv
<1>4. CASE Visit(p)
  <2>. DEFINE t == Asking(page[p])
  <2>1. t.pc = "asking"
    BY <1>2, AskingIsFresh
  <2>2. page' = [page EXCEPT ![p] = t] /\ UNCHANGED <<trail, scrap>>
    BY <1>2, <1>4 DEF Visit
  <2>. HIDE DEF t
  <2>3. EntersOK(t) /\ t.pc \notin Entering
    BY <2>1 DEF EntersOK, Entering, Serving
  <2>. QED  BY <1>2, <2>2, <2>3, OneEnters
<1>5. CASE TrailUnreadable(p) \/ EnterFails(p)
  <2>. DEFINE t == [page[p] EXCEPT !.pc = "away"]
  <2>1. t.pc = "away"
    BY <1>2 DEF Watches
  <2>2. page' = [page EXCEPT ![p] = t] /\ UNCHANGED <<trail, scrap>>
    BY <1>2, <1>5 DEF TrailUnreadable, EnterFails, Refused
  <2>. HIDE DEF t
  <2>3. EntersOK(t) /\ t.pc \notin Entering
    BY <2>1 DEF EntersOK, Entering, Serving
  <2>. QED  BY <1>2, <2>2, <2>3, OneEnters
<1>6. CASE RepairTrail(p)
  <2>. DEFINE t == [page[p] EXCEPT !.pc = "repaired"]
  <2>1. t.pc = "repaired"
    BY <1>2 DEF Watches
  <2>2. page' = [page EXCEPT ![p] = t] /\ trail' = trail /\ scrap' = NoScrap
    BY <1>2, <1>6 DEF RepairTrail
  <2>. HIDE DEF t
  <2>3. \A q \in Pages \ {p} : page[q].pc \notin Entering
    BY <1>6 DEF RepairTrail, TrailUnlocked
  <2>4. /\ ChainNeverForks' /\ (\A id : Recorded(id) => Recorded(id)')
        /\ (scrap # NoScrap => scrap.prev = Tip)'
    BY <2>2, TrailStays DEF TrailInv, NoScrap
  <2>5. EntersOK(page[p])'
    BY <1>2, <2>1, <2>2 DEF EntersOK, Entering, Serving
  <2>. QED  BY <1>2, <2>2, <2>3, <2>4, <2>5, OneWrites
<1>7. CASE LockTrail(p)
  <2>. DEFINE t == [page[p] EXCEPT !.pc = "entering", !.prev = LastHash]
  <2>1. t.pc = "entering" /\ t.prev = LastHash
    BY <1>2 DEF Watches
  <2>2. page' = [page EXCEPT ![p] = t] /\ UNCHANGED <<trail, scrap>>
    BY <1>2, <1>7 DEF LockTrail
  <2>. HIDE DEF t
  <2>3. EntersOK(t)
    BY <1>7, <2>1, HeadIsTip DEF EntersOK, Serving, LockTrail
  <2>4. \A q \in Pages : page[q].pc \notin Entering
    BY <1>7 DEF LockTrail, MayEnter, TrailUnlocked
  <2>. QED  BY <1>2, <2>2, <2>3, <2>4, OneEnters
<1>8. ASSUME page[p].pc \in Entering
      PROVE  \A q \in Pages \ {p} : page[q].pc \notin Entering
  BY <1>8 DEF TrailInv
<1>9. CASE EnterSome(p)
  <2>. DEFINE t == [page[p] EXCEPT !.pc = "writing"]
  <2>1. t.pc = "writing" /\ t.prev = page[p].prev
    BY <1>2 DEF Watches
  <2>2. /\ page' = [page EXCEPT ![p] = t] /\ trail' = trail
        /\ scrap'.prev = page[p].prev /\ page[p].pc = "entering" /\ scrap = NoScrap
    BY <1>2, <1>9 DEF EnterSome
  <2>. HIDE DEF t
  <2>3. page[p].prev = Tip
    BY <1>2, <2>2 DEF EntersOK
  <2>4. /\ ChainNeverForks' /\ (\A id : Recorded(id) => Recorded(id)') /\ Tip' = Tip
        /\ (scrap # NoScrap => scrap.prev = Tip)'
    BY <2>2, <2>3, TrailStays DEF TrailInv
  <2>5. EntersOK(page[p])'
    BY <1>2, <2>1, <2>2, <2>3, <2>4 DEF EntersOK, Serving
  <2>6. \A q \in Pages \ {p} : page[q].pc \notin Entering
    BY <1>8, <2>2 DEF Entering
  <2>. QED  BY <1>2, <2>2, <2>4, <2>5, <2>6, OneWrites
<1>10. CASE EnterAll(p)
  <2>. DEFINE t == [page[p] EXCEPT !.pc = "recorded"]
              entry == Entry(page[p].id, page[p].prev)
              left == Entry(scrap.id, scrap.prev)
              alone == scrap = NoScrap \/ page[p].pc = "writing"
  <2>1. t.pc = "recorded" /\ t.id = page[p].id
    BY <1>2 DEF Watches
  <2>2. page' = [page EXCEPT ![p] = t] /\ scrap' = NoScrap
    BY <1>2, <1>10 DEF EnterAll
  <2>3. /\ entry \in EntryRecords /\ left \in EntryRecords
        /\ entry.id = page[p].id /\ entry.prev = page[p].prev
        /\ left.id = scrap.id /\ left.prev = scrap.prev
    BY <1>2 DEF Entry, EntryRecords, Watches
  <2>4. trail' = Append(trail, (IF alone THEN << >> ELSE <<left>>) \o <<entry>>)
    BY <1>10 DEF EnterAll
  <2>5. page[p].pc \in Entering
    BY <1>10 DEF EnterAll
  <2>. HIDE DEF t, entry, left
  <2>6. PICK line : /\ line = IF alone THEN <<entry>> ELSE <<left, entry>>
                    /\ trail' = Append(trail, line)
    <3>1. << >> \o <<entry>> = <<entry>> /\ <<left>> \o <<entry>> = <<left, entry>>
      BY <2>3, TwoEntries
    <3>. QED  BY <2>4, <3>1
  <2>7. /\ line \in Seq(EntryRecords) /\ Len(line) \in {1, 2} /\ line[Len(line)] = entry
        /\ Len(line) = 2 => line[2].prev = line[1].id
        /\ line[1].prev = Tip
    <3>1. CASE alone
      <4>1. page[p].prev = Tip
        BY <1>2, <2>5, <3>1 DEF EntersOK, Entering
      <4>2. line = <<entry>>
        BY <2>6, <3>1
      <4>. QED  BY <2>3, <4>1, <4>2
    <3>2. CASE ~alone
      <4>1. page[p].prev = scrap.id /\ scrap.prev = Tip
        BY <1>2, <2>5, <3>2 DEF EntersOK, Entering, TrailInv
      <4>2. line = <<left, entry>>
        BY <2>6, <3>2
      <4>. QED  BY <2>3, <4>1, <4>2
    <3>. QED  BY <3>1, <3>2
  <2>8. PICK more : more = trail'
    OBVIOUS
  <2>9. OneChain(trail)
    BY DEF TrailInv, ChainNeverForks, OneChain
  <2>10. /\ OneChain(more) /\ Holds(more, line[Len(line)].id)
         /\ \A id : Holds(trail, id) => Holds(more, id)
    BY <1>2, <2>6, <2>7, <2>8, <2>9, LineChains DEF Tip
  <2>11. ChainNeverForks'
    BY <2>8, <2>10 DEF ChainNeverForks, OneChain
  <2>12. \A id : Recorded(id) => Recorded(id)'
    BY <2>8, <2>10 DEF Recorded, Holds
  <2>13. Recorded(page[p].id)'
    <3>1. page'[p].id = line[Len(line)].id
      BY <1>2, <2>1, <2>2, <2>3, <2>7
    <3>. QED  BY <2>8, <2>10, <3>1 DEF Recorded, Holds
  <2>14. EntersOK(page[p])'
    <3>1. page'[p].pc = "recorded"
      BY <1>2, <2>1, <2>2
    <3>. QED  BY <2>13, <3>1 DEF EntersOK
  <2>15. (scrap # NoScrap => scrap.prev = Tip)'
    BY <2>2 DEF NoScrap
  <2>. QED  BY <1>2, <1>8, <2>2, <2>5, <2>11, <2>12, <2>14, <2>15, OneWrites
<1>. QED  BY <1>1, <1>4, <1>5, <1>6, <1>7, <1>9, <1>10

\* A page that is served stays recorded, and a new request begins outside the audit's
\* lock (stream, EventSource).
LEMMA StreamKeepsChain ==
    ASSUME PageInv, TrailInv,
           \E p \in Pages :
              TailStart(p) \/ TailRest(p) \/ Breaks(p) \/ StreamEnds(p) \/ PollAgain(p)
    PROVE  TrailInv'
<1>1. PICK p \in Pages :
         TailStart(p) \/ TailRest(p) \/ Breaks(p) \/ StreamEnds(p) \/ PollAgain(p)
  OBVIOUS
<1>2. /\ page \in [Pages -> Watches] /\ page[p] \in Watches /\ EntersOK(page[p])
      /\ visits \in Nat
  BY DEF PageInv, TrailInv
<1>3. UNCHANGED <<trail, scrap>>
  BY <1>1 DEF TailStart, TailRest, Breaks, StreamEnds, PollAgain, OthersUnchanged
<1>4. CASE Breaks(p)
  <2>. DEFINE s == [page[p] EXCEPT !.len = 0, !.frag = None]
              t == Asking(s)
  <2>1. s \in Watches
    BY <1>2 DEF Watches, None
  <2>2. page' = [page EXCEPT ![p] = t]
    BY <1>4 DEF Breaks
  <2>. HIDE DEF s
  <2>3. t.pc = "asking"
    BY <1>2, <2>1, AskingIsFresh
  <2>. HIDE DEF t
  <2>4. EntersOK(t) /\ t.pc \notin Entering
    BY <2>3 DEF EntersOK, Entering, Serving
  <2>. QED  BY <1>2, <1>3, <2>2, <2>4, OneEnters
<1>5. CASE TailStart(p) \/ TailRest(p) \/ StreamEnds(p) \/ PollAgain(p)
  <2>1. /\ page[p].pc \in Serving
        /\ page'[p].id = page[p].id /\ page'[p].pc \in Serving
    BY <1>2, <1>5 DEF TailStart, TailRest, StreamEnds, PollAgain, Serving, Watches
  <2>2. page' = [page EXCEPT ![p] = page'[p]]
    BY <1>2, <1>5 DEF TailStart, TailRest, StreamEnds, PollAgain
  <2>3. PICK t : t = page'[p]
    OBVIOUS
  <2>4. EntersOK(t) /\ t.pc \notin Entering
    BY <1>2, <2>1, <2>3 DEF EntersOK, Entering, Serving
  <2>. QED  BY <1>2, <1>3, <2>2, <2>3, <2>4, OneEnters
<1>. QED  BY <1>1, <1>4, <1>5

\* Every step of the system keeps the chain.
LEMMA ChainStep ==
    ASSUME Inv, TrailInv, [Next]_vars
    PROVE  TrailInv'
<1>0. PageInv
  BY DEF Inv
<1>1. ASSUME UNCHANGED auditVars
      PROVE  TrailInv'
  <2>1. UNCHANGED <<trail, scrap, page>>
    BY <1>1 DEF auditVars
  <2>2. ChainNeverForks' /\ Tip' = Tip /\ \A id : Recorded(id)' = Recorded(id)
    BY <2>1, TrailStays DEF TrailInv
  <2>. QED  BY <2>1, <2>2 DEF TrailInv, EntersOK
<1>2. CASE JournalNext /\ UNCHANGED auditVars
  BY <1>1, <1>2
<1>3. CASE UNCHANGED vars
  BY <1>1, <1>3 DEF vars
<1>. QED  BY <1>0, <1>2, <1>3, AuditKeepsChain, StreamKeepsChain DEF Next

-----------------------------------------------------------------------------
\* Inv holds at the start.
LEMMA Initially ==
    ASSUME Init PROVE Inv
<1>. USE DEF Init
<1>0. << >> \in Seq(Lines) /\ << >> \in Seq(Seq(EntryRecords)) /\ Len(<< >>) = 0
  OBVIOUS
<1>1. WriterInv
  <2>1. /\ log = << >> /\ torn = 0 /\ begun = 0
        /\ \A w \in Writers : writer[w].pc = "idle"
        /\ writer \in [Writers -> [pc : {"idle", "locked", "seeked"}, id : Nat, at : Nat]]
    BY DEF JournalInit, AtRest, None
  <2>. QED  BY <1>0, <2>1 DEF WriterInv, LinesWhole
<1>2. ReaderInv
  <2>1. NoRead \in Reads /\ NoRead.pc = "idle"
    BY <1>0 DEF NoRead, Reads, None
  <2>2. ReadOK(log, NoRead)
    BY <2>1 DEF ReadOK
  <2>. QED  BY <1>0, <2>1, <2>2 DEF JournalInit, ReaderInv
<1>3. PageInv
  <2>1. Away \in Watches /\ Away.pc = "away" /\ Away.shown = << >> /\ Away.offset = 0
    BY <1>0 DEF Away, Watches, None
  <2>2. Len(log) = 0
    BY <1>0 DEF JournalInit
  <2>3. WatchOK(log, Away)
    BY <1>0, <2>1, <2>2 DEF WatchOK, Pictures, Follows
  <2>4. NoScrap \in [id : Nat, prev : Nat, whole : BOOLEAN]
    BY DEF NoScrap, None
  <2>. HIDE DEF Init
  <2>5. /\ page = [p \in Pages |-> Away] /\ trail = << >> /\ scrap = NoScrap /\ visits = 0
    BY DEF Init, AuditInit
  <2>. QED  BY <1>0, <2>1, <2>3, <2>4, <2>5 DEF PageInv
<1>. QED  BY <1>1, <1>2, <1>3 DEF Inv

\* Every step keeps Inv, and the lines of the file.
LEMMA InvStep ==
    ASSUME Inv, [Next]_vars
    PROVE  Inv' /\ LogGrew
<1>0. WriterInv /\ ReaderInv /\ PageInv /\ log \in Seq(Lines)
  BY DEF Inv, WriterInv
<1>1. ASSUME LogGrew, UNCHANGED auditVars
      PROVE  PageInv'
  <2>1. UNCHANGED <<trail, scrap, page, visits>>
    BY <1>1 DEF auditVars
  <2>. QED  BY <1>0, <1>1, <2>1, WatchStays DEF PageInv
<1>2. CASE JournalNext /\ UNCHANGED auditVars
  <2>1. CASE \E w \in Writers :
                Open(w) \/ Repair(w) \/ WriteSome(w) \/ WriteAll(w) \/ WriterDies(w)
    <3>1. WriterInv' /\ LogGrew
      BY <1>0, <2>1, WriterStep
    <3>2. UNCHANGED <<thread, cache>>
      BY <2>1 DEF Open, Repair, WriteSome, WriteAll, WriterDies
    <3>3. ReaderInv'
      BY <1>0, <3>1, <3>2, ReaderStep
    <3>. QED  BY <1>1, <1>2, <3>1, <3>3 DEF Inv
  <2>2. CASE \E r \in Threads :
                ReadStart(r) \/ ReadRest(r) \/ Parse(r) \/ Malformed(r) \/ ReadDone(r)
    <3>1. UNCHANGED <<log, torn, writer, begun>>
      BY <2>2 DEF ReadStart, ReadRest, Parse, Malformed, ReadDone
    <3>2. WriterInv' /\ LogGrew
      BY <1>0, <3>1, WriterStep
    <3>3. ReaderInv'
      BY <1>0, <2>2, <3>1, <3>2, ReaderStep
    <3>. QED  BY <1>1, <1>2, <3>2, <3>3 DEF Inv
  <2>. QED  BY <1>2, <2>1, <2>2 DEF JournalNext
<1>3. ASSUME UNCHANGED <<log, torn, writer, begun, cache, thread>>
      PROVE  WriterInv' /\ ReaderInv' /\ LogGrew
  <2>1. WriterInv' /\ LogGrew
    BY <1>0, <1>3, WriterStep
  <2>. QED  BY <1>0, <1>3, <2>1, ReaderStep
<1>4. CASE AuditNext
  <2>1. UNCHANGED <<log, torn, writer, begun, cache, thread>>
    BY <1>4 DEF AuditNext, Visit, RepairTrail, LockTrail, TrailUnreadable, EnterSome, EnterAll,
       EnterFails, journalVars
  <2>. QED  BY <1>0, <1>3, <1>4, <2>1, AuditStep DEF Inv
<1>5. CASE \E p \in Pages :
              TailStart(p) \/ TailRest(p) \/ Breaks(p) \/ StreamEnds(p) \/ PollAgain(p)
  <2>1. UNCHANGED <<log, torn, writer, begun, cache, thread>>
    BY <1>5 DEF TailStart, TailRest, Breaks, StreamEnds, PollAgain, OthersUnchanged, journalVars
  <2>. QED  BY <1>0, <1>3, <1>5, <2>1, StreamStep DEF Inv
<1>6. CASE UNCHANGED vars
  <2>1. UNCHANGED auditVars /\ UNCHANGED <<log, torn, writer, begun, cache, thread>>
    BY <1>6 DEF vars, journalVars
  <2>. QED  BY <1>1, <1>3, <2>1 DEF Inv
<1>. QED  BY <1>2, <1>4, <1>5, <1>6 DEF Next

\* The invariant of the proofs.
LEMMA Invariant == Spec => []Inv
<1>1. Init => Inv
  BY Initially
<1>2. Inv /\ [Next]_vars => Inv'
  BY InvStep
<1>. QED  BY <1>1, <1>2, PTL DEF Spec

-----------------------------------------------------------------------------
\* Every complete line of the journal is an event, whichever writers die in the middle
\* of theirs (append_fsync_line).
THEOREM LinesStayWhole == Spec => []LinesWhole
<1>1. Inv => LinesWhole
  BY DEF Inv, WriterInv
<1>. QED  BY <1>1, Invariant, PTL

\* No step of a writer, a repair, a reader or a crash changes or removes a complete line
\* (append_fsync_line, _repair_torn_tail).
THEOREM LinesStay == Spec => LogOnlyGrows
<1>1. ASSUME Inv, [Next]_vars
      PROVE  Prefix(log', Len(log)) = log
  <2>1. LogGrew /\ log \in Seq(Lines)
    BY <1>1, InvStep DEF Inv, WriterInv
  <2>2. Len(log) \in Nat /\ Len(log') \in Nat /\ log' \in Seq(Lines) /\ Len(log) <= Len(log')
    BY <2>1, LenProperties DEF LogGrew
  <2>3. \A i \in 1..Len(log) : log'[i] \in Lines /\ log'[i] = log[i]
    BY <2>1, ElementOfSeq DEF LogGrew
  <2>4. /\ SubSeq(log', 1, Len(log)) \in Seq(Lines)
        /\ Len(SubSeq(log', 1, Len(log))) = IF 1 <= Len(log) THEN Len(log) - 1 + 1 ELSE 0
        /\ \A i \in 1..Len(log) - 1 + 1 : SubSeq(log', 1, Len(log))[i] = log'[1 + i - 1]
    BY <2>2, <2>3, SubSeqProperties
  <2>5. Len(SubSeq(log', 1, Len(log))) = Len(log)
    BY <2>2, <2>4
  <2>6. ASSUME NEW i \in 1..Len(log)
        PROVE  SubSeq(log', 1, Len(log))[i] = log[i]
    <3>1. i \in 1..Len(log) - 1 + 1 /\ 1 + i - 1 = i
      BY <2>2
    <3>. QED  BY <2>3, <2>4, <3>1
  <2>7. SubSeq(log', 1, Len(log)) = log
    BY <2>1, <2>4, <2>5, <2>6, SeqEqual
  <2>. QED  BY <2>7 DEF Prefix
<1>2. Inv /\ [Next]_vars => [Prefix(log', Len(log)) = log]_log
  BY <1>1
<1>. QED  BY <1>2, Invariant, PTL DEF Spec, LogOnlyGrows

\* A read returns what the file said while it was read, for any number of threads that
\* share the cache (read_events).
THEOREM ReadsStayTrue == Spec => []ReadsAreTrue
<1>1. Inv => ReadsAreTrue
  <2>1. SUFFICES ASSUME Inv, NEW r \in Threads, thread[r].pc = "returned"
                 PROVE  LET events == thread[r].events
                            len == thread[r].len
                        IN  /\ len <= Len(events) /\ Len(events) <= Len(log)
                            /\ \A i \in DOMAIN events :
                                  events[i] = log[i] \/ (i = len + 1 /\ events[i][1] = thread[r].frag)
    BY DEF ReadsAreTrue
  <2>2. SplicedAt(log, thread[r].events, thread[r].len, thread[r].frag)
        /\ thread[r].events \in Seq(Lines)
    BY <2>1 DEF Inv, ReaderInv, Reads, ReadOK
  <2>3. DOMAIN thread[r].events = 1..Len(thread[r].events)
    BY <2>2, LenProperties
  <2>. QED  BY <2>2, <2>3 DEF SplicedAt
<1>. QED  BY <1>1, Invariant, PTL

\* Every page is sent the journal from its first event, in order, none missing and none
\* twice (tail_events, the replay of a broken stream), and its timeline has a line of each
\* but those of the kinds it has no schema for (parseRunEvent).
THEOREM PagesShowLog == Spec => []PageShowsLog
<1>1. Inv => PageShowsLog
  <2>1. SUFFICES ASSUME Inv, NEW p \in Pages
                 PROVE  /\ Len(page[p].shown) <= Len(log)
                        /\ \A i \in DOMAIN page[p].shown :
                              /\ page[p].shown[i][2] = log[i][2]
                              /\ Whole(page[p].shown[i]) =>
                                    (page[p].shown[i][3] = "line" <=>
                                        i = 1 \/ log[i][2] \notin Silent)
    BY DEF PageShowsLog
  <2>2. Pictures(log, page[p].shown) /\ page[p].shown \in Seq(Sent)
    BY <2>1 DEF Inv, PageInv, WatchOK, Watches
  <2>3. DOMAIN page[p].shown = 1..Len(page[p].shown)
    BY <2>2, LenProperties
  <2>. QED  BY <2>2, <2>3 DEF Pictures, Follows, TakenAs
<1>. QED  BY <1>1, Invariant, PTL

-----------------------------------------------------------------------------
\* Each event is on one line of the journal, in the order the appends were begun in.
Ordered(lines) == \A i, j \in DOMAIN lines : i < j => lines[i][2] < lines[j][2]

EventsAreOnce == Ordered(log)

\* The writer that holds the lock writes the event that was begun last.
OrderInv ==
    /\ EventsAreOnce
    /\ \A i \in DOMAIN log : log[i][2] <= begun
    /\ \A w \in Writers : writer[w].pc # "idle" =>
          writer[w].id = begun /\ \A i \in DOMAIN log : log[i][2] < begun

\* One event at a time, the newest there is.
AppendsTheNewest == [][log' = Append(log, Line(begun, begun))]_log

LEMMA OnlyWriteAllAppends ==
    ASSUME Inv, [Next]_vars, log' # log
    PROVE  \E w \in Writers : WriteAll(w)
BY DEF Next, JournalNext, Open, Repair, WriteSome, WriterDies, ReadStart, ReadRest, Parse,
       Malformed, ReadDone, AuditNext, Visit, RepairTrail, LockTrail, TrailUnreadable,
       EnterSome, EnterAll, EnterFails, TailStart, TailRest, Breaks, StreamEnds, PollAgain,
       OthersUnchanged, journalVars, vars

LEMMA NewestAppended ==
    ASSUME Inv, OrderInv, NEW w \in Writers, WriteAll(w)
    PROVE  /\ log' = Append(log, Line(begun, begun)) /\ begun' = begun
           /\ \A x \in Writers : writer'[x].pc = "idle"
           /\ \A i \in DOMAIN log : log[i][2] < begun
<1>1. writer[w].pc = "seeked" /\ writer[w].id = begun
  BY DEF OrderInv, WriteAll
<1>2. log' = Append(log, Line(begun, begun))
  BY <1>1, WriteAllAppends DEF Inv
<1>3. \A x \in Writers \ {w} : writer[x].pc = "idle"
  BY <1>1 DEF Inv, WriterInv
<1>4. writer' = [writer EXCEPT ![w] = AtRest] /\ begun' = begun
  BY DEF WriteAll
<1>5. \A x \in Writers : writer'[x].pc = "idle"
  BY <1>3, <1>4 DEF Inv, WriterInv, AtRest
<1>. QED  BY <1>1, <1>2, <1>4, <1>5 DEF OrderInv

LEMMA OrderStep == Inv /\ OrderInv /\ [Next]_vars => OrderInv'
<1>. SUFFICES ASSUME Inv, OrderInv, [Next]_vars PROVE OrderInv'
  OBVIOUS
<1>1. begun \in Nat /\ log \in Seq(Lines)
  BY DEF Inv, WriterInv
<1>2. CASE \E w \in Writers : WriteAll(w)
  <2>1. /\ log' = Append(log, Line(begun, begun)) /\ begun' = begun
        /\ \A x \in Writers : writer'[x].pc = "idle"
        /\ \A i \in DOMAIN log : log[i][2] < begun
    BY <1>2, NewestAppended
  <2>2. Line(begun, begun) \in Lines /\ Line(begun, begun)[2] = begun
    BY <1>1 DEF Line, Lines
  <2>3. PICK e \in Lines : e = Line(begun, begun)
    BY <2>2
  <2>4. /\ Len(log) \in Nat /\ DOMAIN log = 1..Len(log) /\ DOMAIN log' = 1..Len(log) + 1
        /\ \A i \in 1..Len(log) : log'[i] = log[i] /\ log[i] \in Lines
        /\ log'[Len(log) + 1] = e
    BY <1>1, <2>1, <2>3, LenProperties, AppendProperties, ElementOfSeq
  <2>5. \A i \in 1..Len(log) : log[i][2] \in Nat
    BY <2>4 DEF Lines
  <2>6. \A i \in DOMAIN log' : log'[i][2] <= begun
    BY <1>1, <2>1, <2>2, <2>3, <2>4, <2>5
  <2>7. EventsAreOnce'
    <3>1. SUFFICES ASSUME NEW i \in DOMAIN log', NEW j \in DOMAIN log', i < j
                   PROVE  log'[i][2] < log'[j][2]
      BY DEF EventsAreOnce, Ordered
    <3>2. i \in 1..Len(log) /\ log'[i] = log[i]
      BY <2>4, <3>1
    <3>3. CASE j = Len(log) + 1
      BY <2>1, <2>2, <2>3, <2>4, <3>2, <3>3
    <3>4. CASE j # Len(log) + 1
      <4>1. j \in 1..Len(log) /\ log'[j] = log[j]
        BY <2>4, <3>4
      <4>. QED  BY <2>4, <3>1, <3>2, <4>1 DEF OrderInv, EventsAreOnce, Ordered
    <3>. QED  BY <3>3, <3>4
  <2>. QED  BY <2>1, <2>6, <2>7 DEF OrderInv
<1>3. CASE \E w \in Writers : Open(w)
  <2>1. PICK w \in Writers : Open(w)
    BY <1>3
  <2>2. /\ log' = log /\ begun' = begun + 1
        /\ writer' = [writer EXCEPT ![w] = [pc |-> "locked", id |-> begun + 1, at |-> 0]]
        /\ \A x \in Writers : writer[x].pc = "idle"
    BY <2>1 DEF Open, MayLock, Unlocked
  <2>3. \A x \in Writers : writer'[x].pc # "idle" => writer'[x].id = begun'
    BY <2>2 DEF Inv, WriterInv
  <2>4. \A i \in DOMAIN log : log[i][2] \in Nat
    BY <1>1, ElementOfSeq, LenProperties DEF Lines
  <2>5. \A i \in DOMAIN log : log[i][2] < begun + 1
    BY <1>1, <2>4 DEF OrderInv
  <2>. QED  BY <1>1, <2>2, <2>3, <2>4, <2>5 DEF OrderInv, EventsAreOnce
<1>4. CASE ~\E w \in Writers : WriteAll(w) \/ Open(w)
  <2>1. log' = log
    BY <1>4, OnlyWriteAllAppends
  <2>2. begun' = begun
    BY <1>4 DEF Next, JournalNext, Repair, WriteSome, WriterDies, ReadStart, ReadRest, Parse,
       Malformed, ReadDone, AuditNext, Visit, RepairTrail, LockTrail, TrailUnreadable,
       EnterSome, EnterAll, EnterFails, TailStart, TailRest, Breaks, StreamEnds, PollAgain,
       OthersUnchanged, journalVars, vars
  <2>3. \A x \in Writers : writer'[x].pc # "idle" =>
            writer[x].pc # "idle" /\ writer'[x].id = writer[x].id
    <3>1. CASE \E w \in Writers : Repair(w) \/ WriterDies(w)
      BY <3>1 DEF Inv, WriterInv, Repair, WriterDies, AtRest
    <3>2. CASE ~\E w \in Writers : Repair(w) \/ WriterDies(w)
      <4>1. writer' = writer
        BY <1>4, <3>2 DEF Next, JournalNext, WriteSome, ReadStart, ReadRest, Parse,
           Malformed, ReadDone, AuditNext, Visit, RepairTrail, LockTrail, TrailUnreadable,
           EnterSome, EnterAll, EnterFails, TailStart, TailRest, Breaks, StreamEnds, PollAgain,
           OthersUnchanged, journalVars, vars
      <4>. QED  BY <4>1
    <3>. QED  BY <3>1, <3>2
  <2>. QED  BY <2>1, <2>2, <2>3 DEF OrderInv, EventsAreOnce
<1>. QED  BY <1>2, <1>3, <1>4

LEMMA OrderInvariant == Spec => []OrderInv
<1>1. Init => OrderInv
  BY DEF Init, JournalInit, OrderInv, EventsAreOnce, Ordered, AtRest
<1>2. Inv /\ OrderInv /\ [Next]_vars => OrderInv'
  BY OrderStep
<1>. QED  BY <1>1, <1>2, Invariant, PTL DEF Spec

\* The journal is a log to which events are only appended, one at a time: of the appends
\* that were begun, in their order, each is there once or, if its writer died, not at all
\* (append_fsync_line's lock, the repair and the write at the end).
THEOREM EventsStayOnce == Spec => []EventsAreOnce /\ AppendsTheNewest
<1>1. OrderInv => EventsAreOnce
  BY DEF OrderInv
<1>2. Inv /\ OrderInv /\ [Next]_vars => [log' = Append(log, Line(begun, begun))]_log
  BY OnlyWriteAllAppends, NewestAppended
<1>. QED  BY <1>1, <1>2, Invariant, OrderInvariant, PTL DEF Spec, AppendsTheNewest

\* So is every page sent it: it has no event twice and none before an earlier one, over
\* any number of breaks and replays (tail_events, the page's timeline).
PagesShowOnce == \A p \in Pages : Ordered(page[p].shown)

THEOREM EventsAreShownOnce == Spec => []PagesShowOnce
<1>1. ASSUME Inv, OrderInv, NEW p \in Pages PROVE Ordered(page[p].shown)
  <2>1. Follows(log, page[p].shown) /\ page[p].shown \in Seq(Sent) /\ log \in Seq(Lines)
    BY <1>1 DEF Inv, WriterInv, PageInv, WatchOK, Watches, Pictures
  <2>2. /\ DOMAIN page[p].shown = 1..Len(page[p].shown) /\ DOMAIN log = 1..Len(log)
        /\ Len(log) \in Nat /\ Len(page[p].shown) \in Nat
    BY <2>1, LenProperties
  <2>3. \A i \in 1..Len(page[p].shown) :
            i \in DOMAIN log /\ page[p].shown[i][2] = log[i][2]
    BY <2>1, <2>2 DEF Follows
  <2>. QED  BY <1>1, <2>2, <2>3 DEF OrderInv, EventsAreOnce, Ordered
<1>2. Inv /\ OrderInv => PagesShowOnce
  BY <1>1 DEF PagesShowOnce
<1>. QED  BY <1>2, Invariant, OrderInvariant, PTL

-----------------------------------------------------------------------------
\* Nothing is recorded and nobody asks at the start, and every step keeps the chain.
LEMMA TrailInvariant == Spec => []TrailInv
<1>1. Init => TrailInv
  <2>1. SUFFICES ASSUME AuditInit PROVE TrailInv
    BY DEF Init
  <2>2. trail = << >> /\ scrap = NoScrap /\ \A p \in Pages : page[p].pc = "away"
    BY <2>1 DEF AuditInit, Away
  <2>3. ChainNeverForks
    BY <2>2 DEF ChainNeverForks
  <2>. QED  BY <2>2, <2>3 DEF TrailInv, EntersOK, Entering, Serving
<1>2. Inv /\ TrailInv /\ [Next]_vars => TrailInv'
  BY ChainStep
<1>. QED  BY <1>1, <1>2, Invariant, PTL DEF Spec

\* The entries of the audit are one chain, for any number of requests, whichever of them
\* fail and whoever repairs what they leave (AccessAudit.append), whatever line they are on.
THEOREM AuditNeverForks == Spec => []ChainNeverForks
<1>1. TrailInv => ChainNeverForks
  BY DEF TrailInv
<1>. QED  BY <1>1, TrailInvariant, PTL

\* No page is served whose request is not in the audit (AccessAudit.append fails closed).
THEOREM ViewsStayRecorded == Spec => []ViewsAreRecorded
<1>1. TrailInv => ViewsAreRecorded
  BY DEF TrailInv, EntersOK, ViewsAreRecorded
<1>. QED  BY <1>1, TrailInvariant, PTL
=============================================================================
