---------------------------- MODULE JournalFile ----------------------------
(***************************************************************************)
(* The journal of a run as a file: append_fsync_line by any process, and   *)
(* read_events by the threads of one, which share a cache of what they     *)
(* have parsed.  The file is its complete lines and perhaps a fragment at  *)
(* the end, what a writer that died, or is at work, has left there.        *)
(*                                                                         *)
(* Readers take no lock, and reading to the end of a file takes two calls: *)
(* a fragment read by the first may be gone at the second, and another     *)
(* line in its place.  What was read then is a splice of the two.          *)
(***************************************************************************)
EXTENDS Naturals, Sequences

CONSTANTS
    Writers,        \* processes that append
    Threads,        \* threads that read
    LastEvent,      \* events a run has: the last one is run_finished
    MaxFaults       \* bound: writers that die, requests that fail

ASSUME JournalConstants == {LastEvent, MaxFaults} \subseteq Nat

VARIABLES
    log,            \* complete lines: <<front, back>>, the events they begin and end with
    torn,           \* the event a fragment at the end begins, or None
    writer,         \* [pc, id, at] of each writer
    begun,          \* appends begun
    cache,          \* _ParsedPrefix: [bytes, events]
    thread,         \* [pc, len, frag, snap, events] of each thread
    faults

journalVars == <<log, torn, writer, begun, cache, thread, faults>>

None == 0

Line(front, back) == <<front, back>>

Whole(line) == line[1] = line[2]

(***************************************************************************)
(* append_fsync_line                                                       *)
(***************************************************************************)

AtRest == [pc |-> "idle", id |-> None, at |-> 0]

Unlocked == \A w \in Writers : writer[w].pc = "idle"

\* flock
MayLock == Unlocked

\* each append is an event of its own: one that is made again has another time in it
Open(w) ==
    /\ writer[w].pc = "idle" /\ MayLock /\ Len(log) < LastEvent
    /\ begun' = begun + 1
    /\ writer' = [writer EXCEPT ![w] = [pc |-> "locked", id |-> begun + 1, at |-> 0]]
    /\ UNCHANGED <<log, torn, cache, thread, faults>>

Repaired(fragment) == None

\* _repair_torn_tail, and a seek to the end
Repair(w) ==
    /\ writer[w].pc = "locked"
    /\ torn' = Repaired(torn)
    /\ writer' = [writer EXCEPT ![w].pc = "seeked", ![w].at = Len(log)]
    /\ UNCHANGED <<log, begun, cache, thread, faults>>

WriteSome(w) ==
    /\ writer[w].pc = "seeked" /\ torn = None
    /\ torn' = writer[w].id
    /\ UNCHANGED <<log, writer, begun, cache, thread, faults>>

\* the bytes go where the writer seeked to, after any fragment there
WriteAll(w) ==
    /\ writer[w].pc = "seeked"
    /\ LET id == writer[w].id
           line == Line(IF torn = None THEN id ELSE torn, id)
           after == SubSeq(log, writer[w].at + 2, Len(log))
       IN  log' = SubSeq(log, 1, writer[w].at) \o <<line>> \o after
    /\ torn' = None
    /\ writer' = [writer EXCEPT ![w] = AtRest]
    /\ UNCHANGED <<begun, cache, thread, faults>>

\* the lock goes with the process
WriterDies(w) ==
    /\ writer[w].pc # "idle" /\ faults < MaxFaults
    /\ writer' = [writer EXCEPT ![w] = AtRest]
    /\ faults' = faults + 1
    /\ UNCHANGED <<log, torn, begun, cache, thread>>

(***************************************************************************)
(* reading                                                                 *)
(***************************************************************************)

\* the lines read by two calls: the first met len lines and frag, the second goes on
Read(len, frag) ==
    IF frag = None \/ Len(log) = len \/ log[len + 1][1] = frag
    THEN log ELSE [log EXCEPT ![len + 1] = Line(frag, @[2])]

From(lines, n) == SubSeq(lines, n + 1, Len(lines))

Prefix(lines, n) == SubSeq(lines, 1, n)

NoRead == [pc |-> "idle", len |-> 0, frag |-> None, snap |-> << >>, events |-> << >>]

ReadStart(r) ==
    /\ thread[r].pc = "idle"
    /\ thread' = [thread EXCEPT ![r] =
                     [NoRead EXCEPT !.pc = "reading", !.len = Len(log), !.frag = torn]]
    /\ UNCHANGED <<log, torn, writer, begun, cache, faults>>

ReadRest(r) ==
    /\ thread[r].pc = "reading"
    /\ thread' = [thread EXCEPT ![r].pc = "parsing",
                                ![r].snap = Read(thread[r].len, thread[r].frag)]
    /\ UNCHANGED <<log, torn, writer, begun, cache, faults>>

PrefixLongEnough(snap) == Len(snap) >= Len(cache.bytes)

\* the cached prefix is as long, and hashes the same
PrefixIntact(snap) ==
    Len(snap) >= Len(cache.bytes) /\ Prefix(snap, Len(cache.bytes)) = cache.bytes

Digested(snap) == snap

\* parse what the cache does not hold, and cache it with the hash of the bytes it was
\* parsed from
Parse(r) ==
    /\ thread[r].pc = "parsing"
    /\ LET snap == thread[r].snap
           events == IF PrefixIntact(snap)
                     THEN cache.events \o From(snap, Len(cache.bytes)) ELSE snap
       IN  /\ cache' = [bytes |-> Digested(snap), events |-> events]
           /\ thread' = [thread EXCEPT ![r].pc = "returned", ![r].events = events]
    /\ UNCHANGED <<log, torn, writer, begun, faults>>

\* a splice that is no event: the read fails, and caches nothing
Malformed(r) ==
    /\ thread[r].pc = "parsing"
    /\ LET snap == thread[r].snap
           start == IF PrefixIntact(snap) THEN Len(cache.bytes) ELSE 0
       IN  \E i \in start + 1..Len(snap) : ~Whole(snap[i])
    /\ thread' = [thread EXCEPT ![r] = NoRead]
    /\ UNCHANGED <<log, torn, writer, begun, cache, faults>>

ReadDone(r) ==
    /\ thread[r].pc = "returned"
    /\ thread' = [thread EXCEPT ![r] = NoRead]
    /\ UNCHANGED <<log, torn, writer, begun, cache, faults>>

JournalInit ==
    /\ log = << >> /\ torn = None /\ begun = 0 /\ faults = 0
    /\ writer = [w \in Writers |-> AtRest]
    /\ cache = [bytes |-> << >>, events |-> << >>]
    /\ thread = [r \in Threads |-> NoRead]

JournalNext ==
    \/ \E w \in Writers : Open(w) \/ Repair(w) \/ WriteSome(w) \/ WriteAll(w) \/ WriterDies(w)
    \/ \E r \in Threads : ReadStart(r) \/ ReadRest(r) \/ Parse(r) \/ Malformed(r) \/ ReadDone(r)

-----------------------------------------------------------------------------
\* properties

\* No line that is complete is malformed (append_fsync_line): a fragment left by a
\* writer that died never runs into the line of the next one, which would make every
\* later read of the run fail.
LinesWhole == \A i \in DOMAIN log : Whole(log[i])

\* A complete line is never changed or removed (the repair truncates, the writers
\* seek and write, each in its own process): the fold of a run never loses an event.
LogOnlyGrows == [][Prefix(log', Len(log)) = log]_log

\* A read returns what the file said while it was read (read_events): every event
\* that was complete when it began, none from an earlier read that the file did not
\* confirm.  Only the line after those may be a splice, and it is not kept.
ReadsAreTrue ==
    \A r \in Threads : thread[r].pc = "returned" =>
        LET events == thread[r].events
            len == thread[r].len
        IN  /\ len <= Len(events) /\ Len(events) <= Len(log)
            /\ \A i \in DOMAIN events :
                  events[i] = log[i] \/ (i = len + 1 /\ events[i][1] = thread[r].frag)
=============================================================================
