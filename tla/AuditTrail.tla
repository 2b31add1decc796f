----------------------------- MODULE AuditTrail -----------------------------
(***************************************************************************)
(* The access audit of a matter: a file of entries, each with the hash of  *)
(* the one before.  A request repairs the file under a lock, then takes    *)
(* the lock again to read the head and append.  A fragment left in between *)
(* is read with the rest: it stops the request, unless all it lacks is its *)
(* newline; then it counts as the head, and the new entry goes on its line.*)
(***************************************************************************)
EXTENDS JournalFile, SequencesExt

CONSTANTS
    Pages,          \* pages that ask for the stream of the run
    MaxVisits       \* bound: requests

ASSUME AuditConstants == MaxVisits \in Nat

VARIABLES
    trail,          \* complete lines, each a sequence of entries [id, prev]
    scrap,          \* the fragment at the end: [id, prev, whole], or NoScrap
    page,           \* [pc, id, prev, offset, len, frag, shown] of each page
    visits          \* requests made

auditVars == <<trail, scrap, page, visits>>

NoScrap == [id |-> None, prev |-> None, whole |-> FALSE]

Entry(id, prev) == [id |-> id, prev |-> prev]

Away ==
    [pc |-> "away", id |-> None, prev |-> None, offset |-> 0, len |-> 0, frag |-> None,
     shown |-> << >>]

\* holding the lock of the append
Entering == {"entering", "writing"}

TrailUnlocked == \A p \in Pages : page[p].pc \notin Entering

LockNotTaken == TRUE

\* flock
MayEnter == TrailUnlocked

Asking(state) == [state EXCEPT !.pc = "asking", !.id = visits + 1, !.offset = 0]

Visit(p) ==
    /\ page[p].pc = "away" /\ visits < MaxVisits
    /\ visits' = visits + 1
    /\ page' = [page EXCEPT ![p] = Asking(@)]
    /\ UNCHANGED <<trail, scrap, journalVars>>

\* repair_torn_jsonl
RepairTrail(p) ==
    /\ page[p].pc = "asking" /\ TrailUnlocked
    /\ scrap' = NoScrap
    /\ page' = [page EXCEPT ![p].pc = "repaired"]
    /\ UNCHANGED <<trail, visits, journalVars>>

LastLine == IF trail = << >> THEN << >> ELSE trail[Len(trail)]

Readable == scrap.whole \/ (scrap = NoScrap /\ Len(LastLine) <= 1)

\* _last_entry_hash
LastHash ==
    IF scrap # NoScrap THEN scrap.id
    ELSE IF LastLine = << >> THEN None ELSE LastLine[1].id

LockTrail(p) ==
    /\ page[p].pc = "repaired" /\ MayEnter
    /\ Readable
    /\ page' = [page EXCEPT ![p].pc = "entering", ![p].prev = LastHash]
    /\ UNCHANGED <<trail, scrap, visits, journalVars>>

\* the last line is no entry: the request ends in an error
TrailUnreadable(p) ==
    /\ page[p].pc = "repaired" /\ MayEnter
    /\ ~Readable
    /\ page' = [page EXCEPT ![p].pc = "away"]
    /\ UNCHANGED <<trail, scrap, visits, journalVars>>

\* on an empty end; what is written after a whole fragment is modelled as one write
EnterSome(p) ==
    /\ page[p].pc = "entering" /\ scrap = NoScrap
    /\ \E whole \in BOOLEAN :
          scrap' = [id |-> page[p].id, prev |-> page[p].prev, whole |-> whole]
    /\ page' = [page EXCEPT ![p].pc = "writing"]
    /\ UNCHANGED <<trail, visits, journalVars>>

EnterAll(p) ==
    /\ page[p].pc \in Entering
    /\ LET entry == Entry(page[p].id, page[p].prev)
           before == IF scrap = NoScrap \/ page[p].pc = "writing" THEN << >>
                     ELSE <<Entry(scrap.id, scrap.prev)>>
       IN  trail' = Append(trail, before \o <<entry>>)
    /\ scrap' = NoScrap
    /\ page' = [page EXCEPT ![p].pc = "recorded"]
    /\ UNCHANGED <<visits, journalVars>>

ServedAnyway(state) == [state EXCEPT !.pc = "recorded"]

\* AuditWriteError: nothing is served
Refused(state) == [state EXCEPT !.pc = "away"]

\* the disk is full, or the process is killed
EnterFails(p) ==
    /\ page[p].pc \in {"asking", "repaired", "recorded"} \cup Entering /\ faults < MaxFaults
    /\ faults' = faults + 1
    /\ page' = [page EXCEPT ![p] = Refused(@)]
    /\ UNCHANGED <<trail, scrap, visits, log, torn, writer, begun, cache, thread>>

AuditInit ==
    /\ trail = << >> /\ scrap = NoScrap /\ visits = 0
    /\ page = [p \in Pages |-> Away]

AuditNext ==
    \E p \in Pages :
        \/ Visit(p) \/ RepairTrail(p) \/ LockTrail(p) \/ TrailUnreadable(p)
        \/ EnterSome(p) \/ EnterAll(p) \/ EnterFails(p)

-----------------------------------------------------------------------------
\* properties

Recorded(id) == \E i \in DOMAIN trail : \E k \in DOMAIN trail[i] : trail[i][k].id = id

\* the entry before the k-th of line i
Before(lines, i, k) ==
    IF k > 1 THEN lines[i][k - 1].id
    ELSE IF i = 1 THEN None ELSE Last(lines[i - 1]).id

\* The chain never forks (append's read of the head, its hash and its write are under
\* one lock): in the order of the file each entry has the hash of the one before, none is
\* lost to a repair that another request makes, none follows the same entry as another,
\* whatever requests fail in between.  It is of the entries: a line of two of them, after
\* a fragment that lacked its newline, is no entry to verify_chain, see TrailVerifies.
ChainNeverForks ==
    \A i \in DOMAIN trail :
        trail[i] # << >> /\ \A k \in DOMAIN trail[i] : trail[i][k].prev = Before(trail, i, k)

\* Whatever a failed append leaves, the next one repairs, and verify_chain, which takes
\* each complete line for one entry, holds
\* (test_torn_terminal_fragment_is_ignored_then_repaired).
TrailVerifies ==
    \A i \in DOMAIN trail :
        /\ Len(trail[i]) = 1
        /\ trail[i][1].prev = IF i = 1 THEN None ELSE trail[i - 1][1].id
=============================================================================
