--------------------------- MODULE JournalStream ----------------------------
(***************************************************************************)
(* A page that watches a run: its request is entered in the audit, then    *)
(* tail_events reads the journal from where the last poll stopped, and     *)
(* each event is sent as a frame, until the run is over or the time is up. *)
(* A stream that ends is not opened again by the page; one that breaks is, *)
(* and is replayed from the first event, at which the page starts over.    *)
(* The page has no schema for two kinds of events (run_enqueued and        *)
(* run_reopened) and drops their frames without a word.                    *)
(***************************************************************************)
EXTENDS AuditTrail

CONSTANT
    Silent          \* the events of the kinds the page has no schema for

vars == <<journalVars, auditVars>>

Serving == {"recorded", "tailing", "sent", "ended"}

OthersUnchanged == UNCHANGED <<trail, scrap, journalVars>>

\* tail_events: the first call reads to the end as it is
TailStart(p) ==
    /\ page[p].pc = "recorded"
    /\ page' = [page EXCEPT ![p].pc = "tailing", ![p].len = Len(log), ![p].frag = torn]
    /\ UNCHANGED visits /\ OthersUnchanged

Fresh(p) == From(Read(page[p].len, page[p].frag), page[p].offset)

PastFragment(p) == Len(Read(page[p].len, page[p].frag)) + (IF torn = None THEN 0 ELSE 1)

\* past the complete lines, and no further
NewOffset(p) == Len(Read(page[p].len, page[p].frag))

\* a frame as the page takes it: the event, and what the timeline has of it.  The kind
\* is the first field of an event, and the first event is run_started.
Frame(event, n) ==
    <<event[1], event[2], IF n = 1 \/ event[1] \notin Silent THEN "line" ELSE "nothing">>

Frames(events, offset) == [i \in DOMAIN events |-> Frame(events[i], offset + i)]

\* run_started, the first event of the journal, starts the timeline over
Shown(shown, frames, offset) ==
    IF offset = 0 /\ frames # << >> THEN frames ELSE shown \o frames

TailRest(p) ==
    /\ page[p].pc = "tailing"
    /\ page' = [page EXCEPT ![p].pc = "sent",
                            ![p].shown = Shown(@, Frames(Fresh(p), page[p].offset),
                                                page[p].offset),
                            ![p].offset = NewOffset(p),
                            ![p].len = 0, ![p].frag = None]
    /\ UNCHANGED visits /\ OthersUnchanged

\* a splice that is no event, or a connection that is lost: the page asks again
Breaks(p) ==
    /\ page[p].pc = "tailing" /\ visits < MaxVisits
    /\ \/ \E i \in DOMAIN Fresh(p) : ~Whole(Fresh(p)[i])
       \/ faults < MaxFaults
    /\ faults' = IF \E i \in DOMAIN Fresh(p) : ~Whole(Fresh(p)[i]) THEN faults ELSE faults + 1
    /\ visits' = visits + 1
    /\ page' = [page EXCEPT ![p] = Asking([@ EXCEPT !.len = 0, !.frag = None])]
    /\ UNCHANGED <<trail, scrap, log, torn, writer, begun, cache, thread>>

\* load_state says the run is over, by a read of its own, or the time is up
StreamEnds(p) ==
    /\ page[p].pc = "sent"
    /\ page' = [page EXCEPT ![p].pc = "ended"]
    /\ UNCHANGED visits /\ OthersUnchanged

PollAgain(p) ==
    /\ page[p].pc = "sent" /\ Len(log) < LastEvent
    /\ page' = [page EXCEPT ![p].pc = "recorded"]
    /\ UNCHANGED visits /\ OthersUnchanged

Init == JournalInit /\ AuditInit

Next ==
    \/ JournalNext /\ UNCHANGED auditVars
    \/ AuditNext
    \/ \E p \in Pages :
          TailStart(p) \/ TailRest(p) \/ Breaks(p) \/ StreamEnds(p) \/ PollAgain(p)

Spec == Init /\ [][Next]_vars

-----------------------------------------------------------------------------
\* properties

\* What a page is sent is the journal from its first event, in order, none missing and
\* none twice (tail_events' offset, the replay after a break): a fragment that the next
\* writer truncates is neither sent nor counted, but for a splice, which is sent once
\* and takes no other event's place.  The timeline has a line of each, except of the
\* kinds the page has no schema for (parseRunEvent, onmessage).
PageShowsLog ==
    \A p \in Pages :
        /\ Len(page[p].shown) <= Len(log)
        /\ \A i \in DOMAIN page[p].shown :
              LET frame == page[p].shown[i]
              IN  /\ frame[2] = log[i][2]
                  /\ Whole(frame) => (frame[3] = "line" <=> i = 1 \/ log[i][2] \notin Silent)

\* No page is served whose request is not in the audit (append fails closed): not when
\* an append fails half way, nor when another request repairs the file meanwhile.
ViewsAreRecorded ==
    \A p \in Pages : page[p].pc \in Serving => Recorded(page[p].id)
=============================================================================
