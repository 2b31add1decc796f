---------------------------- MODULE RunLifecycle ----------------------------
(***************************************************************************)
(* What a run promises whoever watches its status: turns complete one at a *)
(* time, in plan order, only while it is running; it is reported finished  *)
(* only with every turn done; and a stopped run starts again only from the *)
(* stops that have a verb for it.  RunEngine implements this module.       *)
(***************************************************************************)
EXTENDS Integers

CONSTANTS Turns, Before

VARIABLES status, done

Stopped  == {"paused", "checkpoint", "capped", "needs_attention", "needs_decisions"}
Finished == {"finished", "needs_decisions"}

LCInit == status = "running" /\ done = {}

\* A turn lands; the run may stop with it, and may end only with the last one.
Land(t) ==
    /\ status = "running"
    /\ t \notin done /\ Before[t] \subseteq done
    /\ done' = done \cup {t}
    /\ status' \in {"running", "checkpoint", "capped"}
                   \cup (IF done' = Turns THEN Finished ELSE {})

\* The run ends, or comes back to the attorney's gates, with every turn done.
End ==
    /\ status \in {"running", "needs_decisions"} /\ done = Turns
    /\ status' \in Finished
    /\ UNCHANGED done

\* Stops: the cap only halts a running run, a pause only one that is not over; a
\* failing worker writes needs_attention whatever the status is.
Stop ==
    /\ \/ status = "running" /\ status' = "capped"
       \/ status \notin {"finished", "capped", "needs_attention"} /\ status' = "paused"
       \/ status' = "needs_attention"
    /\ UNCHANGED done

\* resume, continue, raise-cap and reopen.
Restart ==
    /\ status \in {"paused", "checkpoint", "capped", "needs_attention"}
    /\ status' = "running"
    /\ UNCHANGED done

LCNext == (\E t \in Turns : Land(t)) \/ End \/ Stop \/ Restart

LCSpec == LCInit /\ [][LCNext]_<<status, done>>
=============================================================================
