----------------------------- MODULE TurnSlots ------------------------------
(***************************************************************************)
(* Where a turn lives.  A request owns a block of sequence numbers sized   *)
(* by the caps and the panels, and each of its turns a fixed number in it, *)
(* so that a turn keeps its identity when an optional one never happens.   *)
(* A layout is a record of how many turns of each kind a request may have. *)
(***************************************************************************)
EXTENDS Naturals

Kinds == {"draft", "critique", "oc", "bolster", "judge", "loop", "final",
          "restructure", "juror"}

\* the partner loop drafts, reviews and scores once a round
IsLayout(l) ==
    {l.ap, l.oc, l.bolster, l.judges, l.panel, l.restructure, l.jurors} \subseteq Nat

Most(l, kind) == CASE kind \in {"draft", "critique", "loop"} -> l.ap
                   [] kind = "oc" -> l.oc
                   [] kind = "bolster" -> l.bolster
                   [] kind = "judge" -> l.judges
                   [] kind = "final" -> l.panel
                   [] kind = "restructure" -> l.restructure
                   [] OTHER -> l.jurors

Block(l) == 2 * l.ap + l.oc + l.bolster + l.judges + l.ap + l.panel + l.restructure + l.jurors

Turn(unit, kind, k) == [unit |-> unit, kind |-> kind, k |-> k]

TurnsOf(l, unit) ==
    UNION {{Turn(unit, kind, k) : k \in 1..Most(l, kind)} : kind \in Kinds}

Scores(l) == 2 * l.ap + l.oc + l.bolster + l.judges

Place(l, kind, k) ==
    CASE kind = "draft" -> 2 * (k - 1)
      [] kind = "critique" -> 2 * (k - 1) + 1
      [] kind = "oc" -> 2 * l.ap + (k - 1)
      [] kind = "bolster" -> 2 * l.ap + l.oc + (k - 1)
      [] kind = "judge" -> 2 * l.ap + l.oc + l.bolster + (k - 1)
      [] kind = "loop" -> Scores(l) + (k - 1)
      [] kind = "final" -> Scores(l) + l.ap + (k - 1)
      [] kind = "restructure" -> Scores(l) + l.ap + l.panel + (k - 1)
      [] OTHER -> Scores(l) + l.ap + l.panel + l.restructure + (k - 1)

Slot(l, turn) == turn.unit * Block(l) + Place(l, turn.kind, turn.k)
=============================================================================
