--------------------------- MODULE PipelineProofs ---------------------------
(***************************************************************************)
(* What holds of a pipeline before any turn of it is taken: the order of   *)
(* its stages, the slots of its turns, what the settings of a launch may   *)
(* shape, and how a judge's rulings are paired with the objections of a    *)
(* draft.                                                                  *)
(***************************************************************************)
EXTENDS StagePipeline, FiniteSetTheorems, WellFoundedInduction, TLAPS

-----------------------------------------------------------------------------
(* Numbers. *)

\* A set of numbers below a bound has a least and a greatest element.
LEMMA Least ==
    ASSUME NEW n \in Nat, NEW S \in SUBSET (0..n), S # {}
    PROVE  \E t \in S : \A u \in S : t <= u
<1> DEFINE Below(t) == {u \in S : u < t}
           Cuts == {Below(t) : t \in S}
<1> HIDE DEF Below, Cuts
<1>1. IsFiniteSet(S) /\ S \subseteq Int
  <2>1. 0 \in Int /\ n \in Int
    OBVIOUS
  <2>2. IsFiniteSet(0..n)
    BY <2>1, FS_Interval
  <2>3. S \subseteq Int
    OBVIOUS
  <2> QED BY <2>2, <2>3, FS_Subset
<1>2. IsWellFoundedOn(StrictSubsetOrdering(S), SUBSET S)
  BY <1>1, FS_StrictSubsetOrderingWellFounded, FS_FiniteSubsetsOfFinite
<1>3. Cuts \subseteq SUBSET S /\ Cuts # {}
  BY DEF Below, Cuts
<1>4. PICK C \in Cuts : \A D \in Cuts : <<D, C>> \notin StrictSubsetOrdering(S)
  BY <1>2, <1>3, WFMin
<1>5. PICK t \in S : C = Below(t)
  BY DEF Cuts
<1>6. ASSUME NEW u \in S, u < t PROVE FALSE
  <2>0. u \in Int /\ t \in Int /\ \A x \in S : x \in Int
    BY <1>1
  <2>01. ~(u < u) /\ \A x \in S : x < u => x < t
    BY <1>6, <2>0
  <2>1. u \in Below(t) /\ u \notin Below(u) /\ Below(u) \subseteq Below(t)
    BY <1>6, <2>01 DEF Below
  <2>2. <<Below(u), Below(t)>> \in StrictSubsetOrdering(S)
    BY <2>1 DEF StrictSubsetOrdering, Below
  <2> QED BY <1>4, <1>5, <2>2 DEF Cuts
<1> QED BY <1>1, <1>6

LEMMA Greatest ==
    ASSUME NEW n \in Nat, NEW S \in SUBSET (1..n), S # {}
    PROVE  Max(S) \in S /\ \A u \in S : u <= Max(S)
<1> DEFINE T == {n - u : u \in S}
<1>1. T \in SUBSET (0..n) /\ T # {}
  <2>1. \A u \in S : n - u \in 0..n
    OBVIOUS
  <2> QED BY <2>1
<1> HIDE DEF T
<1>2. PICK x \in T : \A y \in T : x <= y
  BY <1>1, Least
<1>3. PICK t \in S : x = n - t
  BY DEF T
<1>4. \A u \in S : t >= u
  <2> TAKE u \in S
  <2>1. n - t <= n - u
    BY <1>2, <1>3 DEF T
  <2> QED BY <2>1
<1>5. Max(S) \in S /\ \A u \in S : Max(S) >= u
  BY <1>4 DEF Max
<1> QED BY <1>5

\* What holds of 0 and goes from each number to the next holds up to n.
LEMMA UpTo ==
    ASSUME NEW n \in Nat, NEW S, 0 \in S, \A k \in 1..n : k - 1 \in S => k \in S
    PROVE  \A k \in 0..n : k \in S
<1> SUFFICES ASSUME (0..n) \ S # {} PROVE FALSE
  OBVIOUS
<1>1. PICK k \in (0..n) \ S : \A j \in (0..n) \ S : k <= j
  BY Least
<1>2. k \in 1..n /\ k - 1 \in 0..n /\ ~(k <= k - 1)
  BY <1>1
<1> QED BY <1>1, <1>2

LEMMA Smallest ==
    ASSUME NEW n \in Nat, NEW S \in SUBSET (1..n), S # {}
    PROVE  Min(S) \in S
<1>1. S \in SUBSET (0..n)
  OBVIOUS
<1>2. \E t \in S : \A u \in S : t <= u
  BY <1>1, Least
<1> QED BY <1>2 DEF Min

LEMMA Larger ==
    ASSUME NEW a \in Nat, NEW b \in Nat
    PROVE  Max({a, b}) \in {a, b} /\ Max({a, b}) >= a /\ Max({a, b}) >= b
<1>1. \E x \in {a, b} : \A y \in {a, b} : x >= y
  OBVIOUS
<1> QED BY <1>1 DEF Max

-----------------------------------------------------------------------------
(* The graphs of the stages. *)

Panels == {"judge_panel", "narrative_assessment"}

Gates == {"jury_panel", "rubric_gate"}

DraftStages == {"associate_draft", "partner_loop", "bolster"}

\* Stages that stand apart in every graph.
Leads(strategy, h, s) ==
    \/ h = "associate_draft" /\ s # h
    \/ h = "bolster" /\ s = "partner_loop" /\ strategy = "adversarial-first"
    \/ h \in DraftStages /\ s \in Panels \cup {"restructure"} \cup Gates
    \/ h \in Panels /\ s \in {"restructure"} \cup Gates
    \/ h = "restructure" /\ s \in Gates

\* The stages of the shipped graphs stand in this order (config/tasks/*.yaml).
LEMMA GraphOrder ==
    ASSUME NEW l, NEW h, NEW s, l.family \in {"discovery", "document"},
           h \in Range(Graph(l)), s \in Range(Graph(l)), Leads(l.strategy, h, s)
    PROVE  Precedes(Graph(l), h, s)
<1>. USE DEF Range, Precedes, Leads, DraftStages, Panels, Gates
<1>1. CASE l.family = "discovery" /\ l.strategy = "adversarial-first"
  BY <1>1 DEF Graph
<1>2. CASE l.family = "discovery" /\ l.strategy # "adversarial-first"
  BY <1>2 DEF Graph
<1>3. CASE l.family = "document" /\ l.strategy = "adversarial-first"
  BY <1>3 DEF Graph
<1>4. CASE l.family = "document" /\ l.strategy # "adversarial-first"
  BY <1>4 DEF Graph
<1>. QED BY <1>1, <1>2, <1>3, <1>4

\* Which stages a graph has.
LEMMA GraphStages ==
    ASSUME NEW l, l.family \in {"discovery", "document"}
    PROVE  /\ "associate_draft" \in Range(Graph(l))
           /\ l.family = "discovery" =>
                /\ "narrative_assessment" \notin Range(Graph(l))
                /\ "judge_panel" \in Range(Graph(l))
           /\ l.family = "document" => Range(Graph(l)) \cap {"judge_panel", "restructure"} = {}
           /\ Range(Graph(l)) \subseteq
                {"associate_draft", "partner_loop", "oc_attack", "bolster", "restructure"}
                  \cup Panels \cup Gates
<1>. USE DEF Range, Panels, Gates
<1>1. CASE l.family = "discovery"
  BY <1>1 DEF Graph
<1>2. CASE l.family = "document"
  BY <1>2 DEF Graph
<1>. QED BY <1>1, <1>2

\* Any two stages of a graph are in one order or the other.
LEMMA GraphTotal ==
    ASSUME NEW l, NEW h, NEW s, h # s, h \in Range(Graph(l)), s \in Range(Graph(l))
    PROVE  Precedes(Graph(l), h, s) \/ Precedes(Graph(l), s, h)
<1>1. DOMAIN Graph(l) \subseteq Int
  BY DEF Graph
<1>. QED BY <1>1 DEF Range, Precedes

-----------------------------------------------------------------------------
(* The compiled pipeline. *)

\* What the stages rely on in the pipeline they are compiled into.
Sound(c) ==
    /\ IsLayout(c) /\ c.ap >= 2 /\ c.judges >= 1 /\ c.panel >= 1
    /\ "associate_draft" \in c.stages
    /\ \A s \in c.stages : c.before[s] \subseteq c.stages
    /\ \A s, h \in c.stages : h # s => h \in c.before[s] \/ s \in c.before[h]
    /\ \A s, h \in c.stages : Leads(c.strategy, h, s) => h \in c.before[s]
    /\ \A S \in SUBSET c.stages : S # {} => \E s \in S : c.before[s] \cap S = {}
    /\ c.family = "discovery" => "narrative_assessment" \notin c.stages
    /\ c.family = "document" => c.stages \cap {"judge_panel", "restructure"} = {}
    /\ "restructure" \in c.stages => "judge_panel" \in c.stages
    /\ c.family \in {"discovery", "document"}
    /\ c.stages \subseteq
         {"associate_draft", "partner_loop", "oc_attack", "bolster", "restructure"}
            \cup Panels \cup Gates

\* No stage is twice in a graph, so some stage of a choice is the first of them.
LEMMA GraphFirst ==
    ASSUME NEW l, NEW S \in SUBSET Range(Graph(l)), S # {}
    PROVE  \E s \in S : \A h \in S : ~Precedes(Graph(l), h, s)
<1>1. /\ DOMAIN Graph(l) \subseteq 0..8
      /\ \A i, j \in DOMAIN Graph(l) : Graph(l)[i] = Graph(l)[j] => i = j
  <2>1. CASE l.family = "discovery" /\ l.strategy = "adversarial-first"
    BY <2>1 DEF Graph
  <2>2. CASE l.family = "discovery" /\ l.strategy # "adversarial-first"
    BY <2>2 DEF Graph
  <2>3. CASE l.family # "discovery" /\ l.strategy = "adversarial-first"
    BY <2>3 DEF Graph
  <2>4. CASE l.family # "discovery" /\ l.strategy # "adversarial-first"
    BY <2>4 DEF Graph
  <2> QED BY <2>1, <2>2, <2>3, <2>4
<1>2. PICK I : I = {i \in DOMAIN Graph(l) : Graph(l)[i] \in S}
  OBVIOUS
<1>3. I \in SUBSET (0..8) /\ I # {}
  BY <1>1, <1>2 DEF Range
<1>4. PICK i \in I : \A j \in I : i <= j
  <2>1. 8 \in Nat
    OBVIOUS
  <2> QED BY <1>3, <2>1, Least
<1>5. ASSUME NEW h \in S, Precedes(Graph(l), h, Graph(l)[i]) PROVE FALSE
  <2>1. PICK j, k \in DOMAIN Graph(l) : j < k /\ Graph(l)[j] = h /\ Graph(l)[k] = Graph(l)[i]
    BY <1>5 DEF Precedes
  <2>2. k = i /\ j \in I
    BY <1>1, <1>2, <2>1
  <2>3. i \in Int /\ j \in Int /\ j < i
    BY <1>1, <1>2, <2>1, <2>2
  <2> QED BY <1>4, <2>2, <2>3
<1> QED BY <1>2, <1>5

LEMMA CompiledIsSound ==
    ASSUME NEW l \in Launches, Compiles(l) PROVE Sound(Compiled(l))
<1> DEFINE c == Compiled(l)
           m == Resolved(l.config)
<1>0. /\ l.family \in {"discovery", "document"}
      /\ m["ap"] \in Nat /\ m["oc"] \in Nat /\ m["bolster"] \in Nat
      /\ m["judges"] \in Nat /\ m["judges"] # 0
      /\ m["panel"] \in Nat /\ m["panel"] # 0
      /\ m["restructure"] \in Nat /\ JurorsIn(m) \in Nat
  BY LaunchesAreKnown DEF Compiles, Resolves, Valid
<1>1. /\ c.strategy = l.strategy /\ c.family = l.family /\ c.stages = Staged(l)
      /\ c.before = [s \in Staged(l) |-> {h \in Staged(l) : Precedes(Graph(l), h, s)}]
  BY DEF Compiled
<1>2. /\ c.ap \in Nat /\ c.ap >= 2
  <2>1. StrategyRounds(l.strategy) \in Nat /\ StrategyRounds(l.strategy) >= 2
    BY DEF StrategyRounds
  <2>2. c.ap = Max({m["ap"], StrategyRounds(l.strategy)})
    BY DEF Compiled
  <2> QED BY <1>0, <2>1, <2>2, Larger
<1>3. c.oc \in Nat
  <2>0. IsFiniteSet({"oc_associate"} \cup {"oc_partner"})
    BY FS_Singleton, FS_AddElement
  <2>1. Opponents(l) \in SUBSET ({"oc_associate"} \cup {"oc_partner"})
    BY DEF Opponents
  <2>2. Cardinality(Opponents(l)) \in Nat
    BY <2>0, <2>1, FS_Subset, FS_CardinalityType
  <2>3. c.oc = IF Opponents(l) # {} THEN Max({m["oc"], Cardinality(Opponents(l))}) ELSE 0
    BY DEF Compiled
  <2> QED BY <1>0, <2>2, <2>3, Larger
<1>4. /\ c.bolster \in Nat /\ c.judges \in Nat /\ c.judges >= 1
      /\ c.panel \in Nat /\ c.panel >= 1
      /\ c.restructure \in Nat /\ c.jurors \in Nat
  BY <1>0 DEF Compiled
<1>5. Staged(l) \subseteq Range(Graph(l))
  BY DEF Staged
<1>6. "associate_draft" \in Staged(l)
  BY <1>0, GraphStages DEF Staged, Unowned
<1>7. "restructure" \in Staged(l) => "judge_panel" \in Staged(l)
  BY <1>0, GraphStages DEF Staged, Unowned
<1> HIDE DEF c
<1>8. \A s, h \in c.stages : h # s => h \in c.before[s] \/ s \in c.before[h]
  BY <1>1, <1>5, GraphTotal
<1>9. \A s, h \in c.stages : Leads(c.strategy, h, s) => h \in c.before[s]
  BY <1>0, <1>1, <1>5, GraphOrder
<1>10. \A s \in c.stages : c.before[s] \subseteq c.stages
  BY <1>1
<1>11. IsLayout(c)
  BY <1>2, <1>3, <1>4 DEF IsLayout
<1>12. ASSUME NEW S \in SUBSET c.stages, S # {}
       PROVE  \E s \in S : c.before[s] \cap S = {}
  <2>1. PICK s \in S : \A h \in S : ~Precedes(Graph(l), h, s)
    BY <1>1, <1>5, <1>12, GraphFirst
  <2>2. c.before[s] \cap S = {}
    BY <1>1, <2>1
  <2> QED BY <2>2
<1>13. /\ c.family = "discovery" => "narrative_assessment" \notin c.stages
       /\ c.family = "document" => c.stages \cap {"judge_panel", "restructure"} = {}
       /\ c.stages \subseteq
            {"associate_draft", "partner_loop", "oc_attack", "bolster", "restructure"}
               \cup Panels \cup Gates
  BY <1>0, <1>1, <1>5, GraphStages
<1>14. "associate_draft" \in c.stages /\ ("restructure" \in c.stages => "judge_panel" \in c.stages)
  BY <1>1, <1>6, <1>7
<1> QED
  BY <1>0, <1>1, <1>2, <1>4, <1>8, <1>9, <1>10, <1>11, <1>12, <1>13, <1>14
     DEF Sound, c

-----------------------------------------------------------------------------
(* The slots of the turns: the places of a request are its nine kinds side by side. *)

\* How many turns a request may have of each kind (SlotLayout's fields).
LEMMA MostOf ==
    ASSUME NEW l
    PROVE  /\ Most(l, "draft") = l.ap /\ Most(l, "critique") = l.ap /\ Most(l, "loop") = l.ap
           /\ Most(l, "oc") = l.oc /\ Most(l, "bolster") = l.bolster
           /\ Most(l, "judge") = l.judges /\ Most(l, "final") = l.panel
           /\ Most(l, "restructure") = l.restructure /\ Most(l, "juror") = l.jurors
BY DEF Most

\* Where the turns of each kind are (SlotLayout.draft .. jury_slot).
LEMMA PlaceOf ==
    ASSUME NEW l, NEW k
    PROVE  /\ Place(l, "draft", k) = 2 * (k - 1)
           /\ Place(l, "critique", k) = 2 * (k - 1) + 1
           /\ Place(l, "oc", k) = 2 * l.ap + (k - 1)
           /\ Place(l, "bolster", k) = 2 * l.ap + l.oc + (k - 1)
           /\ Place(l, "judge", k) = 2 * l.ap + l.oc + l.bolster + (k - 1)
           /\ Place(l, "loop", k) = Scores(l) + (k - 1)
           /\ Place(l, "final", k) = Scores(l) + l.ap + (k - 1)
           /\ Place(l, "restructure", k) = Scores(l) + l.ap + l.panel + (k - 1)
           /\ Place(l, "juror", k) = Scores(l) + l.ap + l.panel + l.restructure + (k - 1)
BY DEF Place

\* The layout's fields are numbers (SlotLayout).
LEMMA Counts ==
    ASSUME NEW l, IsLayout(l)
    PROVE  /\ l.ap \in Nat /\ l.oc \in Nat /\ l.bolster \in Nat /\ l.judges \in Nat
           /\ l.panel \in Nat /\ l.restructure \in Nat /\ l.jurors \in Nat
BY DEF IsLayout

\* A turn's kind, its number among the turns of that kind and its place.
Seat(l, kind, k) ==
    \/ /\ kind = "draft" /\ k \in 1..l.ap
       /\ Place(l, kind, k) = 2 * (k - 1)
    \/ /\ kind = "critique" /\ k \in 1..l.ap
       /\ Place(l, kind, k) = 2 * (k - 1) + 1
    \/ /\ kind = "oc" /\ k \in 1..l.oc
       /\ Place(l, kind, k) = 2 * l.ap + (k - 1)
    \/ /\ kind = "bolster" /\ k \in 1..l.bolster
       /\ Place(l, kind, k) = 2 * l.ap + l.oc + (k - 1)
    \/ /\ kind = "judge" /\ k \in 1..l.judges
       /\ Place(l, kind, k) = 2 * l.ap + l.oc + l.bolster + (k - 1)
    \/ /\ kind = "loop" /\ k \in 1..l.ap
       /\ Place(l, kind, k) = Scores(l) + (k - 1)
    \/ /\ kind = "final" /\ k \in 1..l.panel
       /\ Place(l, kind, k) = Scores(l) + l.ap + (k - 1)
    \/ /\ kind = "restructure" /\ k \in 1..l.restructure
       /\ Place(l, kind, k) = Scores(l) + l.ap + l.panel + (k - 1)
    \/ /\ kind = "juror" /\ k \in 1..l.jurors
       /\ Place(l, kind, k) = Scores(l) + l.ap + l.panel + l.restructure + (k - 1)

\* Every turn has a seat (SlotLayout.draft .. jury_slot).
LEMMA TurnAt ==
    ASSUME NEW l, NEW kind \in Kinds, NEW k \in 1..Most(l, kind)
    PROVE  Seat(l, kind, k)
<1>1. CASE kind = "draft"
  BY <1>1, MostOf, PlaceOf DEF Seat
<1>2. CASE kind = "critique"
  BY <1>2, MostOf, PlaceOf DEF Seat
<1>3. CASE kind = "oc"
  BY <1>3, MostOf, PlaceOf DEF Seat
<1>4. CASE kind = "bolster"
  BY <1>4, MostOf, PlaceOf DEF Seat
<1>5. CASE kind = "judge"
  BY <1>5, MostOf, PlaceOf DEF Seat
<1>6. CASE kind = "loop"
  BY <1>6, MostOf, PlaceOf DEF Seat
<1>7. CASE kind = "final"
  BY <1>7, MostOf, PlaceOf DEF Seat
<1>8. CASE kind = "restructure"
  BY <1>8, MostOf, PlaceOf DEF Seat
<1>9. CASE kind = "juror"
  BY <1>9, MostOf, PlaceOf DEF Seat
<1>. QED  BY <1>1, <1>2, <1>3, <1>4, <1>5, <1>6, <1>7, <1>8, <1>9 DEF Kinds

\* Every turn of a request is in the request's block (SlotLayout._block).
LEMMA PlaceInBlock ==
    ASSUME NEW l, IsLayout(l), NEW kind \in Kinds, NEW k \in 1..Most(l, kind)
    PROVE  /\ Block(l) \in Nat
           /\ Place(l, kind, k) \in 0..Block(l) - 1
<1>1. Seat(l, kind, k)
  BY TurnAt
<1>. QED  BY <1>1, Counts DEF Seat, Block, Scores

\* Within a block each turn has a place of its own (SlotLayout.draft .. jury_slot).
LEMMA PlacesApart ==
    ASSUME NEW l, IsLayout(l),
           NEW kind \in Kinds, NEW k \in 1..Most(l, kind),
           NEW other \in Kinds, NEW j \in 1..Most(l, other),
           Place(l, kind, k) = Place(l, other, j)
    PROVE  kind = other /\ k = j
<1>1. Seat(l, kind, k) /\ Seat(l, other, j)
  BY TurnAt
<1>. QED  BY <1>1, Counts DEF Seat, Scores

\* Two numbers with the same place in blocks of one size are in the same block.
LEMMA BlocksApart ==
    ASSUME NEW size \in Nat, NEW u \in Nat, NEW v \in Nat,
           NEW p \in 0..size - 1, NEW q \in 0..size - 1,
           u * size + p = v * size + q
    PROVE  u = v /\ p = q
<1>1. ASSUME NEW i \in Nat, NEW j \in Nat, i < j
      PROVE  i * size + size <= j * size
  <2>1. PICK d \in Nat : j = i + 1 + d
    <3>1. j - (i + 1) \in Nat /\ j = i + 1 + (j - (i + 1))
      BY <1>1
    <3>. QED  BY <3>1
  <2>2. j * size = i * size + size + d * size
    BY <2>1
  <2>3. d * size \in Nat /\ i * size \in Nat
    OBVIOUS
  <2>. QED  BY <2>2, <2>3
<1>2. u * size \in Nat /\ v * size \in Nat
  OBVIOUS
<1>3. ~(u < v)
  BY <1>1, <1>2
<1>4. ~(v < u)
  BY <1>1, <1>2
<1>. QED  BY <1>3, <1>4

\* No two turns of a run have one id (SlotLayout.turn_id): not those of one request,
\* whichever optional ones never happen, nor those of two requests.
THEOREM SlotsApart ==
    ASSUME NEW l, IsLayout(l), NEW u \in Nat, NEW v \in Nat,
           NEW s \in TurnsOf(l, u), NEW t \in TurnsOf(l, v),
           Slot(l, s) = Slot(l, t)
    PROVE  s = t
<1>1. PICK kind \in Kinds : \E k \in 1..Most(l, kind) : s = Turn(u, kind, k)
  BY DEF TurnsOf
<1>2. PICK k \in 1..Most(l, kind) : s = Turn(u, kind, k)
  BY <1>1
<1>a. PICK other \in Kinds : \E j \in 1..Most(l, other) : t = Turn(v, other, j)
  BY DEF TurnsOf
<1>b. PICK j \in 1..Most(l, other) : t = Turn(v, other, j)
  BY <1>a
<1>3. u * Block(l) + Place(l, kind, k) = v * Block(l) + Place(l, other, j)
  BY <1>2, <1>b DEF Slot, Turn
<1>4. /\ Block(l) \in Nat
      /\ Place(l, kind, k) \in 0..Block(l) - 1
      /\ Place(l, other, j) \in 0..Block(l) - 1
  BY PlaceInBlock
<1>5. u = v /\ Place(l, kind, k) = Place(l, other, j)
  BY <1>3, <1>4, BlocksApart
<1>6. kind = other /\ k = j
  BY <1>5, PlacesApart
<1>. QED  BY <1>2, <1>b, <1>5, <1>6

-----------------------------------------------------------------------------
(* The settings of a launch. *)

\* What a layer may not set it leaves as it was, or takes away.
LEMMA OverKeeps ==
    ASSUME NEW base, NEW layer, NEW allowed, Permits(base, layer, allowed),
           NEW k \in Structural \ allowed, k \in DOMAIN Over(base, layer)
    PROVE  k \in DOMAIN base /\ Over(base, layer)[k] = base[k]
BY DEF Permits, Over

\* A layer that leaves the judges there has left the panels there.
LEMMA OverKeepsPanels ==
    ASSUME NEW base, NEW layer,
           "panels" \in DOMAIN layer => "judges" \notin DOMAIN layer,
           "judges" \in DOMAIN Over(base, layer), "jurors" \in DOMAIN base
    PROVE  "jurors" \in DOMAIN Over(base, layer)
<1>1. "judges" \in PanelSettings /\ "jurors" \in PanelSettings /\ "panels" \in Groups
  BY DEF PanelSettings, Groups
<1>2. SettingsOf("panels") = PanelSettings
  BY DEF SettingsOf
<1>3. "panels" \notin DOMAIN layer
  BY <1>1, <1>2 DEF Over, Displaced
<1>4. "jurors" \in UNION {SettingsOf(g) : g \in Groups \cap DOMAIN layer} =>
          "panels" \in DOMAIN layer
  BY DEF SettingsOf, Groups, LoopSettings, BudgetSettings, PanelSettings
<1>5. "jurors" \notin Groups
  BY DEF Groups
<1> QED BY <1>3, <1>4, <1>5 DEF Over, Displaced

\* Whatever the firm, the matter and the command line say, a leaf of the task's shape that
\* the adapter does not leave to them is the adapter's (_enforce_structural_policy,
\* resolve_run_config): no chain of layers, nulls included, gets round the list.  The size
\* of the jury has a default, so it takes the judges not being listed either.
THEOREM ShapeIsTheAdapters ==
    ASSUME NEW l \in Launches, Compiles(l)
    PROVE  LET c == l.config IN
           /\ \A k \in Structural \ c.allowed : k # "jurors" =>
                 /\ k \in DOMAIN Shaped(c)
                 /\ Resolved(c)[k] = Shaped(c)[k]
                 /\ k \in DOMAIN c.adapter => Resolved(c)[k] = c.adapter[k]
           /\ {"judges", "jurors"} \cap c.allowed = {} =>
                 JurorsIn(Resolved(c)) = JurorsIn(Shaped(c))
<1> DEFINE c == l.config
           matter == MatterLayer(c.matter)
<1>1. /\ Permits(Shaped(c), c.firm.layer, c.allowed)
      /\ Permits(Preferred(c), matter, c.allowed)
      /\ Permits(Authored(c), c.flags, c.allowed)
      /\ Valid(Resolved(c))
  BY DEF Compiles, Resolves
<1>2. /\ Preferred(c) = Over(Shaped(c), c.firm.layer)
      /\ Authored(c) = Over(Preferred(c), matter)
      /\ Resolved(c) = Over(Authored(c), c.flags)
  BY DEF Preferred, Authored, Resolved
<1>3. /\ "panels" \in DOMAIN c.firm.layer => "judges" \notin DOMAIN c.firm.layer
      /\ "panels" \notin DOMAIN matter
      /\ "panels" \notin DOMAIN c.flags
  <2>1. "panels" \in DOMAIN c.firm.layer => "judges" \notin DOMAIN c.firm.layer
    BY LaunchesAreKnown DEF IsLayer, SettingsOf, Groups, PanelSettings
  <2>2. "panels" \notin DOMAIN matter
    BY DEF MatterLayer
  <2> QED BY <2>1, <2>2, LaunchesAreKnown
<1>4. ASSUME NEW k \in Structural \ c.allowed, k \in DOMAIN Resolved(c)
      PROVE  /\ k \in DOMAIN Shaped(c) /\ k \in DOMAIN Preferred(c) /\ k \in DOMAIN Authored(c)
             /\ Resolved(c)[k] = Shaped(c)[k]
  <2>1. k \in DOMAIN Authored(c) /\ Resolved(c)[k] = Authored(c)[k]
    BY <1>1, <1>2, <1>4, OverKeeps
  <2>2. k \in DOMAIN Preferred(c) /\ Authored(c)[k] = Preferred(c)[k]
    BY <1>1, <1>2, <2>1, OverKeeps
  <2>3. k \in DOMAIN Shaped(c) /\ Preferred(c)[k] = Shaped(c)[k]
    BY <1>1, <1>2, <2>2, OverKeeps
  <2> QED BY <2>1, <2>2, <2>3
<1>5. \A k \in DOMAIN c.adapter : Shaped(c)[k] = c.adapter[k]
  BY DEF Shaped, Over
<1>6. ASSUME NEW k \in Structural \ c.allowed, k # "jurors"
      PROVE  /\ k \in DOMAIN Shaped(c)
             /\ Resolved(c)[k] = Shaped(c)[k]
             /\ k \in DOMAIN c.adapter => Resolved(c)[k] = c.adapter[k]
  <2>1. k \in DOMAIN Resolved(c)
    BY <1>1, <1>6 DEF Valid, Structural, Settings, PanelSettings
  <2> QED BY <1>4, <1>5, <2>1
<1>7. ASSUME {"judges", "jurors"} \cap c.allowed = {}
      PROVE  JurorsIn(Resolved(c)) = JurorsIn(Shaped(c))
  <2>1. "judges" \in Structural \ c.allowed /\ "jurors" \in Structural \ c.allowed
    BY <1>7 DEF Structural, PanelSettings
  <2>2. "judges" \in DOMAIN Resolved(c)
    BY <1>1 DEF Valid, Settings, PanelSettings
  <2>3. "judges" \in DOMAIN Preferred(c) /\ "judges" \in DOMAIN Authored(c)
    BY <1>4, <2>1, <2>2
  <2>4. CASE "jurors" \in DOMAIN Shaped(c)
    <3>1. "jurors" \in DOMAIN Preferred(c)
      BY <1>2, <1>3, <2>3, <2>4, OverKeepsPanels
    <3>2. "jurors" \in DOMAIN Authored(c)
      BY <1>2, <1>3, <2>3, <3>1, OverKeepsPanels
    <3>3. "jurors" \in DOMAIN Resolved(c)
      BY <1>2, <1>3, <2>2, <3>2, OverKeepsPanels
    <3> QED BY <1>4, <2>1, <2>4, <3>3 DEF JurorsIn
  <2>5. CASE "jurors" \notin DOMAIN Shaped(c)
    <3>1. "jurors" \notin DOMAIN Resolved(c)
      BY <1>4, <2>1, <2>5
    <3> QED BY <2>5, <3>1 DEF JurorsIn
  <2> QED BY <2>4, <2>5
<1> QED BY <1>6, <1>7

\* Whatever personas a matter leaves on and whatever strategy it names, the pipeline that
\* is compiled is one ResolvedPipeline accepts (compile_pipeline, validate_ownership):
\* a launch is not refused after its selection was accepted, unless the gates leave out
\* the rubric its judge would score.
THEOREM CompiledIsOwned ==
    ASSUME NEW l \in Launches, Resolves(l.config), Selectable(l),
           "rubric_judge" \in l.personas => "rubric" \in Resolved(l.config)["gates"]
    PROVE  Owned(Compiled(l), l.personas)
<1> DEFINE c == Compiled(l)
           m == Resolved(l.config)
<1>0. l.family \in {"discovery", "document"}
  BY LaunchesAreKnown
<1>1. /\ c.strategy = l.strategy /\ c.stages = Staged(l)
      /\ c.before = [s \in Staged(l) |-> {h \in Staged(l) : Precedes(Graph(l), h, s)}]
      /\ c.gates = IF "rubric_judge" \in l.personas THEN m["gates"] ELSE m["gates"] \ {"rubric"}
      /\ c.ap = Max({m["ap"], StrategyRounds(l.strategy)})
  BY DEF Compiled
<1>2. /\ {"associate_draft", "partner_loop", "oc_attack", "rubric_gate"} \subseteq Range(Graph(l))
      /\ Range(Graph(l)) \cap Assessments # {}
  <2> USE DEF Range, Assessments
  <2>1. CASE l.family = "discovery" /\ l.strategy = "adversarial-first"
    BY <2>1 DEF Graph
  <2>2. CASE l.family = "discovery" /\ l.strategy # "adversarial-first"
    BY <2>2 DEF Graph
  <2>3. CASE l.family = "document" /\ l.strategy = "adversarial-first"
    BY <2>3 DEF Graph
  <2>4. CASE l.family = "document" /\ l.strategy # "adversarial-first"
    BY <2>4 DEF Graph
  <2> QED BY <1>0, <2>1, <2>2, <2>3, <2>4
<1>3. /\ "associate_draft" \in c.stages
      /\ "partner" \in l.personas <=> "partner_loop" \in c.stages
      /\ Opponents(l) # {} <=> "oc_attack" \in c.stages
      /\ "judge" \in l.personas <=> c.stages \cap Assessments # {}
      /\ "rubric_judge" \in l.personas <=> "rubric_gate" \in c.stages
  BY <1>1, <1>2 DEF Staged, Unowned, Assessments
<1>4. "rubric_gate" \in c.stages <=> "rubric" \in c.gates
  BY <1>1, <1>3
<1>5. ASSUME c.strategy = "deep-core"
      PROVE  /\ {"associate", "partner"} \subseteq l.personas /\ c.ap >= 3
             /\ \A s \in c.stages \cap (Assessments \cup {"oc_attack", "rubric_gate"}) :
                   "partner_loop" \in c.before[s]
  <2>1. {"associate", "partner"} \subseteq l.personas
    BY <1>1, <1>5 DEF Selectable
  <2>2. c.ap >= 3
    <3>1. m["ap"] \in Nat
      BY DEF Resolves, Valid
    <3>2. StrategyRounds(l.strategy) = 3
      BY <1>1, <1>5 DEF StrategyRounds
    <3> QED BY <1>1, <3>1, <3>2, Larger
  <2>3. ASSUME NEW s \in c.stages \cap (Assessments \cup {"oc_attack", "rubric_gate"})
        PROVE  Precedes(Graph(l), "partner_loop", s)
    <3>1. s \in Range(Graph(l))
      BY <1>1 DEF Staged
    <3> USE DEF Range, Precedes, Assessments
    <3>2. CASE l.family = "discovery"
      BY <1>1, <1>5, <2>3, <3>1, <3>2 DEF Graph
    <3>3. CASE l.family = "document"
      BY <1>1, <1>5, <2>3, <3>1, <3>3 DEF Graph
    <3> QED BY <1>0, <3>2, <3>3
  <2>4. "partner_loop" \in c.stages
    BY <1>3, <2>1
  <2> QED BY <1>1, <2>1, <2>2, <2>3, <2>4
<1>6. ASSUME c.strategy = "adversarial-first"
      PROVE  /\ "oc_attack" \in c.stages
             /\ "partner_loop" \in c.stages => "oc_attack" \in c.before["partner_loop"]
  <2>1. "oc_attack" \in c.stages
    BY <1>1, <1>3, <1>6 DEF Selectable
  <2>2. Precedes(Graph(l), "oc_attack", "partner_loop")
    <3> USE DEF Precedes
    <3>1. CASE l.family = "discovery"
      BY <1>1, <1>6, <3>1 DEF Graph
    <3>2. CASE l.family = "document"
      BY <1>1, <1>6, <3>2 DEF Graph
    <3> QED BY <1>0, <3>1, <3>2
  <2> QED BY <1>1, <2>1, <2>2
<1>7. l.personas \cap {"associate", "partner"} # {}
  BY DEF Selectable
<1> HIDE DEF c
<1> QED
  BY <1>3, <1>4, <1>5, <1>6, <1>7 DEF Owned, Opponents, c

-----------------------------------------------------------------------------
(* The rulings of a judge on the objections of a draft. *)

\* Each pass of the two loops follows from the one before (_align_rulings).
LEMMA EachPass ==
    ASSUME NEW objections, NEW rulings, Len(objections) \in Nat
    PROVE  LET pass == Passes(objections, rulings)
               size == Len(objections)
           IN  /\ pass[0] = [i \in DOMAIN objections |-> Nothing]
               /\ \A k \in 1..size :
                     pass[k] = ClaimByBasis(objections, rulings, pass[k - 1], k)
               /\ \A k \in 1..size :
                     pass[size + k] = ClaimByPlace(rulings, pass[size + k - 1], k)
<1> DEFINE n == 2 * Len(objections)
           none == [i \in DOMAIN objections |-> Nothing]
           Claim(a, k) == IF k <= Len(objections) THEN ClaimByBasis(objections, rulings, a, k)
                          ELSE ClaimByPlace(rulings, a, k - Len(objections))
           Body(f, m) == [k \in 0..m |-> IF k = 0 THEN none ELSE Claim(f[k - 1], k)]
           S == {m \in 0..n : \E f : f = Body(f, m)}
<1> HIDE DEF n, none, Claim
<1>0. n \in Nat
  BY DEF n
<1>1. 0 \in S
  <2>1. PICK f : f = [k \in 0..0 |-> none]
    OBVIOUS
  <2>2. f = Body(f, 0)
    BY <2>1
  <2>3. 0 \in 0..n
    BY <1>0
  <2> HIDE DEF Body
  <2> QED BY <2>2, <2>3
<1>2. ASSUME NEW m \in 1..n, m - 1 \in S PROVE m \in S
  <2>1. PICK f : f = Body(f, m - 1)
    BY <1>2
  <2> DEFINE g == [k \in 0..m |-> IF k < m THEN f[k] ELSE Claim(f[m - 1], m)]
  <2>2. \A k \in 0..m - 1 : g[k] = f[k] /\ f[k] = IF k = 0 THEN none ELSE Claim(f[k - 1], k)
    <3>1. \A k \in 0..m - 1 : f[k] = IF k = 0 THEN none ELSE Claim(f[k - 1], k)
      BY <2>1, Zenon
    <3>2. \A k \in 0..m - 1 : k \in 0..m /\ k < m
      BY <1>0
    <3>3. \A k \in 0..m - 1 : g[k] = f[k]
      BY <3>2
    <3> QED BY <3>1, <3>3
  <2>3. \A k \in 1..m : k - 1 \in 0..m - 1
    BY <1>0
  <2>4. \A k \in 0..m : g[k] = IF k = 0 THEN none ELSE Claim(g[k - 1], k)
    <3> TAKE k \in 0..m
    <3>1. CASE k = 0
      <4>1. 0 \in 0..m - 1
        BY <1>0
      <4> HIDE DEF g
      <4> QED BY <2>2, <3>1, <4>1
    <3>2. CASE k \in 1..m - 1
      <4>1. k - 1 \in 0..m - 1 /\ k \in 0..m - 1 /\ k # 0
        BY <1>0, <3>2
      <4> HIDE DEF g
      <4> QED BY <2>2, <4>1
    <3>3. CASE k = m
      <4>1. m # 0 /\ m - 1 \in 0..m - 1 /\ ~(m < m) /\ m \in 0..m
        BY <1>0
      <4>2. g[m] = Claim(f[m - 1], m)
        BY <4>1
      <4>3. g[m - 1] = f[m - 1]
        BY <2>2, <4>1
      <4> QED BY <3>3, <4>1, <4>2, <4>3
    <3> QED BY <1>0, <3>1, <3>2, <3>3
  <2>5. g = Body(g, m)
    BY <2>4, Zenon
  <2> HIDE DEF g
  <2> QED BY <2>5
<1> HIDE DEF S
<1>3. n \in S
  BY <1>0, <1>1, <1>2, UpTo
<1>4. \E f : f = Body(f, n)
  BY <1>3 DEF S
<1>5. Passes(objections, rulings) = CHOOSE f : f = Body(f, n)
  BY Zenon DEF Passes, n, none, Claim
<1>6. Passes(objections, rulings) = Body(Passes(objections, rulings), n)
  BY <1>4, <1>5, Zenon
<1>7. PICK pass : pass = Passes(objections, rulings)
  OBVIOUS
<1>8. pass = [k \in 0..n |-> IF k = 0 THEN none ELSE Claim(pass[k - 1], k)]
  BY <1>6, <1>7
<1>9. pass[0] = none /\ \A k \in 1..n : pass[k] = Claim(pass[k - 1], k)
  BY <1>0, <1>8
<1>10. \A k \in 1..Len(objections) :
          /\ k \in 1..n /\ k <= Len(objections)
          /\ Len(objections) + k \in 1..n /\ ~(Len(objections) + k <= Len(objections))
          /\ Len(objections) + k - Len(objections) = k
  BY DEF n
<1>11. ASSUME NEW k \in 1..Len(objections)
       PROVE  /\ pass[k] = ClaimByBasis(objections, rulings, pass[k - 1], k)
              /\ pass[Len(objections) + k]
                     = ClaimByPlace(rulings, pass[Len(objections) + k - 1], k)
  BY <1>9, <1>10 DEF Claim
<1> QED BY <1>7, <1>9, <1>11 DEF none

\* A draft's objections and a judge's rulings are lists.
Lists(objections, rulings) ==
    /\ Len(objections) \in Nat /\ DOMAIN objections = 1..Len(objections)
    /\ Len(rulings) \in Nat /\ DOMAIN rulings = 1..Len(rulings)

\* No ruling is given to two objections.
Paired(objections, rulings, a) ==
    /\ a \in [DOMAIN objections -> 0..Len(rulings)]
    /\ \A i, j \in DOMAIN objections : a[i] = a[j] /\ i # j => a[i] = Nothing

\* After k objections: each has a ruling on its basis, or all of those are taken.
BasisTaken(objections, rulings, a, k) ==
    /\ Paired(objections, rulings, a)
    /\ \A i \in DOMAIN objections : a[i] # Nothing => rulings[a[i]].basis = objections[i]
    /\ \A i \in DOMAIN objections : k < i => a[i] = Nothing
    /\ \A i \in DOMAIN objections : i <= k /\ a[i] = Nothing =>
          \A j \in DOMAIN rulings : rulings[j].basis = objections[i] => j \in Range(a)

LEMMA OneClaim ==
    ASSUME NEW objections, NEW rulings, NEW a, Lists(objections, rulings),
           NEW k \in 1..Len(objections), BasisTaken(objections, rulings, a, k - 1)
    PROVE  BasisTaken(objections, rulings, ClaimByBasis(objections, rulings, a, k), k)
<1> DEFINE same == {j \in Free(a, rulings) : rulings[j].basis = objections[k]}
<1>0. PICK b : b = ClaimByBasis(objections, rulings, a, k)
  OBVIOUS
<1>1. /\ a \in [DOMAIN objections -> 0..Len(rulings)]
      /\ DOMAIN objections = 1..Len(objections) /\ DOMAIN rulings = 1..Len(rulings)
      /\ Len(objections) \in Nat /\ Len(rulings) \in Nat
      /\ k \in DOMAIN objections
  BY DEF Lists, BasisTaken, Paired
<1>2. a[k] = Nothing
  BY <1>1 DEF BasisTaken
<1> SUFFICES BasisTaken(objections, rulings, b, k)
  BY <1>0
<1>3. CASE same = {}
  <2>1. b = a
    BY <1>0, <1>3 DEF ClaimByBasis
  <2>2. \A j \in DOMAIN rulings : rulings[j].basis = objections[k] => j \in Range(a)
    BY <1>3 DEF Free
  <2>3. \A i \in DOMAIN objections : (i <= k => i <= k - 1 \/ i = k) /\ (k < i => k - 1 < i)
    BY <1>1
  <2> HIDE DEF same
  <2> QED BY <2>1, <2>2, <2>3 DEF BasisTaken
<1>4. CASE same # {}
  <2>1. PICK j : j = IF k \in same THEN k ELSE Min(same)
    OBVIOUS
  <2>2. b = [a EXCEPT ![k] = j]
    BY <1>0, <1>4, <2>1 DEF ClaimByBasis
  <2>3. j \in same
    <3>1. same \in SUBSET (1..Len(rulings))
      BY <1>1 DEF Free
    <3> HIDE DEF same
    <3> QED BY <1>1, <1>4, <2>1, <3>1, Smallest
  <2>4. j \in 1..Len(rulings) /\ j # Nothing /\ rulings[j].basis = objections[k]
    BY <1>1, <2>3 DEF Free, Nothing
  <2>5. \A i \in DOMAIN objections : a[i] # j
    BY <1>1, <2>3 DEF Free, Range
  <2> HIDE DEF same
  <2>6. /\ b \in [DOMAIN objections -> 0..Len(rulings)] /\ b[k] = j
        /\ \A i \in DOMAIN objections : i # k => b[i] = a[i]
    BY <1>1, <2>2, <2>4
  <2>7. \A x, y \in DOMAIN objections : b[x] = b[y] /\ x # y => b[x] = Nothing
    BY <2>5, <2>6 DEF BasisTaken, Paired
  <2>8. \A i \in DOMAIN objections : b[i] # Nothing => rulings[b[i]].basis = objections[i]
    BY <2>4, <2>6 DEF BasisTaken
  <2>9. \A i \in DOMAIN objections : k < i => b[i] = Nothing
    <3>1. \A i \in DOMAIN objections : k < i => k - 1 < i /\ i # k
      BY <1>1
    <3> QED BY <2>6, <3>1 DEF BasisTaken
  <2>10. Range(a) \ {Nothing} \subseteq Range(b)
    <3>1. DOMAIN a = DOMAIN objections /\ DOMAIN b = DOMAIN objections
      BY <1>1, <2>6
    <3> QED BY <1>2, <2>6, <3>1 DEF Range
  <2>11. ASSUME NEW i \in DOMAIN objections, i <= k, b[i] = Nothing,
                NEW r \in DOMAIN rulings, rulings[r].basis = objections[i]
         PROVE  r \in Range(b)
    <3>1. i # k /\ i <= k - 1 /\ a[i] = Nothing
      BY <1>1, <2>4, <2>6, <2>11
    <3>2. r \in Range(a) /\ r # Nothing
      BY <1>1, <2>11, <3>1 DEF BasisTaken, Nothing
    <3> QED BY <2>10, <3>2
  <2> QED BY <2>6, <2>7, <2>8, <2>9, <2>11 DEF BasisTaken, Paired
<1> QED BY <1>3, <1>4

\* The first loop takes every ruling on the basis of an objection it leaves without one.
LEMMA AllBasisTaken ==
    ASSUME NEW objections, NEW rulings, Lists(objections, rulings)
    PROVE  BasisTaken(objections, rulings, Passes(objections, rulings)[Len(objections)],
                      Len(objections))
<1> DEFINE n == Len(objections)
           S == {k \in 0..n : BasisTaken(objections, rulings, Passes(objections, rulings)[k], k)}
<1>1. n \in Nat /\ DOMAIN objections = 1..n /\ Len(rulings) \in Nat
  BY DEF Lists
<1>2. /\ Passes(objections, rulings)[0] = [i \in DOMAIN objections |-> Nothing]
      /\ \A k \in 1..n : Passes(objections, rulings)[k] =
            ClaimByBasis(objections, rulings, Passes(objections, rulings)[k - 1], k)
  BY <1>1, EachPass
<1>3. 0 \in S
  <2>1. PICK a : a = [i \in DOMAIN objections |-> Nothing]
    OBVIOUS
  <2>2. \A i \in DOMAIN objections : ~(i <= 0)
    BY <1>1
  <2>3. BasisTaken(objections, rulings, a, 0)
    BY <1>1, <2>1, <2>2 DEF BasisTaken, Paired, Nothing
  <2> QED BY <1>1, <1>2, <2>1, <2>3
<1>4. ASSUME NEW k \in 1..n, k - 1 \in S PROVE k \in S
  <2>1. BasisTaken(objections, rulings, Passes(objections, rulings)[k - 1], k - 1)
    BY <1>4
  <2>2. BasisTaken(objections, rulings, Passes(objections, rulings)[k], k)
    BY <1>2, <2>1, OneClaim
  <2> QED BY <1>1, <2>2
<1>5. n \in 0..n
  BY <1>1
<1> HIDE DEF S, n
<1>6. n \in S
  BY <1>1, <1>3, <1>4, <1>5, UpTo
<1> QED BY <1>6 DEF S, n

\* After k objections of the second loop: those it served have the ruling at their place.
PlaceTaken(objections, rulings, first, a) ==
    /\ Paired(objections, rulings, a)
    /\ \A i \in DOMAIN objections :
          IF first[i] # Nothing THEN a[i] = first[i]
          ELSE a[i] # Nothing => a[i] = i /\ i \notin Range(first)

LEMMA OnePlace ==
    ASSUME NEW objections, NEW rulings, NEW first, NEW a, Lists(objections, rulings),
           Paired(objections, rulings, first),
           NEW k \in 1..Len(objections), PlaceTaken(objections, rulings, first, a)
    PROVE  PlaceTaken(objections, rulings, first, ClaimByPlace(rulings, a, k))
<1>0. PICK b : b = ClaimByPlace(rulings, a, k)
  OBVIOUS
<1> SUFFICES ASSUME b # a PROVE PlaceTaken(objections, rulings, first, b)
  BY <1>0
<1>1. /\ a \in [DOMAIN objections -> 0..Len(rulings)]
      /\ first \in [DOMAIN objections -> 0..Len(rulings)]
      /\ DOMAIN objections = 1..Len(objections) /\ DOMAIN rulings = 1..Len(rulings)
      /\ Len(objections) \in Nat /\ Len(rulings) \in Nat
      /\ k \in DOMAIN objections
  BY DEF Lists, PlaceTaken, Paired
<1>2. a[k] = Nothing /\ k \in Free(a, rulings) /\ b = [a EXCEPT ![k] = k]
  BY <1>0 DEF ClaimByPlace
<1>3. /\ k \in 1..Len(rulings) /\ k # Nothing
      /\ \A i \in DOMAIN objections : a[i] # k
  BY <1>1, <1>2 DEF Free, Range, Nothing
<1>4. /\ b \in [DOMAIN objections -> 0..Len(rulings)] /\ b[k] = k
      /\ \A i \in DOMAIN objections : i # k => b[i] = a[i]
  BY <1>1, <1>2, <1>3
<1>5. \A i, j \in DOMAIN objections : b[i] = b[j] /\ i # j => b[i] = Nothing
  BY <1>3, <1>4 DEF PlaceTaken, Paired
<1>6. first[k] = Nothing
  BY <1>1, <1>2 DEF PlaceTaken
<1>7. k \notin Range(first)
  BY <1>1, <1>3 DEF PlaceTaken, Range
<1> QED BY <1>1, <1>4, <1>5, <1>6, <1>7 DEF PlaceTaken, Paired

LEMMA AllPlaceTaken ==
    ASSUME NEW objections, NEW rulings, Lists(objections, rulings)
    PROVE  PlaceTaken(objections, rulings, Passes(objections, rulings)[Len(objections)],
                      Align(objections, rulings))
<1> DEFINE n == Len(objections)
           first == Passes(objections, rulings)[n]
           S == {k \in 0..n : PlaceTaken(objections, rulings, first,
                                         Passes(objections, rulings)[n + k])}
<1>1. n \in Nat /\ n \in 0..n /\ n + 0 = n /\ n + n = 2 * n
  BY DEF Lists
<1>2. Paired(objections, rulings, first)
  BY AllBasisTaken DEF BasisTaken
<1>3. \A k \in 1..n : Passes(objections, rulings)[n + k] =
          ClaimByPlace(rulings, Passes(objections, rulings)[n + k - 1], k)
  BY <1>1, EachPass
<1> HIDE DEF n, first
<1>4. 0 \in S
  <2>1. PlaceTaken(objections, rulings, first, first)
    BY <1>2 DEF PlaceTaken
  <2> QED BY <1>1, <2>1 DEF first
<1>5. ASSUME NEW k \in 1..n, k - 1 \in S PROVE k \in S
  <2>1. n + (k - 1) = n + k - 1 /\ k \in 0..n
    BY <1>1
  <2>2. PlaceTaken(objections, rulings, first, Passes(objections, rulings)[n + k])
    BY <1>2, <1>3, <1>5, <2>1, OnePlace DEF n
  <2> QED BY <2>1, <2>2
<1> HIDE DEF S
<1>6. n \in S
  BY <1>1, <1>4, <1>5, UpTo
<1> QED BY <1>1, <1>6 DEF S, n, first, Align

\* No ruling counts twice, and on each basis as many objections are served by a ruling on
\* it as there are rulings, or objections (_align_rulings).
LEMMA AlignedOn ==
    ASSUME NEW objections, NEW rulings, Lists(objections, rulings), NEW b
    PROVE  LET aligned == Align(objections, rulings)
               bases == [j \in DOMAIN rulings |-> rulings[j].basis]
           IN  /\ \A i, j \in DOMAIN objections :
                     aligned[i] = aligned[j] /\ i # j => aligned[i] = Nothing
               /\ DOMAIN aligned = DOMAIN objections
               /\ Cardinality({i \in On(objections, b) : aligned[i] \in On(bases, b)})
                     = Min({Cardinality(On(objections, b)), Cardinality(On(bases, b))})
<1>0. PICK first, aligned :
          first = Passes(objections, rulings)[Len(objections)] /\ aligned = Align(objections, rulings)
  OBVIOUS
<1>1. /\ BasisTaken(objections, rulings, first, Len(objections))
      /\ PlaceTaken(objections, rulings, first, aligned)
  BY <1>0, AllBasisTaken, AllPlaceTaken
<1>2. /\ first \in [DOMAIN objections -> 0..Len(rulings)]
      /\ aligned \in [DOMAIN objections -> 0..Len(rulings)]
      /\ DOMAIN objections = 1..Len(objections) /\ DOMAIN rulings = 1..Len(rulings)
      /\ Len(objections) \in Nat /\ Len(rulings) \in Nat
  BY <1>1 DEF Lists, BasisTaken, PlaceTaken, Paired
<1> DEFINE bases == [j \in DOMAIN rulings |-> rulings[j].basis]
           O == On(objections, b)
           R == On(bases, b)
           A == {i \in O : aligned[i] \in R}
<1>3. /\ IsFiniteSet(O) /\ IsFiniteSet(R)
      /\ Cardinality(O) \in Nat /\ Cardinality(R) \in Nat
  <2>1. 1 \in Int /\ Len(objections) \in Int /\ Len(rulings) \in Int
    BY <1>2
  <2>2. IsFiniteSet(1..Len(objections)) /\ IsFiniteSet(1..Len(rulings))
    BY <2>1, FS_Interval
  <2>3. O \in SUBSET (1..Len(objections)) /\ R \in SUBSET (1..Len(rulings))
    BY <1>2 DEF On
  <2> HIDE DEF O, R
  <2> QED BY <2>2, <2>3, FS_Subset, FS_CardinalityType
<1>4. \A j : j \in R <=> j \in DOMAIN rulings /\ rulings[j].basis = b
  BY DEF On
<1>5. \A i : i \in O <=> i \in DOMAIN objections /\ objections[i] = b
  BY DEF On
<1> HIDE DEF O, R, bases
<1>6. \A i \in O : i \in A <=> first[i] # Nothing
  <2> TAKE i \in O
  <2>1. i \in DOMAIN objections /\ objections[i] = b
    BY <1>5
  <2>2. CASE first[i] # Nothing
    <3>1. aligned[i] = first[i] /\ rulings[first[i]].basis = b
      BY <1>1, <2>1, <2>2 DEF PlaceTaken, BasisTaken
    <3>2. first[i] \in DOMAIN rulings
      BY <1>2, <2>1, <2>2 DEF Nothing
    <3> QED BY <1>4, <2>2, <3>1, <3>2
  <2>3. CASE first[i] = Nothing
    <3> SUFFICES ASSUME aligned[i] \in R PROVE FALSE
      BY <2>3
    <3>1. aligned[i] # Nothing
      BY <1>2, <1>4 DEF Nothing
    <3>2. aligned[i] = i /\ i \notin Range(first)
      BY <1>1, <2>1, <2>3, <3>1 DEF PlaceTaken
    <3>3. i \in DOMAIN rulings /\ rulings[i].basis = b /\ i <= Len(objections)
      BY <1>2, <1>4, <2>1, <3>2
    <3> QED BY <1>1, <2>1, <2>3, <3>2, <3>3 DEF BasisTaken
  <2> QED BY <2>2, <2>3
<1>7. A \in SUBSET O /\ IsFiniteSet(A) /\ Cardinality(A) <= Cardinality(O)
      /\ Cardinality(A) \in Nat
  <2>1. A \in SUBSET O
    OBVIOUS
  <2> QED BY <1>3, <2>1, FS_Subset, FS_CardinalityType
<1>8. PICK f : f = [i \in A |-> aligned[i]]
  OBVIOUS
<1>9. f \in Injection(A, R)
  <2>1. f \in [A -> R]
    BY <1>8
  <2>2. \A i, j \in A : f[i] = f[j] => i = j
    <3>1. \A i \in A : i \in DOMAIN objections /\ aligned[i] # Nothing
      BY <1>2, <1>4, <1>5 DEF Nothing
    <3> QED BY <1>1, <1>8, <3>1 DEF PlaceTaken, Paired
  <2> QED BY <2>1, <2>2 DEF Injection, IsInjective
<1>10. /\ Cardinality(A) <= Cardinality(R)
       /\ f \in Surjection(A, R) => Cardinality(A) = Cardinality(R)
  BY <1>3, <1>9, FS_Injection
<1>11. Cardinality(A) = Cardinality(O) \/ Cardinality(A) = Cardinality(R)
  <2>1. CASE A = O
    BY <2>1
  <2>2. ASSUME NEW i \in O, i \notin A PROVE f \in Surjection(A, R)
    <3>1. \A r \in R : r \in Range(first)
      <4>1. first[i] = Nothing /\ i \in DOMAIN objections /\ objections[i] = b
            /\ i <= Len(objections)
        BY <1>2, <1>5, <1>6, <2>2
      <4> QED BY <1>1, <1>4, <4>1 DEF BasisTaken
    <3>2. ASSUME NEW r \in R PROVE \E j \in A : f[j] = r
      <4>1. PICK j \in DOMAIN objections : first[j] = r
        BY <1>2, <3>1, <3>2 DEF Range
      <4>2. r # Nothing /\ rulings[r].basis = b
        BY <1>2, <1>4, <3>2 DEF Nothing
      <4>3. j \in O
        BY <1>1, <1>5, <4>1, <4>2 DEF BasisTaken
      <4>4. j \in A
        BY <1>6, <4>1, <4>2, <4>3
      <4>5. aligned[j] = r
        BY <1>1, <4>1, <4>2 DEF PlaceTaken
      <4> QED BY <1>8, <4>4, <4>5
    <3> QED BY <1>9, <3>2 DEF Injection, Surjection
  <2> QED BY <1>7, <1>10, <2>1, <2>2
<1>12. Cardinality(A) = Min({Cardinality(O), Cardinality(R)})
  <2>1. PICK x, y, z : x = Cardinality(A) /\ y = Cardinality(O) /\ z = Cardinality(R)
    OBVIOUS
  <2>2. /\ x \in {y, z} /\ \A u \in {y, z} : x <= u
        /\ \A v \in {y, z} : (\A u \in {y, z} : v <= u) => v = x
    BY <1>3, <1>7, <1>10, <1>11, <2>1
  <2>3. x = Min({y, z})
    BY <2>2 DEF Min
  <2> QED BY <2>1, <2>3
<1>13. /\ \A i, j \in DOMAIN objections :
             aligned[i] = aligned[j] /\ i # j => aligned[i] = Nothing
       /\ DOMAIN aligned = DOMAIN objections
  BY <1>1, <1>2 DEF PlaceTaken, Paired
<1> QED BY <1>0, <1>12, <1>13 DEF O, R, bases

LEMMA AlignedOnce ==
    ASSUME NEW objections, NEW rulings, Lists(objections, rulings)
    PROVE  CountOnce(objections, rulings, Align(objections, rulings))
<1>1. PICK aligned : aligned = Align(objections, rulings)
  OBVIOUS
<1>2. PICK bases : bases = [j \in DOMAIN rulings |-> rulings[j].basis]
  OBVIOUS
<1>3. ASSUME NEW b
      PROVE  /\ \A i, j \in DOMAIN aligned :
                   aligned[i] = aligned[j] /\ i # j => aligned[i] = Nothing
             /\ Cardinality({i \in On(objections, b) : aligned[i] \in On(bases, b)})
                   = Min({Cardinality(On(objections, b)), Cardinality(On(bases, b))})
  BY <1>1, <1>2, AlignedOn
<1> QED BY <1>1, <1>2, <1>3, Zenon DEF CountOnce
=============================================================================
