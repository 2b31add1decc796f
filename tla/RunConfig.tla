----------------------------- MODULE RunConfig ------------------------------
(***************************************************************************)
(* resolve_run_config: the settings a launch is bound to, from five layers *)
(* of precedence.  A layer is a function from the settings it gives to     *)
(* their values; a group of settings given as null is the group's name.    *)
(* A configuration is [defaults, adapter, allowed, firm, matter, flags].   *)
(***************************************************************************)
EXTENDS Naturals

CONSTANT Null       \* what a key that is present but empty gives

PanelSettings == {"judges", "jury", "jurors", "panel"}
LoopSettings == {"ap", "oc", "bolster", "restructure"}
BudgetSettings == {"tier", "cap"}
Groups == {"panels", "loop_caps", "budget"}

Settings == PanelSettings \cup LoopSettings \cup BudgetSettings
              \cup {"stages", "gates", "rubric_id", "deliverables", "mode", "attempts"}

\* the shape of the task belongs to its adapter, leaf by leaf
Structural == PanelSettings \cup {"stages", "gates", "deliverables"}

\* of the task's identity an overlay has a field for the rubric alone
Identity == {"rubric_id"}

SettingsOf(group) == CASE group = "panels" -> PanelSettings
                       [] group = "loop_caps" -> LoopSettings
                       [] group = "budget" -> BudgetSettings
                       [] OTHER -> {}

\* a group is given setting by setting or not at all
IsLayer(layer) == \A g \in Groups \cap DOMAIN layer : SettingsOf(g) \cap DOMAIN layer = {}

\* a null takes the place of a whole group, and a group that of a null
Displaced(layer) ==
    DOMAIN layer
      \cup (UNION {SettingsOf(g) : g \in Groups \cap DOMAIN layer})
      \cup {g \in Groups : SettingsOf(g) \cap DOMAIN layer # {}}

\* _deep_merge
Over(base, layer) ==
    [k \in (DOMAIN base \ Displaced(layer)) \cup DOMAIN layer |->
        IF k \in DOMAIN layer THEN layer[k] ELSE base[k]]

\* _enforce_structural_policy: a layer may repeat what stands, or set a leaf the
\* adapter lists
Permits(base, layer, allowed) ==
    /\ DOMAIN layer \cap Identity = {}
    /\ \A k \in DOMAIN layer \cap Structural :
          \/ k \in allowed
          \/ k \in DOMAIN base /\ base[k] = layer[k]

JurorsIn(m) == IF "jurors" \in DOMAIN m THEN m["jurors"] ELSE 0

\* ResolvedRunConfig: every setting but the last two has to be there
Valid(m) ==
    /\ Settings \ {"jurors", "cap"} \subseteq DOMAIN m
    /\ \A k \in {"ap", "judges", "panel", "attempts"} : m[k] \in Nat \ {0}
    /\ \A k \in {"oc", "bolster", "restructure"} : m[k] \in Nat
    /\ JurorsIn(m) \in Nat
    /\ \A k \in {"stages", "gates", "deliverables", "rubric_id", "mode", "tier"} : m[k] # Null
    /\ m["stages"] # << >>
    /\ m["jury"] \in BOOLEAN
    /\ m["jury"] => JurorsIn(m) >= 1

-----------------------------------------------------------------------------
\* the layers of a launch

\* the matter's own mode and budget stand below every authored layer
Fallback(matter) == [k \in {"mode", "tier", "cap"} |-> matter[k]]

\* run_config's panels are laid over the jury the matter names at its top level
MatterLayer(matter) ==
    [k \in (DOMAIN matter.panels \cup DOMAIN matter.overlay) \ {"panels"} |->
        IF k \in DOMAIN matter.overlay THEN matter.overlay[k] ELSE matter.panels[k]]

\* firm preferences live in neither the repository nor the vault
FirmMayApply(firm) == firm.at \in {"absent", "outside"}

AdapterJury(c) == "jury" \in DOMAIN c.adapter /\ c.adapter["jury"]

\* TaskAdapterConfig: no identity and no group can be listed
AdapterLoads(c) ==
    /\ c.allowed \subseteq Structural
    /\ AdapterJury(c) => JurorsIn(c.adapter) >= 1

\* the second layer owns the shape and may replace any default
Shaped(c) == Over(Over(c.defaults, Fallback(c.matter)), c.adapter)

Preferred(c) == Over(Shaped(c), c.firm.layer)

Authored(c) == Over(Preferred(c), MatterLayer(c.matter))

Resolved(c) == Over(Authored(c), c.flags)

Resolves(c) ==
    /\ AdapterLoads(c) /\ FirmMayApply(c.firm)
    /\ Permits(Shaped(c), c.firm.layer, c.allowed)
    /\ Permits(Preferred(c), MatterLayer(c.matter), c.allowed)
    /\ Permits(Authored(c), c.flags, c.allowed)
    /\ Valid(Resolved(c))
=============================================================================
