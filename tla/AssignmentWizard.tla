--------------------------- MODULE AssignmentWizard ---------------------------
(***************************************************************************)
(* _prompt_for_sensor_assignments (system_test/runner.py): the operator    *)
(* chooses sensor families, for each an algorithm, a number of sensors and *)
(* their locations on a subject, until a subject has as many sensors as it *)
(* may have or the operator is content.  This is the step Plan of          *)
(* SystemTest.  What there is to choose from is what the running core said *)
(* it supports when the test began and, by the catalog of inventory.py,    *)
(* what is installed here: the sensors as of the beginning, the algorithms *)
(* as of each prompt.  The core and the sensors' specifications call an    *)
(* algorithm by its name, the catalog has a plugin by its id, and plugins  *)
(* may share a name.  The plugin in whose repository the test is started,  *)
(* the current one, has an id and a display name of its own; the first     *)
(* assignment is meant for it.                                             *)
(***************************************************************************)
EXTENDS Naturals, FiniteSets, SequencesExt

CONSTANTS Families,      \* the installed sensor plugins
          Locations,     \* places on a subject
          Supports,      \* the locations that each family lists
          Algorithms,    \* the algorithm plugins, by plugin_id
          AlgorithmNames,\* the names of algorithms, normalized
          NameOf,        \* the name in the metadata of each algorithm plugin
          Lower,         \* the plugin whose id is the normalized id of each, or None
          Order,         \* the place of each plugin's file in the sorted catalog
          Computes,      \* computations: the names that each family lists, in order
          PassThrough,   \* the name that goes with any family
          None,          \* no current plugin; a display name that no algorithm has
          MaxChanges,    \* bound: changes of the catalog during the test
          MaxPerSubject  \* sensors a subject may have (8)

ASSUME FamiliesToChoose == Families # {}
ASSUME LocationsAreFinite == IsFiniteSet(Locations)
ASSUME SupportedLocations == Supports \in [Families -> SUBSET Locations]
ASSUME NamedAlgorithms ==
    /\ Algorithms # {}
    /\ NameOf \in [Algorithms -> AlgorithmNames]
    /\ Lower \in [Algorithms -> Algorithms \cup {None}]
    /\ Order \in [Algorithms -> Nat]
    /\ \A p, q \in Algorithms : Order[p] = Order[q] => p = q
ASSUME ListedAlgorithms == Computes \in [Families -> Seq(AlgorithmNames)]
ASSUME PassThroughIsOne == PassThrough \in AlgorithmNames
ASSUME KindsDiffer ==
    Families \cap Algorithms = {} /\ None \notin Families \cup Algorithms \cup AlgorithmNames
ASSUME ChangeBound == MaxChanges \in Nat
ASSUME RoomForSensors == MaxPerSubject \in Nat \ {0}

VARIABLES
    sensors,      \* the families that are installed and that the core supports
    installed,    \* the algorithm plugins whose catalog entry is enabled and has an
                  \* install path for its active version
    live,         \* live_algorithms: the names that the core supports
    current_plugin, \* the plugin of the working directory, or None
    display_name, \* the name its plugin.json displays, normalized
    step,         \* the prompt, or how the wizard ended
    sensor,       \* the family that is being assigned, anything before the first
    catalog,      \* installed_algorithms, as read for its algorithm
    algorithm,    \* the plugin whose algorithm was chosen for it
    sensor_count, \* the number of sensors accepted for it
    selected,     \* selected_locations
    used,         \* used_plugin_ids
    occupied,     \* used_locations
    total,        \* total_sensor_count
    assignments,  \* the assignments made; of each also, as history, the catalog
    changes       \* history: changes of the catalog

given == <<sensors, live, current_plugin, display_name>>
current == <<sensor, catalog, algorithm, sensor_count, selected>>
plan == <<used, occupied, total, assignments>>
vars == <<given, installed, changes, step, current, plan>>

Prompts == {"sensor", "choice", "count", "location", "more"}
Ends == {"done", "cancelled", "no_algorithm", "too_many", "no_location"}

Plugins == Families \cup Algorithms

\* Those with a catalog entry that is enabled and has an install path for its active
\* version, and whose sensor type the core supports; without any the run ends before
\* the wizard.
SensorOptions == (SUBSET Families) \ {{}}

\* The plugin of the working directory, with the name it displays: that of an
\* algorithm may be the name of any algorithm.  A sensor plugin need not be installed:
\* what the core must support is the type that the repository declares.
Contexts == ((Families \cup {None}) \X {None}) \cup (Algorithms \X (AlgorithmNames \cup {None}))

Init ==
    /\ sensors \in SensorOptions
    /\ installed \in SUBSET Algorithms
    /\ live \in SUBSET AlgorithmNames
    /\ \E c \in Contexts : current_plugin = c[1] /\ display_name = c[2]
    /\ changes = 0
    /\ step = "sensor"
    /\ sensor = CHOOSE f \in sensors : TRUE
    /\ catalog = {}
    /\ algorithm = CHOOSE p \in Algorithms : TRUE
    /\ sensor_count = 0
    /\ selected = << >>
    /\ used = {}
    /\ occupied = {}
    /\ total = 0
    /\ assignments = << >>

\* q, quit, exit, cancel or an interrupt, at any prompt.
Cancel ==
    /\ step \in Prompts
    /\ step' = "cancelled"
    /\ UNCHANGED <<given, installed, changes, current, plan>>

\* A plugin is installed, removed, enabled or disabled from another shell.
ChangeCatalog ==
    /\ step \notin Ends
    /\ changes < MaxChanges
    /\ \E a \in Algorithms :
          installed' = IF a \in installed THEN installed \ {a} ELSE installed \cup {a}
    /\ changes' = changes + 1
    /\ UNCHANGED <<given, step, current, plan>>

\* The families to choose from: for the first assignment the current plugin, if it is
\* among them, is taken without a prompt.
Preferred(options) ==
    IF assignments = << >> /\ current_plugin \in options THEN {current_plugin} ELSE options

ChooseSensor ==
    /\ step = "sensor"
    /\ sensor' \in Preferred(sensors \ used)
    /\ sensor_count' = 0
    /\ selected' = << >>
    /\ step' = "algorithm"
    /\ UNCHANGED <<given, installed, changes, catalog, algorithm, plan>>

NoSensorLeft ==
    /\ step = "sensor"
    /\ used = sensors
    /\ step' = "done"
    /\ UNCHANGED <<given, installed, changes, current, plan>>

\* load_installed_algorithms keeps, of the plugins with one algorithm name, the one
\* whose file comes last.
Kept(p, cat) == p \in cat /\ \A q \in cat : NameOf[q] = NameOf[p] => Order[q] <= Order[p]

Compatible(f) == ToSet(Computes[f]) \cup {PassThrough}

\* The plugins whose algorithm may be chosen for the family.
Candidates(f, cat) ==
    {p \in Algorithms : Kept(p, cat) /\ NameOf[p] \in Compatible(f) \cap live}

\* The candidates stand in the order of the family's list; pass_through, unless it is
\* listed, comes last.
Precedes(f, m, n) ==
    \E i \in DOMAIN Computes[f] : Computes[f][i] = m /\ \A j \in 1..i : Computes[f][j] # n

\* Mutant of IsCurrent: only the names are compared.
IsNamedAsCurrent(p) == NameOf[p] = display_name

\* A candidate passes for the current plugin by its id or by its name.
IsCurrent(p) == p = current_plugin \/ NameOf[p] = display_name

\* The candidate that is taken without a prompt, if any: for the first assignment, the
\* first that passes for the current algorithm plugin.
Preselected(f, options) ==
    {p \in options :
        /\ assignments = << >> /\ current_plugin \in Algorithms
        /\ IsCurrent(p)
        /\ \A q \in options :
              q # p /\ IsCurrent(q) => ~Precedes(f, NameOf[q], NameOf[p])}

\* The core does not know an algorithm of the name that the current plugin displays,
\* nor has the catalog a plugin with the current one's id, in lower case.
CurrentIsMissing(cat) ==
    /\ assignments = << >>
    /\ current_plugin \in Algorithms
    /\ display_name \notin live
    /\ ~\E p \in cat : Kept(p, cat) /\ p = Lower[current_plugin]

NoAlgorithm ==
    /\ step = "algorithm"
    /\ CurrentIsMissing(installed) \/ Candidates(sensor, installed) = {}
    /\ step' = "no_algorithm"
    /\ catalog' = installed
    /\ UNCHANGED <<given, installed, changes, sensor, algorithm, sensor_count, selected,
                   plan>>

TakeCurrent ==
    /\ step = "algorithm"
    /\ ~CurrentIsMissing(installed)
    /\ algorithm' \in Preselected(sensor, Candidates(sensor, installed))
    /\ step' = "count"
    /\ catalog' = installed
    /\ UNCHANGED <<given, installed, changes, sensor, sensor_count, selected, plan>>

OfferAlgorithms ==
    /\ step = "algorithm"
    /\ ~CurrentIsMissing(installed)
    /\ Candidates(sensor, installed) # {}
    /\ Preselected(sensor, Candidates(sensor, installed)) = {}
    /\ step' = "choice"
    /\ catalog' = installed
    /\ UNCHANGED <<given, installed, changes, sensor, algorithm, sensor_count, selected,
                   plan>>

\* The answer comes later: what was read may no longer be installed.
ChooseAlgorithm ==
    /\ step = "choice"
    /\ algorithm' \in Candidates(sensor, catalog)
    /\ step' = "count"
    /\ UNCHANGED <<given, installed, changes, sensor, catalog, sensor_count, selected,
                   plan>>

\* max_sensor_count
MaxCount(f) ==
    IF Cardinality(Supports[f]) < MaxPerSubject - total
    THEN Cardinality(Supports[f]) ELSE MaxPerSubject - total

ChooseCount ==
    /\ step = "count"
    /\ IF MaxCount(sensor) = 0
       THEN step' = "too_many" /\ UNCHANGED sensor_count
       ELSE sensor_count' \in 1..MaxCount(sensor) /\ step' = "location"
    /\ UNCHANGED <<given, installed, changes, sensor, catalog, algorithm, selected,
                   plan>>

\* Mutant of Remaining: only this family's own choices are ruled out.
RemainingOfFamily(f) == Supports[f] \ ToSet(selected)

Remaining(f) == Supports[f] \ (ToSet(selected) \cup occupied)

ChooseLocation ==
    /\ step = "location"
    /\ Len(selected) < sensor_count
    /\ \E l \in Remaining(sensor) : selected' = Append(selected, l)
    /\ UNCHANGED <<given, installed, changes, step, sensor, catalog, algorithm,
                   sensor_count, plan>>

NoLocationLeft ==
    /\ step = "location"
    /\ Len(selected) < sensor_count
    /\ Remaining(sensor) = {}
    /\ step' = "no_location"
    /\ UNCHANGED <<given, installed, changes, current, plan>>

Occupy == occupied' = occupied \cup ToSet(selected)

Full == total' >= MaxPerSubject

Assign ==
    /\ step = "location"
    /\ Len(selected) = sensor_count
    /\ assignments' = Append(assignments, [sensor |-> sensor, algorithm |-> algorithm,
                                           catalog |-> catalog, locations |-> selected])
    /\ used' = used \cup {sensor}
    /\ Occupy
    /\ total' = total + sensor_count
    /\ step' = IF Full THEN "done" ELSE "more"
    /\ UNCHANGED <<given, installed, changes, current>>

AddAnother ==
    /\ step = "more"
    /\ step' \in {"sensor", "done"}
    /\ UNCHANGED <<given, installed, changes, current, plan>>

Next == \/ Cancel \/ ChangeCatalog \/ ChooseSensor \/ NoSensorLeft
        \/ NoAlgorithm \/ TakeCurrent \/ OfferAlgorithms \/ ChooseAlgorithm
        \/ ChooseCount \/ ChooseLocation \/ NoLocationLeft \/ Assign
        \/ AddAnother

Spec == Init /\ [][Next]_vars

-----------------------------------------------------------------------------
(* Properties.                                                              *)

\* Type invariant: in particular no subject gets more sensors than it may have.
TypeOK ==
    /\ sensors \subseteq Families
    /\ step \in Prompts \cup Ends \cup {"algorithm"}
    /\ installed \subseteq Algorithms /\ live \subseteq AlgorithmNames
    /\ current_plugin \in Plugins \cup {None}
    /\ display_name \in AlgorithmNames \cup {None}
    /\ catalog \subseteq Algorithms
    /\ sensor \in Families /\ algorithm \in Algorithms
    /\ changes \in 0..MaxChanges
    /\ sensor_count \in 0..MaxPerSubject
    /\ selected \in Seq(Locations)
    /\ used \subseteq sensors
    /\ occupied \subseteq Locations
    /\ total \in 0..MaxPerSubject
    /\ assignments \in Seq([sensor : Families, algorithm : Algorithms,
                            catalog : SUBSET Algorithms, locations : Seq(Locations)])

\* The sensors of the plan, each as the position of its assignment and its
\* position in that.
Placed == {p \in (DOMAIN assignments) \X (1..MaxPerSubject) :
              p[2] <= Len(assignments[p[1]].locations)}
Place(p) == assignments[p[1]].locations[p[2]]

\* Whatever families are combined, no two sensors of a subject share a location,
\* each has one that its family supports, no family occurs twice, and a subject has no
\* more sensors than it may.
PlanFitsSubject ==
    /\ \A p, q \in Placed : Place(p) = Place(q) => p = q
    /\ \A p \in Placed : Place(p) \in Supports[assignments[p[1]].sensor]
    /\ \A i, j \in DOMAIN assignments :
          assignments[i].sensor = assignments[j].sensor => i = j
    /\ total = Cardinality(Placed)
    /\ total <= MaxPerSubject

\* Each family has an algorithm that the core supports, that it lists itself,
\* pass_through apart, and that was installed when it was offered.  One name stands for
\* two plugins in a plan only if the catalog changed between their assignments.
AlgorithmsAreKnown ==
    /\ \A i \in DOMAIN assignments :
          assignments[i].algorithm \in Candidates(assignments[i].sensor, assignments[i].catalog)
    /\ \A i, j \in DOMAIN assignments :
          /\ NameOf[assignments[i].algorithm] = NameOf[assignments[j].algorithm]
          /\ assignments[i].catalog = assignments[j].catalog
          => assignments[i].algorithm = assignments[j].algorithm

\* The wizard gives up for want of locations only if the operator was offered,
\* and took, a count larger than the locations that other families left free.
ShortOnlyIfOvercounted ==
    step = "no_location" =>
        sensor_count > Cardinality(Supports[sensor] \ {Place(p) : p \in Placed})

\* The plan that comes out, and why none does, follow from what was there.
PlanIsSound == PlanFitsSubject /\ AlgorithmsAreKnown /\ ShortOnlyIfOvercounted

\* The current algorithm plugin goes before a candidate only by its place in the list of
\* the family: one that bears the name it displays may come first.
IsTested(f, p) ==
    \/ p = current_plugin
    \/ NameOf[p] = display_name /\ ~Precedes(f, NameOf[current_plugin], display_name)

\* The first assignment tests the plugin in whose repository the test was started,
\* whatever the operator answers and the catalog becomes: a sensor plugin, if it is
\* installed and the core supports it; an algorithm plugin, if it is a candidate when
\* the algorithms are read (listed by the family, known to the core, and not hidden by
\* another of its name), unless another has the name that it displays.  A candidate
\* with that name passes for a current plugin that is none.  Nothing is assigned to a
\* current algorithm plugin that neither the core nor the catalog seems to have; and a
\* candidate is taken for missing only if its id is not in lower case and the core
\* does not know the name that it displays.
CurrentIsTested ==
    /\ assignments # << >> =>
          LET first == assignments[1]
              options == Candidates(first.sensor, first.catalog) IN
          /\ current_plugin \in sensors => first.sensor = current_plugin
          /\ current_plugin \in options => IsTested(first.sensor, first.algorithm)
          /\ current_plugin \in Algorithms /\ (\E p \in options : NameOf[p] = display_name) =>
                first.algorithm = current_plugin \/ NameOf[first.algorithm] = display_name
          /\ current_plugin \in Algorithms =>
                display_name \in live \/ Lower[current_plugin] \in first.catalog
    /\ step = "no_algorithm" /\ assignments = << >>
       /\ current_plugin \in Candidates(sensor, catalog) =>
          Lower[current_plugin] # current_plugin /\ display_name \notin live

=============================================================================
