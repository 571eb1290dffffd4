------------------------------ MODULE PluginEnv ------------------------------
(***************************************************************************)
(* The commands init and test (main.py, plugin_env.py, scaffold/): one     *)
(* after the other they create plugin repositories and their .venv, bring  *)
(* a .venv up to date, unpack bundles into a temporary environment, and    *)
(* start a harness in the environments of its plugins.  Any command may be *)
(* cut off, by an error of venv or pip or by the operator, and leaves on   *)
(* disk what it has done so far.  Between commands the operator may remove *)
(* a .venv or make, repair and fill one by hand.                           *)
(* AlgorithmHarnessProofs extends this module beside others: EInit, ENext  *)
(* and so on are its Init, Next and so on.                                 *)
(***************************************************************************)
EXTENDS Naturals, Sequences, FiniteSets

CONSTANTS Plugins,     \* plugin repositories
          MaxCommands  \* bound: commands that are given, and changes by hand

ASSUME CommandBound == MaxCommands \in Nat

Packages == {"tools", "sdk", "plugin"}

\* What a harness is to load: a plugin from its repository or from a bundle.
Targets == [plugin : Plugins, bundle : BOOLEAN]

VARIABLES
    sdk_root,  \* whether the tooling finds the source of the SDK beside its own
    repo,      \* the directory of each plugin: "absent", "empty", "begun", "whole"
    venv,      \* its .venv: "none", "partial" (no interpreter), "no_pip", "whole"
    has,       \* what pip has installed there
    cut,       \* history: plugins whose last preparation was cut off
    by_hand,   \* history: plugins whose .venv was changed by hand since then
    command,   \* the command under way: "init", "test" or "refresh", or "none"
    targets,   \* the targets of the command, in the order in which it takes them
    at,        \* the index of the one that it works on
    step,      \* what it does next with that one
    launches,  \* history: the targets that the last command started a harness with
    given      \* history: the number of commands given and changes by hand

disk == <<repo, venv, has>>
run == <<command, targets, at, step>>
doubts == <<cut, by_hand>>
evars == <<sdk_root, disk, doubts, run, launches, given>>

EInit ==
    /\ sdk_root \in BOOLEAN
    /\ repo \in [Plugins -> {"absent", "empty", "whole"}]
    /\ venv = [p \in Plugins |-> "none"]
    /\ has = [p \in Plugins |-> {}]
    /\ cut = {}
    /\ by_hand = {}
    /\ command = "none"
    /\ targets = << >>
    /\ at = 1
    /\ step = "none"
    /\ launches = {}
    /\ given = 0

\* What a whole preparation installs: the SDK's source is left out if not found.
Wanted == IF sdk_root THEN Packages ELSE Packages \ {"sdk"}

Here == targets[at]
Plugin == Here.plugin

Begin(kind, ts) ==
    /\ command = "none"
    /\ given < MaxCommands
    /\ given' = given + 1
    /\ command' = kind
    /\ targets' = ts
    /\ at' = 1
    /\ launches' = {}

End ==
    /\ command' = "none"
    /\ targets' = << >>
    /\ at' = 1
    /\ step' = "none"

-----------------------------------------------------------------------------
(* init: a directory, the files of the scaffold, the .venv.                 *)

\* _prepare_target_dir: an existing directory must be empty, and needs --force.
MayCreate(p, force) ==
    venv[p] = "none" /\ (repo[p] = "absent" \/ (repo[p] = "empty" /\ force))

\* A directory that may not be used ends the command with nothing changed.
StartInit(p, force) ==
    /\ MayCreate(p, force)
    /\ Begin("init", <<[plugin |-> p, bundle |-> FALSE]>>)
    /\ repo' = [repo EXCEPT ![p] = "empty"]
    /\ step' = "write"
    /\ UNCHANGED <<sdk_root, venv, has, doubts>>

\* The files are written one by one; pyproject.toml is the second of them.
WriteFiles ==
    /\ step = "write"
    /\ repo' = [repo EXCEPT ![Plugin] = IF @ = "empty" THEN "begun" ELSE "whole"]
    /\ step' = IF repo[Plugin] = "empty" THEN "write" ELSE "venv"
    /\ UNCHANGED <<sdk_root, venv, has, doubts, command, targets, at, launches, given>>

-----------------------------------------------------------------------------
(* prepare_plugin_venv, for init and --refresh-env.                         *)

\* Mutant of CreateVenv: a .venv without an interpreter is made anew.
CreateOrRepairVenv ==
    /\ step = "venv"
    /\ venv' = [venv EXCEPT ![Plugin] = IF @ \in {"none", "partial"} THEN "whole" ELSE @]
    /\ step' = "tools"
    /\ UNCHANGED <<sdk_root, repo, has, doubts, command, targets, at, launches, given>>

\* Mutant of CreateVenv: a .venv that exists is taken to be up to date.
CreateVenvOrSkip ==
    /\ step = "venv"
    /\ venv' = [venv EXCEPT ![Plugin] = IF @ = "none" THEN "whole" ELSE @]
    /\ step' = IF venv[Plugin] = "none" THEN "tools" ELSE "next"
    /\ UNCHANGED <<sdk_root, repo, has, doubts, command, targets, at, launches, given>>

\* Also where there is no repository: venv creates the directories above.
CreateVenv ==
    /\ step = "venv"
    /\ venv' = [venv EXCEPT ![Plugin] = IF @ = "none" THEN "whole" ELSE @]
    /\ step' = "tools"
    /\ UNCHANGED <<sdk_root, repo, has, doubts, command, targets, at, launches, given>>

\* A target is done with; the next one is begun in the way the command says.
Advance(i) ==
    /\ at' = i
    /\ step' = IF i > Len(targets) THEN "launch"
               ELSE IF targets[i].bundle THEN "unpack"
               ELSE IF command = "refresh" THEN "venv" ELSE "check"

\* The interpreter and pip are needed, and for the plugin its pyproject.toml.
Install(package) ==
    /\ step = package
    /\ venv[Plugin] = "whole"
    /\ package = "plugin" => repo[Plugin] \in {"begun", "whole"}
    /\ has' = [has EXCEPT ![Plugin] = @ \cup {package}]
    /\ IF package = "plugin"
       THEN cut' = cut \ {Plugin} /\ by_hand' = by_hand \ {Plugin} /\ step' = "next"
       ELSE UNCHANGED doubts /\ step' = IF package = "tools" /\ sdk_root THEN "sdk"
                                         ELSE "plugin"
    /\ UNCHANGED <<sdk_root, repo, venv, command, targets, at, launches, given>>

NextTarget ==
    /\ step = "next"
    /\ Advance(at + 1)
    /\ UNCHANGED <<sdk_root, disk, doubts, command, targets, launches, given>>

-----------------------------------------------------------------------------
(* test: each target gets its environment, then the harness is started.     *)

StartTest(ts, refresh) ==
    /\ Begin(IF refresh THEN "refresh" ELSE "test", ts)
    /\ step' = IF ts[1].bundle THEN "unpack" ELSE IF refresh THEN "venv" ELSE "check"
    /\ UNCHANGED <<sdk_root, disk, doubts>>

\* resolve_plugin_python and resolve_plugin_site_packages, without --refresh-env.
Check ==
    /\ step = "check"
    /\ venv[Plugin] \in {"no_pip", "whole"}
    /\ step' = "next"
    /\ UNCHANGED <<sdk_root, disk, doubts, command, targets, at, launches, given>>

\* _prepare_bundle_test_env: a new environment with all wheels of the bundle.
Unpack ==
    /\ step = "unpack"
    /\ step' = "next"
    /\ UNCHANGED <<sdk_root, disk, doubts, command, targets, at, launches, given>>

\* The harness runs, and its exit code is the command's; init just ends.
Launch ==
    /\ step = "launch"
    /\ End
    /\ IF command = "init" THEN UNCHANGED launches
       ELSE launches' = {[target |-> t, refreshed |-> command = "refresh",
                          ready |-> t.bundle \/ Wanted \subseteq has[t.plugin],
                          doubtful |-> t.plugin \in cut \cup by_hand] :
                             t \in {targets[i] : i \in DOMAIN targets}}
    /\ UNCHANGED <<sdk_root, disk, doubts, given>>

\* The command ends early, by an exception or an interrupt.  A venv that was cut
\* off leaves a directory; a pip that was cut off may have removed what it was to
\* replace, itself included.
CutOff ==
    /\ command # "none"
    /\ End
    /\ cut' = IF step \in {"write", "venv"} \cup Packages THEN cut \cup {Plugin} ELSE cut
    /\ IF step = "venv" /\ venv[Plugin] = "none"
       THEN \E v \in {"none", "partial", "no_pip"} : venv' = [venv EXCEPT ![Plugin] = v]
       ELSE IF step = "tools" /\ venv[Plugin] = "whole"
       THEN \E v \in {"no_pip", "whole"} : venv' = [venv EXCEPT ![Plugin] = v]
       ELSE UNCHANGED venv
    /\ IF step \in Packages
       THEN has' \in {has, [has EXCEPT ![Plugin] = @ \ {step}]}
       ELSE UNCHANGED has
    /\ UNCHANGED <<sdk_root, repo, by_hand, launches, given>>

-----------------------------------------------------------------------------
(* The operator, between commands.                                          *)

RemoveVenv(p) ==
    /\ command = "none"
    /\ venv[p] # "none"
    /\ venv' = [venv EXCEPT ![p] = "none"]
    /\ has' = [has EXCEPT ![p] = {}]
    /\ cut' = cut \ {p}
    /\ by_hand' = by_hand \ {p}
    /\ UNCHANGED <<sdk_root, repo, run, launches, given>>

\* What the messages of plugin_env.py ask for: a .venv is made or repaired by hand,
\* well or not, and what is installed there is what the operator saw fit.
ChangeByHand(p, v, packages) ==
    /\ command = "none"
    /\ given < MaxCommands
    /\ given' = given + 1
    /\ v # "whole" => packages = has[p]
    /\ "plugin" \in packages => "plugin" \in has[p] \/ repo[p] \in {"begun", "whole"}
    /\ venv' = [venv EXCEPT ![p] = v]
    /\ has' = [has EXCEPT ![p] = packages]
    /\ by_hand' = by_hand \cup {p}
    /\ UNCHANGED <<sdk_root, repo, cut, run, launches>>

\* One target for a sensor test; sensor and algorithm for an algorithm test.
Tests == {<<t>> : t \in Targets}
            \cup {ts \in Targets \X Targets : ts[1].plugin # ts[2].plugin}

ENext ==
    \/ \E p \in Plugins : RemoveVenv(p) \/ \E force \in BOOLEAN : StartInit(p, force)
    \/ \E p \in Plugins, v \in {"partial", "no_pip", "whole"}, packages \in SUBSET Packages :
          ChangeByHand(p, v, packages)
    \/ \E ts \in Tests, refresh \in BOOLEAN : StartTest(ts, refresh)
    \/ \E package \in Packages : Install(package)
    \/ WriteFiles \/ CreateVenv \/ NextTarget \/ Check \/ Unpack \/ Launch \/ CutOff

ESpec == EInit /\ [][ENext]_evars

-----------------------------------------------------------------------------
(* Properties.                                                              *)

\* Type invariant.
ETypeOK ==
    /\ sdk_root \in BOOLEAN
    /\ repo \in [Plugins -> {"absent", "empty", "begun", "whole"}]
    /\ venv \in [Plugins -> {"none", "partial", "no_pip", "whole"}]
    /\ has \in [Plugins -> SUBSET Packages]
    /\ cut \subseteq Plugins
    /\ by_hand \subseteq Plugins
    /\ command \in {"none", "init", "test", "refresh"}
    /\ targets \in Seq(Targets)
    /\ at \in 1..(Len(targets) + 1)
    /\ step \in Packages \cup {"none", "write", "venv", "next", "check", "unpack", "launch"}
    /\ launches \subseteq [target : Targets, refreshed : BOOLEAN, ready : BOOLEAN,
                           doubtful : BOOLEAN]
    /\ given \in 0..MaxCommands

\* A harness is started in an environment that lacks a part only if the plugin's last
\* preparation was cut off or its .venv was changed by hand since, and this command was
\* not asked to refresh it: with --refresh-env it is whole, or the command fails.
HarnessEnvIsReady ==
    \A l \in launches : l.ready \/ (~l.refreshed /\ l.doubtful)

\* A .venv that was cut off while it was made, or lost its pip in pip's own upgrade, is
\* never completed by a command, --refresh-env included: only the operator does.
HalfMadeStays ==
    [][\A p \in Plugins :
          command # "none" /\ venv[p] \in {"partial", "no_pip"} =>
              venv'[p] = venv[p]]_evars
=============================================================================
