------------------------------ MODULE BuildBundle ------------------------------
(***************************************************************************)
(* build_plugin_bundle (build.py): wheels are built and downloaded in a    *)
(* temporary directory, the old bundle is removed, the archive is put      *)
(* together with a manifest and checksums, and zipped into place.  Any     *)
(* step may raise, in a subprocess or on a file.  install_bundle           *)
(* (install.py) takes what it left.                                        *)
(* SequentialProofs extends this module beside others: BInit, BNext and    *)
(* so on are its Init, Next and so on.                                     *)
(***************************************************************************)
EXTENDS Naturals, Sequences

CONSTANTS Names,         \* the file names of wheels and extra artifacts
          PluginWheel,   \* that of the plugin's wheel
          SdkWheel,      \* that of the SDK's wheel
          Contents,      \* what a file may contain; stands for its SHA-256 too
          Metadata,      \* the content of manifest, checksums and metadata
          MaxArtifacts   \* bound: artifacts of a bundle

ASSUME WheelsAreNames == PluginWheel \in Names /\ SdkWheel \in Names
\* The names of wheels and extra artifacts are those of files under artifacts/.
ASSUME NamesAreApart == Names \cap {"manifest.json", "checksums.json", "metadata"} = {}
ASSUME RoomForWheels == MaxArtifacts \in Nat \ {0, 1}

VARIABLES
    build_step, \* where build_plugin_bundle stands
    temp,       \* whether build_root exists
    artifacts,  \* artifacts, in order
    copied,     \* how many of them are in the archive directory
    archive,    \* archive_root: the content of each file
    manifest,   \* the artifacts that manifest.json lists, with their hashes
    checksums,  \* checksums.json
    bundle,     \* what is at bundle_path: "none", "old" or "new"
    zip,        \* the members of the new bundle
    outcome     \* what install_bundle did: "no", "refused" or "handed_over"

outputs == <<copied, archive, manifest, checksums>>
disk == <<bundle, zip, outcome>>
bvars == <<build_step, temp, artifacts, outputs, disk>>

Files == {"manifest.json", "checksums.json", "metadata"}
BuildEnds == {"returned", "raised"}

BInit ==
    /\ build_step = "checking"
    /\ temp = FALSE
    /\ artifacts = << >>
    /\ copied = 0
    /\ archive = << >>
    /\ manifest = {}
    /\ checksums = << >>
    /\ bundle \in {"none", "old"}
    /\ zip = << >>
    /\ outcome = "no"

\* The files with one more, or with one written over.
Put(files, name, content) ==
    [f \in DOMAIN files \cup {name} |-> IF f = name THEN content ELSE files[f]]

Exists(name) == \E i \in DOMAIN artifacts : artifacts[i].name = name
Add(name) == \E c \in Contents :
                artifacts' = Append(artifacts, [name |-> name, content |-> c])

\* Interpreter, plugin.json and pyproject.toml are there.
MakeTemp ==
    /\ build_step = "checking"
    /\ temp' = TRUE
    /\ build_step' = "building"
    /\ UNCHANGED <<artifacts, outputs, disk>>

BuildWheel ==
    /\ build_step = "building"
    /\ Add(PluginWheel)
    /\ build_step' = "sdk"
    /\ UNCHANGED <<temp, outputs, disk>>

\* The SDK's wheel is left out if its source is not found.
BuildSdk ==
    /\ build_step = "sdk"
    /\ Add(SdkWheel) \/ UNCHANGED artifacts
    /\ build_step' = "downloading"
    /\ UNCHANGED <<temp, outputs, disk>>

\* A downloaded wheel is taken unless it has the name of one that was built.
AddDependency ==
    /\ build_step = "downloading"
    /\ Len(artifacts) < MaxArtifacts
    /\ \E name \in Names : ~Exists(name) /\ Add(name)
    /\ UNCHANGED <<build_step, temp, outputs, disk>>

\* Mutant of EndDownload: the old bundle is removed before the wheels are there.
EndDownloadFirst ==
    /\ build_step = "downloading"
    /\ bundle' = "none"
    /\ build_step' = "extras"
    /\ UNCHANGED <<temp, artifacts, outputs, zip, outcome>>

EndDownload ==
    /\ build_step = "downloading"
    /\ build_step' = "extras"
    /\ UNCHANGED <<temp, artifacts, outputs, disk>>

\* An extra artifact is taken whatever its name is.
AddExtra ==
    /\ build_step = "extras"
    /\ Len(artifacts) < MaxArtifacts
    /\ \E name \in Names : Add(name)
    /\ UNCHANGED <<build_step, temp, outputs, disk>>

RemoveOld ==
    /\ build_step = "extras"
    /\ bundle' = "none"
    /\ build_step' = "copying"
    /\ UNCHANGED <<temp, artifacts, outputs, zip, outcome>>

\* A file of the same name is overwritten.
CopyArtifact ==
    /\ build_step = "copying" /\ copied < Len(artifacts)
    /\ LET a == artifacts[copied + 1] IN archive' = Put(archive, a.name, a.content)
    /\ copied' = copied + 1
    /\ UNCHANGED <<build_step, temp, artifacts, manifest, checksums, disk>>

\* Spec or configuration, if the plugin has one.
CopyMetadata ==
    /\ build_step = "copying" /\ copied = Len(artifacts)
    /\ archive' \in {archive, Put(archive, "metadata", Metadata)}
    /\ build_step' = "manifest"
    /\ UNCHANGED <<temp, artifacts, copied, manifest, checksums, disk>>

\* Mutant of Listed: the hashes of the artifacts, not of the copies.
ListedFromSource == {<<artifacts[i].name, artifacts[i].content>> : i \in DOMAIN artifacts}

Listed == {<<artifacts[i].name, archive[artifacts[i].name]>> : i \in DOMAIN artifacts}

WriteManifest ==
    /\ build_step = "manifest"
    /\ manifest' = Listed
    /\ archive' = Put(archive, "manifest.json", Metadata)
    /\ build_step' = "checksums"
    /\ UNCHANGED <<temp, artifacts, copied, checksums, disk>>

Summed == archive

WriteChecksums ==
    /\ build_step = "checksums"
    /\ checksums' = Summed
    /\ archive' = Put(archive, "checksums.json", Metadata)
    /\ build_step' = "opening"
    /\ UNCHANGED <<temp, artifacts, copied, manifest, disk>>

OpenZip ==
    /\ build_step = "opening"
    /\ bundle' = "new"
    /\ build_step' = "zipping"
    /\ UNCHANGED <<temp, artifacts, outputs, zip, outcome>>

\* Files in the order of their paths: artifacts/, checksums.json, manifest.json,
\* metadata/.
Rank(f) == CASE f \in Names -> 1 [] f = "checksums.json" -> 2
             [] f = "manifest.json" -> 3 [] f = "metadata" -> 4

IsNext(f) == \A g \in DOMAIN archive \ DOMAIN zip : Rank(f) <= Rank(g)

WriteMember ==
    /\ build_step = "zipping"
    /\ \E f \in DOMAIN archive \ DOMAIN zip :
          IsNext(f) /\ zip' = Put(zip, f, archive[f])
    /\ UNCHANGED <<build_step, temp, artifacts, outputs, bundle, outcome>>

Return ==
    /\ build_step = "zipping"
    /\ DOMAIN zip = DOMAIN archive
    /\ temp' = FALSE
    /\ build_step' = "returned"
    /\ UNCHANGED <<artifacts, outputs, disk>>

CleanUp == temp' = FALSE

\* A raise leaves the bundle as it is: zipfile closes a partial one properly.  A
\* member that was cut off is not counted: a manifest cut off cannot be read.
Raise ==
    /\ build_step \notin BuildEnds
    /\ CleanUp
    /\ build_step' = "raised"
    /\ UNCHANGED <<artifacts, outputs, disk>>

\* There must be a bundle, and its manifest must be in it; then it is the core's
\* installer that goes on.
Install ==
    /\ build_step \in BuildEnds
    /\ outcome' = IF bundle = "old" \/ "manifest.json" \in DOMAIN zip
                    THEN "handed_over" ELSE "refused"
    /\ UNCHANGED <<build_step, temp, artifacts, outputs, bundle, zip>>

BNext == \/ MakeTemp \/ BuildWheel \/ BuildSdk \/ AddDependency \/ EndDownload
        \/ AddExtra \/ RemoveOld \/ CopyArtifact \/ CopyMetadata \/ WriteManifest
        \/ WriteChecksums \/ OpenZip \/ WriteMember \/ Return \/ Raise
        \/ Install

BSpec == BInit /\ [][BNext]_bvars

-----------------------------------------------------------------------------
(* Properties.                                                              *)

Members == Names \cup Files
Artifacts == [name : Names, content : Contents]

\* Artifacts and metadata under their names.
AreFiles(files) ==
    /\ DOMAIN files \subseteq Members
    /\ \A f \in DOMAIN files : /\ f \in Names => files[f] \in Contents
                               /\ f \notin Names => files[f] = Metadata

\* Type invariant: in particular no run leaves its temporary directory.
BTypeOK ==
    /\ build_step \in BuildEnds \cup {"checking", "building", "sdk", "downloading", "extras",
                           "copying", "manifest", "checksums", "opening", "zipping"}
    /\ temp = IF build_step \in BuildEnds \cup {"checking"} THEN FALSE ELSE TRUE
    /\ artifacts \in Seq(Artifacts)
    /\ copied \in 0..Len(artifacts)
    /\ AreFiles(archive) /\ AreFiles(checksums) /\ AreFiles(zip)
    /\ manifest \subseteq Names \X Contents
    /\ bundle \in {"none", "old", "new"}
    /\ outcome \in {"no", "refused", "handed_over"}

\* Whatever the installer is handed has every artifact with the hash that the
\* manifest lists, also if a later artifact overwrote one of the same name, and also
\* if the build raised while it wrote the bundle; a finished bundle is not refused.
ManifestIsTrue ==
    /\ outcome = "handed_over" /\ bundle = "new" =>
          \A e \in manifest : e[1] \in DOMAIN zip /\ zip[e[1]] = e[2]
    /\ build_step = "returned" => outcome # "refused"

\* A finished bundle has, for every member but the checksums, the right checksum,
\* and no other checksums.
ChecksumsAreTrue ==
    build_step = "returned" =>
        checksums = [f \in DOMAIN zip \ {"checksums.json"} |-> zip[f]]

\* What a bundle says about its own contents is true, in both places.
BundleIsTrue == ManifestIsTrue /\ ChecksumsAreTrue

\* A build that cannot build or download its wheels leaves the old bundle alone.
\* From the copying on, a build that raises leaves none, or a partial one.
OldSurvives ==
    [][bundle = "old" /\ bundle' # "old" =>
          build_step \notin {"checking", "building", "sdk", "downloading"}]_bvars
=============================================================================
