----------------------------- MODULE CoreLoader -----------------------------
(***************************************************************************)
(* CoreLoaderService: the core that `rw-core' leads to.  A custom core is  *)
(* downloaded beside the installed one, renamed over it, linked, and put   *)
(* on record in a marker; without one the link goes back to the stock core *)
(* and the rest is deleted.  The node may die between any two steps.       *)
(*                                                                         *)
(* A core stands for its url and digest, and for the body that has this    *)
(* digest.  A marker is current as long as the file it describes (its size *)
(* and time of change) is the installed one.                               *)
(***************************************************************************)
EXTENDS Download

CONSTANTS
    Cores,       \* the cores the panel may ask for
    Stock,       \* the core that comes with the image
    CoreSlot     \* the download of a core

CUSTOM == <<"xray-custom">>
STAGED == Append(CUSTOM, "staged")

CoreFiles == {CUSTOM, STAGED, Temporary(STAGED)}

ASSUME CoresAssumption ==
    /\ Cores \subseteq Bodies /\ Stock \notin Bodies
    /\ Stock \notin {CUSTOM, NoFile} /\ NoFile \notin CoreFiles \cup Contents
ASSUME CoreSlotAssumption ==
    /\ CoreSlot \in Slots /\ PathOf[CoreSlot] = STAGED
    /\ \A d \in Slots \ {CoreSlot} : {PathOf[d], TemporaryOf(d)} \cap CoreFiles = {}

VARIABLES
    link,        \* what rw-core leads to: Stock or CUSTOM
    tmpLink,     \* what rw-core.tmp leads to, or NoFile
    marker,      \* .rw-core.json
    loader       \* the call to prepare

core == <<link, tmpLink, marker>>

NoMarker == [is |-> "none"]
BrokenMarker == [is |-> "broken"]    \* truncated, not written yet
Marker(c) == [is |-> "marker", core |-> c, current |-> TRUE]
Outdated == IF marker.is = "marker" THEN [marker EXCEPT !.current = FALSE] ELSE marker

\* failed: a call to the file system or the network failed.
Prepare(c, at) == [at |-> at, core |-> c, failed |-> FALSE]
NotPreparing == [at |-> "idle", core |-> Stock, failed |-> FALSE]
LoaderAwaits == {"idle", "decide", "download", "staged", "unlink", "symlink", "point",
                 "stat", "record", "forget", "delete", "discard", "done", "threw"}

CoreTypeOK ==
    /\ link \in {Stock, CUSTOM}
    /\ tmpLink \in {Stock, CUSTOM, NoFile}
    /\ marker \in {NoMarker, BrokenMarker}
                    \cup [is : {"marker"}, core : Cores, current : BOOLEAN]
    /\ loader \in [at : LoaderAwaits, core : Cores \cup {Stock}, failed : BOOLEAN]

CoreInit ==
    /\ link = Stock /\ tmpLink = NoFile /\ marker = NoMarker
    /\ loader = NotPreparing

Loading(at) == loader.at = at
LoaderTo(at) == loader' = [loader EXCEPT !.at = at]
LoaderFails(at) == loader' = [loader EXCEPT !.at = at, !.failed = TRUE]
Target == IF loader.core = Stock THEN Stock ELSE CUSTOM

-----------------------------------------------------------------------------
(* prepare *)

\* (mutant) trusts the marker without looking at the file
MarkedInstalled(c) ==
    /\ marker.is = "marker" /\ marker.core = c
    /\ link = CUSTOM

IsInstalled(c) ==
    /\ marker.is = "marker" /\ marker.core = c
    /\ marker.current
    /\ link = CUSTOM

StockLinked ==
    /\ Loading("decide") /\ loader.core = Stock /\ link = Stock
    /\ LoaderTo("done")
    /\ UNCHANGED <<core, disk, dl>>

\* (mutant) the core is deleted before the link is moved
RestoreDeletesFirst ==
    /\ Loading("decide") /\ loader.core = Stock /\ link # Stock
    /\ disk' = Removed(CUSTOM) /\ marker' = Outdated
    /\ LoaderTo("unlink")
    /\ UNCHANGED <<link, tmpLink, dl>>

RestoreStock ==
    /\ Loading("decide") /\ loader.core = Stock /\ link # Stock
    /\ LoaderTo("unlink")
    /\ UNCHANGED <<core, disk, dl>>

AlreadyInstalled ==
    /\ Loading("decide") /\ loader.core # Stock /\ IsInstalled(loader.core)
    /\ LoaderTo("done")
    /\ UNCHANGED <<core, disk, dl>>

\* isInstalled answers false as well when it cannot read what it looks at.
InstallCore ==
    /\ Loading("decide") /\ loader.core # Stock
    /\ IF IsInstalled(loader.core) THEN LoaderFails("download") ELSE LoaderTo("download")
    /\ CallDownload(CoreSlot, loader.core)
    /\ UNCHANGED <<core, disk>>

Downloaded ==
    /\ Loading("download") /\ Downloading(CoreSlot, "done")
    /\ LoaderTo("staged") /\ TakeResult(CoreSlot)
    /\ UNCHANGED <<core, disk>>

DownloadFailed ==
    /\ Loading("download") /\ Downloading(CoreSlot, "threw")
    /\ LoaderFails("discard") /\ TakeResult(CoreSlot)
    /\ UNCHANGED <<core, disk>>

\* It is executable, tells its version, and takes the place of the old one.
MoveIntoPlace ==
    /\ Loading("staged")
    /\ disk' = Renamed(STAGED, CUSTOM) /\ marker' = Outdated
    /\ LoaderTo("unlink")
    /\ UNCHANGED <<link, tmpLink, dl>>

\* pointLinkAt: rm, symlink, rename.
RemoveTmpLink ==
    /\ Loading("unlink")
    /\ tmpLink' = NoFile
    /\ LoaderTo("symlink")
    /\ UNCHANGED <<link, marker, disk, dl>>

MakeTmpLink ==
    /\ Loading("symlink") /\ tmpLink = NoFile
    /\ tmpLink' = Target
    /\ LoaderTo("point")
    /\ UNCHANGED <<link, marker, disk, dl>>

PointLink ==
    /\ Loading("point")
    /\ link' = tmpLink /\ tmpLink' = NoFile
    /\ LoaderTo(IF loader.core = Stock THEN "forget" ELSE "stat")
    /\ UNCHANGED <<marker, disk, dl>>

\* writeFile: the file is emptied first.
OpenMarker ==
    /\ Loading("stat")
    /\ marker' = BrokenMarker
    /\ LoaderTo("record")
    /\ UNCHANGED <<link, tmpLink, disk, dl>>

WriteMarker ==
    /\ Loading("record")
    /\ marker' = Marker(loader.core)
    /\ LoaderTo("done")
    /\ UNCHANGED <<link, tmpLink, disk, dl>>

\* restoreStock, after the link.
RemoveMarker ==
    /\ Loading("forget")
    /\ marker' = NoMarker
    /\ LoaderTo("delete")
    /\ UNCHANGED <<link, tmpLink, disk, dl>>

RemoveCustom ==
    /\ Loading("delete")
    /\ disk' = Removed(CUSTOM) /\ marker' = Outdated
    /\ LoaderTo("done")
    /\ UNCHANGED <<link, tmpLink, dl>>

\* The file system fails: install goes to its catch, restoreStock throws.
CoreStepFails ==
    /\ loader.at \in {"staged", "unlink", "symlink", "point", "stat", "record"}
    /\ LoaderFails(IF loader.core = Stock THEN "threw" ELSE "discard")
    /\ UNCHANGED <<core, disk, dl>>

\* readlink or rm fails in restoreStock, and is ignored.
RestoreStepFails ==
    /\ \/ Loading("decide") /\ loader.core = Stock /\ LoaderFails("done")
       \/ Loading("forget") /\ LoaderFails("delete")
       \/ Loading("delete") /\ LoaderFails("done")
    /\ UNCHANGED <<core, disk, dl>>

\* The catch of install.
DiscardStaged ==
    /\ Loading("discard")
    /\ disk' \in {disk, Removed(STAGED)}
    /\ LoaderTo("done")
    /\ UNCHANGED <<core, dl>>

CorePrepareStep ==
    \/ StockLinked \/ RestoreStock \/ AlreadyInstalled \/ InstallCore
    \/ Downloaded \/ DownloadFailed \/ MoveIntoPlace
    \/ RemoveTmpLink \/ MakeTmpLink \/ PointLink
    \/ OpenMarker \/ WriteMarker \/ RemoveMarker \/ RemoveCustom
    \/ CoreStepFails \/ RestoreStepFails \/ DiscardStaged

CoreStep ==
    \/ CorePrepareStep
    \/ DownloadStep(CoreSlot) /\ UNCHANGED <<core, loader>>

-----------------------------------------------------------------------------

\* What rw-core runs.
Runs == IF link = Stock THEN Stock ELSE disk[CUSTOM]

Installed(c) == Runs = IF c = Stock THEN Stock ELSE Whole(c)

\* rw-core leads to the stock core or to one whole core that was asked for,
\* whatever the node was doing when it died: the container runs it at boot.
RunnableCore == \E c \in Cores \cup {Stock} : Installed(c)

\* A prepare in which no call failed leaves the core that was asked for,
\* whatever an earlier one, or one that died halfway, left behind.
PreparedRunsWanted ==
    Loading("done") /\ ~loader.failed => Installed(loader.core)
=============================================================================
