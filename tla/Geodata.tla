------------------------------- MODULE Geodata -------------------------------
(***************************************************************************)
(* GeodataService: the assets of a configuration are downloaded, a few at  *)
(* a time, unless they are there already; one that cannot be had is        *)
(* replaced by an empty file, because xray does not start without it.      *)
(* Every asset is a download of its own; a configuration may name a file   *)
(* more than once.                                                         *)
(***************************************************************************)
EXTENDS Download

CONSTANTS
    AssetSlots,     \* the downloads of assets
    Concurrency     \* CONCURRENCY

ASSUME AssetSlotsAssumption == AssetSlots \subseteq Slots
ASSUME ConcurrencyAssumption == Concurrency \in Nat \ {0}

VARIABLES
    asset,     \* where prepareAsset of each asset is
    stubFailed \* a stub could not be created

geodata == <<asset, stubFailed>>

AssetAwaits == {"idle", "queued", "exists", "download", "stub", "done"}

GeodataTypeOK == asset \in [AssetSlots -> AssetAwaits] /\ stubFailed \in BOOLEAN

GeodataInit == asset = [a \in AssetSlots |-> "idle"] /\ stubFailed = FALSE

AssetTo(a, at) == asset' = [asset EXCEPT ![a] = at]
Active == {a \in AssetSlots : asset[a] \in {"exists", "download", "stub"}}
AssetsProcessed == \A a \in AssetSlots : asset[a] \in {"idle", "done"}

QueueAssets(assets) ==
    /\ asset' = [a \in AssetSlots |-> IF a \in assets THEN "queued" ELSE "idle"]
    /\ stubFailed' = FALSE

\* pMap runs at most CONCURRENCY of them.
PickAsset(a) ==
    /\ asset[a] = "queued" /\ Cardinality(Active) < Concurrency
    /\ AssetTo(a, "exists")
    /\ UNCHANGED <<disk, dl, stubFailed>>

\* A file that is not empty.
Exists(path) == disk[path] \notin {NoFile, Empty}

AssetThere(a) ==
    /\ asset[a] = "exists" /\ Exists(PathOf[a])
    /\ AssetTo(a, "done")
    /\ UNCHANGED <<disk, dl, stubFailed>>

AssetMissing(a) ==
    /\ asset[a] = "exists" /\ ~Exists(PathOf[a])
    /\ AssetTo(a, "download") /\ CallDownload(a, Hole)
    /\ UNCHANGED <<disk, stubFailed>>

AssetDownloaded(a) ==
    /\ asset[a] = "download" /\ Downloading(a, "done")
    /\ AssetTo(a, "done") /\ TakeResult(a)
    /\ UNCHANGED <<disk, stubFailed>>

\* (mutant) no stub for a download that failed
AssetGivenUp(a) ==
    /\ asset[a] = "download" /\ Downloading(a, "threw")
    /\ AssetTo(a, "done") /\ TakeResult(a)
    /\ UNCHANGED <<disk, stubFailed>>

AssetNotDownloaded(a) ==
    /\ asset[a] = "download" /\ Downloading(a, "threw")
    /\ AssetTo(a, "stub") /\ TakeResult(a)
    /\ UNCHANGED <<disk, stubFailed>>

\* open with flag wx; a file that has appeared meanwhile is left alone.
CreateStub(a) ==
    /\ asset[a] = "stub"
    /\ disk' = [disk EXCEPT ![PathOf[a]] = IF @ = NoFile THEN Empty ELSE @]
    /\ AssetTo(a, "done")
    /\ UNCHANGED <<dl, stubFailed>>

StubFails(a) ==
    /\ asset[a] = "stub"
    /\ AssetTo(a, "done") /\ stubFailed' = TRUE
    /\ UNCHANGED <<disk, dl>>

PrepareAsset(a) ==
    \/ PickAsset(a) \/ AssetThere(a) \/ AssetMissing(a)
    \/ AssetDownloaded(a) \/ AssetNotDownloaded(a) \/ CreateStub(a) \/ StubFails(a)

AssetStep(a) ==
    \/ PrepareAsset(a)
    \/ DownloadStep(a) /\ UNCHANGED geodata

-----------------------------------------------------------------------------

\* No other asset has the file of a, or its temporary file, for either of its own:
\* a name may also be that of another asset with `.download' behind it.
Files(a) == {PathOf[a], TemporaryOf(a)}
Unshared(a) == \A b \in AssetSlots \ {a} : Files(b) \cap Files(a) = {}

\* The file of a is not what another asset is downloaded to first.
OwnFile(a) == \A b \in AssetSlots : TemporaryOf(b) # PathOf[a]

\* The file of an asset is a whole download, a stub or not there, also while
\* it is downloaded and after a crash: xray reads it at any time.
UnsharedAssetWhole ==
    \A a \in AssetSlots : Unshared(a) /\ disk[PathOf[a]] # NoFile =>
        disk[PathOf[a]] \in {Whole(b) : b \in Bodies} \cup {Empty}
=============================================================================
