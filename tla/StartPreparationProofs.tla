----------------------- MODULE StartPreparationProofs -----------------------
(***************************************************************************)
(* Proofs about StartPreparation for any number of cores, assets, chunks,  *)
(* integrations and sockets, whatever fails and wherever the node dies.    *)
(***************************************************************************)
EXTENDS StartPreparation, TLAPS

-----------------------------------------------------------------------------
(* Types, first of the downloads. *)

LEMMA PathTypes ==
  /\ \A d \in Slots : PathOf[d] \in Paths /\ TemporaryOf(d) \in Paths
  /\ CUSTOM \in Paths /\ STAGED \in Paths /\ CoreSlot \in Slots
  BY CoreSlotAssumption DEF Paths, Targets, TemporaryOf

LEMMA ContentTypes ==
  /\ Empty \in Contents
  /\ \A b \in Bodies : Whole(b) \in Contents
  BY DEF Empty, Whole, Contents

LEMMA EndType ==
  ASSUME DownloadTypeOK(Paths), NEW d \in Slots, NEW at \in {"failed", "done", "threw"}
  PROVE  End(d, at) \in [Slots -> {NoDownload} \cup Ending \cup Fetching \cup Streaming(Paths)]
  <1>1. [at |-> at] \in Ending  BY DEF Ending
  <1> QED BY <1>1 DEF DownloadTypeOK, End

LEMMA StreamType ==
  ASSUME DownloadTypeOK(Paths), NEW d \in Slots
  PROVE  /\ dl[d].at = "body" => dl[d] \in Streaming(Paths)
         /\ dl[d].at = "fetch" => dl[d] \in Fetching
  BY DEF DownloadTypeOK, NoDownload, Ending, Fetching, Streaming

LEMMA FollowingType ==
  ASSUME NEW D \in [Slots -> {NoDownload} \cup Ending \cup Fetching \cup Streaming(Paths)],
         NEW from, NEW to \in Paths \cup {NoFile}
  PROVE  Following(D, from, to)
           \in [Slots -> {NoDownload} \cup Ending \cup Fetching \cup Streaming(Paths)]
  <1> SUFFICES ASSUME NEW d \in Slots, D[d].at = "body"
               PROVE  [D[d] EXCEPT !.file = IF @ = from THEN to ELSE IF @ = to THEN NoFile ELSE @]
                        \in Streaming(Paths)
    BY DEF Following
  <1>1. D[d] \in Streaming(Paths)
    BY DEF NoDownload, Ending, Fetching
  <1> QED BY <1>1 DEF Streaming

\* A stream writes to a file that is there, and only the core's download
\* writes to the files of the core.
StreamsApart ==
    \A d \in Slots : Downloading(d, "body") =>
        IF d = CoreSlot THEN dl[d].file = Temporary(STAGED) ELSE dl[d].file \notin CoreFiles

StreamsOpen ==
    \A d \in Slots : Downloading(d, "body") /\ dl[d].file # NoFile => disk[dl[d].file] # NoFile

Streams == StreamsApart /\ StreamsOpen

LEMMA Renames == \A d \in Slots : TemporaryOf(d) # PathOf[d]
  <1> SUFFICES ASSUME NEW d \in Slots PROVE TemporaryOf(d) # PathOf[d]  OBVIOUS
  <1>1. PathOf[d] \in Seq(STRING)  BY SlotsAssumption
  <1>2. Len(Append(PathOf[d], "download")) = Len(PathOf[d]) + 1  BY <1>1
  <1> QED BY <1>1, <1>2 DEF TemporaryOf, Temporary

LEMMA CoreFilesDiffer ==
  /\ STAGED # CUSTOM /\ Temporary(STAGED) # CUSTOM /\ Temporary(STAGED) # STAGED
  /\ CoreFiles = {CUSTOM, STAGED, Temporary(STAGED)}
  /\ TemporaryOf(CoreSlot) = Temporary(STAGED) /\ PathOf[CoreSlot] = STAGED
  /\ \A d \in Slots \ {CoreSlot} : PathOf[d] \notin CoreFiles /\ TemporaryOf(d) \notin CoreFiles
  <1>1. STAGED # CUSTOM  BY DEF STAGED, CUSTOM
  <1>2. Temporary(STAGED) # CUSTOM  BY DEF STAGED, CUSTOM, Temporary
  <1>3. Temporary(STAGED) # STAGED  BY Renames, CoreSlotAssumption DEF TemporaryOf
  <1>4. \A d \in Slots \ {CoreSlot} : PathOf[d] \notin CoreFiles /\ TemporaryOf(d) \notin CoreFiles
    BY CoreSlotAssumption
  <1> QED BY <1>1, <1>2, <1>3, <1>4, CoreSlotAssumption DEF CoreFiles, TemporaryOf

LEMMA DownloadTypes ==
  ASSUME DownloadTypeOK(Paths), StreamsOpen, NEW d \in Slots, DownloadStep(d)
  PROVE  DownloadTypeOK(Paths)'
  <1> USE PathTypes
  <1>1. CASE Open(d)
    <2>1. dl[d] \in Fetching  BY <1>1, StreamType DEF Open, Downloading
    <2>2. disk' \in [Paths -> Contents \cup {NoFile}]
      BY <1>1, ContentTypes DEF Open, DownloadTypeOK
    <2>3. PICK body \in Bodies :
            dl' = [dl EXCEPT ![d] = [at |-> "body", wanted |-> dl[d].wanted, body |-> body,
                                     file |-> TemporaryOf(d), n |-> 0]]
      BY <1>1 DEF Open
    <2>4. [at |-> "body", wanted |-> dl[d].wanted, body |-> body,
           file |-> TemporaryOf(d), n |-> 0] \in Streaming(Paths)
      BY <2>1, ChunksAssumption DEF Fetching, Streaming
    <2> QED BY <2>2, <2>3, <2>4 DEF DownloadTypeOK
  <1>2. CASE WriteChunk(d)
    <2>1. dl[d] \in Streaming(Paths) /\ dl[d].n < Chunks
      BY <1>2, StreamType DEF WriteChunk, Downloading
    <2>2. [dl[d] EXCEPT !.n = @ + 1] \in Streaming(Paths)
      BY <2>1, ChunksAssumption DEF Streaming
    <2>3. dl' = [dl EXCEPT ![d] = [dl[d] EXCEPT !.n = @ + 1]]
      BY <1>2 DEF WriteChunk
    <2>4. dl' \in [Slots -> {NoDownload} \cup Ending \cup Fetching \cup Streaming(Paths)]
      BY <2>2, <2>3 DEF DownloadTypeOK
    <2>5. disk' \in [Paths -> Contents \cup {NoFile}]
      <3>1. CASE dl[d].file = NoFile
        BY <1>2, <3>1 DEF WriteChunk, DownloadTypeOK
      <3>2. CASE dl[d].file # NoFile
        <4>1. dl[d].file \in Paths /\ disk[dl[d].file] \in Contents
          BY <1>2, <2>1, <3>2 DEF WriteChunk, Streaming, StreamsOpen, DownloadTypeOK
        <4>2. [disk[dl[d].file] EXCEPT ![dl[d].n + 1] = dl[d].body] \in Contents
          BY <2>1, <4>1 DEF Contents, Streaming
        <4> QED BY <1>2, <3>2, <4>1, <4>2 DEF WriteChunk, DownloadTypeOK
      <3> QED BY <3>1, <3>2
    <2> QED BY <2>4, <2>5 DEF DownloadTypeOK
  <1>3. CASE BreakOff(d)
    BY <1>3, EndType DEF BreakOff, DownloadTypeOK
  <1>4. CASE Install(d)
    <2>1. disk' \in [Paths -> Contents \cup {NoFile}]
      BY <1>4 DEF Install, InstallFile, Renamed, DownloadTypeOK
    <2>2. dl' = Following(End(d, "done"), TemporaryOf(d), PathOf[d])
      BY <1>4 DEF Install, InstallFile
    <2> QED BY <2>1, <2>2, EndType, FollowingType DEF DownloadTypeOK
  <1>5. CASE CleanUp(d)
    <2>1. disk' \in [Paths -> Contents \cup {NoFile}]
      BY <1>5 DEF CleanUp, Removed, DownloadTypeOK
    <2>2. dl' \in {Following(End(d, "threw"), TemporaryOf(d), NoFile), End(d, "threw")}
      BY <1>5 DEF CleanUp
    <2> QED BY <2>1, <2>2, EndType, FollowingType DEF DownloadTypeOK
  <1> QED BY <1>1, <1>2, <1>3, <1>4, <1>5 DEF DownloadStep

\* The streams that go on when a file is renamed, or removed, write where it is.
LEMMA FollowingApart ==
  ASSUME DownloadTypeOK(Paths), StreamsApart,
         NEW d \in Slots, NEW at \in {"failed", "done", "threw"},
         NEW to \in {NoFile, PathOf[d]},
         dl' = Following(End(d, at), TemporaryOf(d), to)
  PROVE  StreamsApart'
  <1> SUFFICES ASSUME NEW e \in Slots, Downloading(e, "body")'
               PROVE  /\ e = CoreSlot => dl'[e].file = Temporary(STAGED)
                      /\ e # CoreSlot => dl'[e].file \notin CoreFiles
    BY DEF StreamsApart
  <1>1. e # d /\ Downloading(e, "body") /\ dl[e] \in Streaming(Paths)
    BY StreamType DEF Following, End, Downloading, DownloadTypeOK
  <1>2. dl'[e].file = IF dl[e].file = TemporaryOf(d) THEN to
                      ELSE IF dl[e].file = to THEN NoFile ELSE dl[e].file
    BY <1>1 DEF Following, End, Downloading, DownloadTypeOK, Streaming
  <1>3. CASE e = CoreSlot
    BY <1>1, <1>2, <1>3, CoreFilesDiffer, CoresAssumption DEF StreamsApart
  <1>4. CASE e # CoreSlot
    BY <1>1, <1>2, <1>4, CoreFilesDiffer, CoresAssumption DEF StreamsApart
  <1> QED BY <1>3, <1>4

LEMMA FollowingOpen ==
  ASSUME DownloadTypeOK(Paths), StreamsOpen,
         NEW d \in Slots, NEW at \in {"failed", "done", "threw"},
         NEW to \in {NoFile, PathOf[d]},
         \/ to = NoFile /\ disk' = Removed(TemporaryOf(d))
         \/ to = PathOf[d] /\ InstallFile(d),
         dl' = Following(End(d, at), TemporaryOf(d), to)
  PROVE  StreamsOpen'
  <1> SUFFICES ASSUME NEW e \in Slots, Downloading(e, "body")', dl'[e].file # NoFile
               PROVE  disk'[dl'[e].file] # NoFile
    BY DEF StreamsOpen
  <1>1. e # d /\ Downloading(e, "body") /\ dl[e] \in Streaming(Paths)
    BY StreamType DEF Following, End, Downloading, DownloadTypeOK
  <1>2. dl'[e].file = IF dl[e].file = TemporaryOf(d) THEN to
                      ELSE IF dl[e].file = to THEN NoFile ELSE dl[e].file
    BY <1>1 DEF Following, End, Downloading, DownloadTypeOK, Streaming
  <1>3. CASE to = NoFile /\ disk' = Removed(TemporaryOf(d))
    BY <1>1, <1>2, <1>3, PathTypes DEF Removed, StreamsOpen, DownloadTypeOK, Streaming
  <1>4. CASE to = PathOf[d] /\ InstallFile(d)
    BY <1>1, <1>2, <1>4, PathTypes, Renames
    DEF InstallFile, Renamed, StreamsOpen, DownloadTypeOK, Streaming
  <1> QED BY <1>3, <1>4

LEMMA DownloadStreams ==
  ASSUME DownloadTypeOK(Paths), Streams, NEW d \in Slots, DownloadStep(d)
  PROVE  Streams'
  <1> USE PathTypes DEF Streams, Downloading
  <1>1. CASE Open(d)
    <2>1. PICK body \in Bodies :
            dl' = [dl EXCEPT ![d] = [at |-> "body", wanted |-> dl[d].wanted, body |-> body,
                                     file |-> TemporaryOf(d), n |-> 0]]
      BY <1>1 DEF Open
    <2>2. dl'[d].file = TemporaryOf(d) /\ \A e \in Slots \ {d} : dl'[e] = dl[e]
      BY <2>1 DEF DownloadTypeOK
    <2>3. disk' = [disk EXCEPT ![TemporaryOf(d)] = Empty] /\ Empty # NoFile
      BY <1>1, ContentTypes, CoresAssumption DEF Open
    <2>4. StreamsApart'  BY <2>2, CoreFilesDiffer DEF StreamsApart
    <2>5. StreamsOpen'
      <3> SUFFICES ASSUME NEW e \in Slots, dl'[e].at = "body", dl'[e].file # NoFile
                   PROVE  disk'[dl'[e].file] # NoFile
        BY DEF StreamsOpen
      <3>1. CASE e = d  BY <3>1, <2>2, <2>3 DEF DownloadTypeOK
      <3>2. CASE e # d
        <4>1. dl[e] \in Streaming(Paths)  BY <3>2, <2>2, StreamType
        <4> QED BY <4>1, <3>2, <2>2, <2>3 DEF StreamsOpen, DownloadTypeOK, Streaming
      <3> QED BY <3>1, <3>2
    <2> QED BY <2>4, <2>5
  <1>2. CASE WriteChunk(d)
    <2>1. dl[d] \in Streaming(Paths)  BY <1>2, StreamType DEF WriteChunk
    <2>2. dl' = [dl EXCEPT ![d] = [dl[d] EXCEPT !.n = @ + 1]]
      BY <1>2 DEF WriteChunk
    <2>3. \A e \in Slots : dl'[e].at = dl[e].at /\ (dl[e].at = "body" => dl'[e].file = dl[e].file)
      BY <2>1, <2>2 DEF DownloadTypeOK, Streaming
    <2>4. DownloadTypeOK(Paths)'  BY DownloadTypes
    <2>5. \A p \in Paths : disk[p] # NoFile => disk'[p] # NoFile
      <3> SUFFICES ASSUME NEW p \in Paths, disk[p] # NoFile, p = dl[d].file, p # NoFile
                   PROVE  disk'[p] # NoFile
        BY <1>2, <2>1 DEF WriteChunk, DownloadTypeOK
      <3>1. disk'[p] = [disk[p] EXCEPT ![dl[d].n + 1] = dl[d].body]
        BY <1>2 DEF WriteChunk, DownloadTypeOK
      <3>2. disk[p] \in Contents /\ dl[d].body \in Bodies
        BY <2>1 DEF DownloadTypeOK, Streaming
      <3>3. disk'[p] \in Contents  BY <3>1, <3>2 DEF Contents
      <3> QED BY <3>3, CoresAssumption
    <2>6. \A e \in Slots : dl[e].at = "body" => dl[e].file \in Paths \cup {NoFile}
      BY StreamType DEF Streaming
    <2> QED BY <2>3, <2>5, <2>6 DEF StreamsApart, StreamsOpen
  <1>3. CASE BreakOff(d)
    BY <1>3 DEF BreakOff, End, StreamsApart, StreamsOpen, DownloadTypeOK
  <1>4. CASE Install(d)
    <2>1. InstallFile(d) /\ dl' = Following(End(d, "done"), TemporaryOf(d), PathOf[d])
      BY <1>4 DEF Install, InstallFile
    <2>2. StreamsApart'  BY <2>1, FollowingApart
    <2>3. StreamsOpen'  BY <2>1, FollowingOpen
    <2> QED BY <2>2, <2>3
  <1>5. CASE CleanUp(d)
    <2>1. CASE disk' = Removed(TemporaryOf(d)) /\ dl' = Following(End(d, "threw"), TemporaryOf(d), NoFile)
      BY <2>1, FollowingApart, FollowingOpen
    <2>2. CASE dl' = End(d, "threw") /\ UNCHANGED disk
      BY <2>2 DEF End, StreamsApart, StreamsOpen, DownloadTypeOK
    <2> QED BY <1>5, <2>1, <2>2 DEF CleanUp
  <1> QED BY <1>1, <1>2, <1>3, <1>4, <1>5 DEF DownloadStep

LEMMA CallTypes ==
  ASSUME DownloadTypeOK(Paths), Streams, NEW d \in Slots, NEW wanted \in Bodies \cup {Hole},
         UNCHANGED disk, CallDownload(d, wanted)
  PROVE  DownloadTypeOK(Paths)' /\ Streams'
  <1>1. [at |-> "fetch", wanted |-> wanted] \in Fetching  BY DEF Fetching
  <1>2. dl' = [dl EXCEPT ![d] = [at |-> "fetch", wanted |-> wanted]]  BY DEF CallDownload
  <1>3. DownloadTypeOK(Paths)'  BY <1>1, <1>2 DEF DownloadTypeOK
  <1>4. Streams'
    BY <1>2 DEF Streams, StreamsApart, StreamsOpen, Downloading, DownloadTypeOK
  <1> QED BY <1>3, <1>4

LEMMA TakeTypes ==
  ASSUME DownloadTypeOK(Paths), Streams, NEW d \in Slots, UNCHANGED disk, TakeResult(d)
  PROVE  DownloadTypeOK(Paths)' /\ Streams'
  <1>1. DownloadTypeOK(Paths)'  BY DEF TakeResult, DownloadTypeOK
  <1>2. Streams'
    BY DEF TakeResult, NoDownload, Streams, StreamsApart, StreamsOpen, Downloading, DownloadTypeOK
  <1> QED BY <1>1, <1>2

\* No stream writes to what the loader renames and removes.
LEMMA MoveTypes ==
  ASSUME DownloadTypeOK(Paths), Streams, UNCHANGED dl,
         disk' \in {Renamed(STAGED, CUSTOM), Removed(CUSTOM), Removed(STAGED)}
  PROVE  DownloadTypeOK(Paths)' /\ Streams'
  <1>1. DownloadTypeOK(Paths)'
    BY PathTypes DEF Renamed, Removed, DownloadTypeOK
  <1>2. \A p \in Paths \ {CUSTOM, STAGED} : disk'[p] = disk[p]
    BY PathTypes DEF Renamed, Removed, DownloadTypeOK
  <1>3. \A d \in Slots : Downloading(d, "body") =>
           /\ dl[d].file \in Paths \cup {NoFile}
           /\ dl[d].file \notin {CUSTOM, STAGED}
    BY StreamType, CoreFilesDiffer DEF Streams, StreamsApart, Downloading, Streaming
  <1>4. Streams'
    BY <1>2, <1>3 DEF Streams, StreamsApart, StreamsOpen, Downloading
  <1> QED BY <1>1, <1>4

-----------------------------------------------------------------------------
(* Types of everything. *)

LEMMA Unwritten ==
  ASSUME DownloadTypeOK(Paths), Streams, UNCHANGED <<disk, dl>>
  PROVE  DownloadTypeOK(Paths)' /\ Streams'
  BY DEF DownloadTypeOK, Streams, StreamsApart, StreamsOpen, Downloading

\* What the loader has at hand: the new link, a core to put on record.
LoaderReady ==
    /\ Loading("point") => tmpLink = Target
    /\ loader.at \in {"download", "staged", "stat", "record", "discard"} => loader.core \in Cores
    /\ loader.at \in {"forget", "delete"} => loader.core = Stock

LEMMA CoreTypes ==
  ASSUME DownloadTypeOK(Paths), Streams, CoreTypeOK, LoaderReady, CorePrepareStep
  PROVE  DownloadTypeOK(Paths)' /\ Streams' /\ CoreTypeOK'
  <1> USE DEF LoaderTo, LoaderFails, Loading, core
  <1>1. loader \in [at : LoaderAwaits, core : Cores \cup {Stock}, failed : BOOLEAN]
    BY DEF CoreTypeOK
  <1>2. \A at \in LoaderAwaits :
           /\ LoaderTo(at) => loader' \in [at : LoaderAwaits, core : Cores \cup {Stock}, failed : BOOLEAN]
           /\ LoaderFails(at) => loader' \in [at : LoaderAwaits, core : Cores \cup {Stock}, failed : BOOLEAN]
    BY <1>1
  <1>3. {"idle", "decide", "download", "staged", "unlink", "symlink", "point", "stat", "record",
         "forget", "delete", "discard", "done", "threw"} \subseteq LoaderAwaits
    BY DEF LoaderAwaits
  <1>4. CASE StockLinked
    BY <1>4, <1>2, <1>3, Unwritten DEF StockLinked, CoreTypeOK
  <1>5. CASE RestoreStock
    BY <1>5, <1>2, <1>3, Unwritten DEF RestoreStock, CoreTypeOK
  <1>6. CASE AlreadyInstalled
    BY <1>6, <1>2, <1>3, Unwritten DEF AlreadyInstalled, CoreTypeOK
  <1>7. CASE RemoveTmpLink
    BY <1>7, <1>2, <1>3, Unwritten DEF RemoveTmpLink, CoreTypeOK
  <1>8. CASE OpenMarker
    BY <1>8, <1>2, <1>3, Unwritten DEF OpenMarker, CoreTypeOK
  <1>9. CASE RemoveMarker
    BY <1>9, <1>2, <1>3, Unwritten DEF RemoveMarker, CoreTypeOK
  <1>10. CASE CoreStepFails
    BY <1>10, <1>2, <1>3, Unwritten DEF CoreStepFails, CoreTypeOK
  <1>11. CASE RestoreStepFails
    BY <1>11, <1>2, <1>3, Unwritten DEF RestoreStepFails, CoreTypeOK
  <1>12. CASE MakeTmpLink
    BY <1>12, <1>2, <1>3, Unwritten, CoresAssumption DEF MakeTmpLink, CoreTypeOK, Target
  <1>13. CASE PointLink
    BY <1>13, <1>2, <1>3, Unwritten DEF PointLink, CoreTypeOK, LoaderReady, Target
  <1>14. CASE WriteMarker
    BY <1>14, <1>1, <1>2, <1>3, Unwritten DEF WriteMarker, Marker, CoreTypeOK, LoaderReady
  <1>15. CASE InstallCore
    <2>1. loader.core \in Bodies \cup {Hole}
      BY <1>15, <1>1, CoresAssumption DEF InstallCore
    <2> QED BY <1>15, <1>2, <1>3, <2>1, PathTypes, CallTypes DEF InstallCore, CoreTypeOK
  <1>16. CASE Downloaded
    BY <1>16, <1>2, <1>3, PathTypes, TakeTypes DEF Downloaded, CoreTypeOK
  <1>17. CASE DownloadFailed
    BY <1>17, <1>2, <1>3, PathTypes, TakeTypes DEF DownloadFailed, CoreTypeOK
  <1>18. CASE MoveIntoPlace
    <2>1. DownloadTypeOK(Paths)' /\ Streams'
      BY <1>18, MoveTypes DEF MoveIntoPlace
    <2>2. UNCHANGED <<link, tmpLink>> /\ marker' = Outdated
      BY <1>18 DEF MoveIntoPlace
    <2>3. marker' \in {NoMarker, BrokenMarker} \cup [is : {"marker"}, core : Cores, current : BOOLEAN]
      BY <2>2 DEF Outdated, CoreTypeOK, NoMarker, BrokenMarker
    <2> QED BY <1>18, <1>2, <1>3, <2>1, <2>2, <2>3 DEF MoveIntoPlace, CoreTypeOK
  <1>19. CASE RemoveCustom
    <2>1. DownloadTypeOK(Paths)' /\ Streams'
      BY <1>19, MoveTypes DEF RemoveCustom
    <2>2. UNCHANGED <<link, tmpLink>> /\ marker' = Outdated
      BY <1>19 DEF RemoveCustom
    <2>3. marker' \in {NoMarker, BrokenMarker} \cup [is : {"marker"}, core : Cores, current : BOOLEAN]
      BY <2>2 DEF Outdated, CoreTypeOK, NoMarker, BrokenMarker
    <2> QED BY <1>19, <1>2, <1>3, <2>1, <2>2, <2>3 DEF RemoveCustom, CoreTypeOK
  <1>20. CASE DiscardStaged
    BY <1>20, <1>2, <1>3, MoveTypes, Unwritten DEF DiscardStaged, CoreTypeOK
  <1> QED
    BY <1>4, <1>5, <1>6, <1>7, <1>8, <1>9, <1>10, <1>11, <1>12, <1>13, <1>14, <1>15, <1>16, <1>17, <1>18, <1>19, <1>20 DEF CorePrepareStep

LEMMA CoreReady ==
  ASSUME CoreTypeOK, LoaderReady, CorePrepareStep
  PROVE  LoaderReady'
  <1> USE DEF LoaderTo, LoaderFails, Loading, core, LoaderReady, Target
  <1>1. loader \in [at : LoaderAwaits, core : Cores \cup {Stock}, failed : BOOLEAN]
    BY DEF CoreTypeOK
  <1>2. CASE StockLinked
    BY <1>1, <1>2 DEF StockLinked
  <1>3. CASE RestoreStock
    BY <1>1, <1>3 DEF RestoreStock
  <1>4. CASE AlreadyInstalled
    BY <1>1, <1>4 DEF AlreadyInstalled
  <1>5. CASE InstallCore
    BY <1>1, <1>5 DEF InstallCore
  <1>6. CASE Downloaded
    BY <1>1, <1>6 DEF Downloaded
  <1>7. CASE DownloadFailed
    BY <1>1, <1>7 DEF DownloadFailed
  <1>8. CASE MoveIntoPlace
    BY <1>1, <1>8 DEF MoveIntoPlace
  <1>9. CASE RemoveTmpLink
    BY <1>1, <1>9 DEF RemoveTmpLink
  <1>10. CASE MakeTmpLink
    BY <1>1, <1>10 DEF MakeTmpLink
  <1>11. CASE PointLink
    BY <1>1, <1>11 DEF PointLink
  <1>12. CASE OpenMarker
    BY <1>1, <1>12 DEF OpenMarker
  <1>13. CASE WriteMarker
    BY <1>1, <1>13 DEF WriteMarker
  <1>14. CASE RemoveMarker
    BY <1>1, <1>14 DEF RemoveMarker
  <1>15. CASE RemoveCustom
    BY <1>1, <1>15 DEF RemoveCustom
  <1>16. CASE CoreStepFails
    BY <1>1, <1>16 DEF CoreStepFails
  <1>17. CASE RestoreStepFails
    BY <1>1, <1>17 DEF RestoreStepFails
  <1>18. CASE DiscardStaged
    BY <1>1, <1>18 DEF DiscardStaged
  <1> QED
    BY <1>2, <1>3, <1>4, <1>5, <1>6, <1>7, <1>8, <1>9, <1>10, <1>11, <1>12, <1>13, <1>14, <1>15, <1>16, <1>17, <1>18
    DEF CorePrepareStep

LEMMA AssetTypes ==
  ASSUME DownloadTypeOK(Paths), Streams, GeodataTypeOK, NEW a \in AssetSlots, AssetStep(a)
  PROVE  DownloadTypeOK(Paths)' /\ Streams' /\ GeodataTypeOK'
  <1> USE PathTypes, AssetSlotsAssumption DEF AssetTo, GeodataTypeOK, geodata
  <1>1. \A at \in {"exists", "download", "stub", "done"} :
           AssetTo(a, at) => asset' \in [AssetSlots -> AssetAwaits]
    BY DEF AssetAwaits
  <1>2. CASE PickAsset(a)
    BY <1>1, <1>2, Unwritten DEF PickAsset
  <1>3. CASE AssetThere(a)
    BY <1>1, <1>3, Unwritten DEF AssetThere
  <1>4. CASE StubFails(a)
    BY <1>1, <1>4, Unwritten DEF StubFails
  <1>5. CASE AssetMissing(a)
    BY <1>1, <1>5, CallTypes DEF AssetMissing
  <1>6. CASE AssetDownloaded(a)
    BY <1>1, <1>6, TakeTypes DEF AssetDownloaded
  <1>7. CASE AssetNotDownloaded(a)
    BY <1>1, <1>7, TakeTypes DEF AssetNotDownloaded
  <1>8. CASE CreateStub(a)
    <2>1. disk' \in [Paths -> Contents \cup {NoFile}]
      BY <1>8, ContentTypes DEF CreateStub, DownloadTypeOK
    <2>2. \A q \in Paths : disk[q] # NoFile => disk'[q] # NoFile
      BY <1>8 DEF CreateStub, DownloadTypeOK
    <2>3. \A d \in Slots : dl[d].at = "body" => dl[d].file \in Paths \cup {NoFile}
      BY StreamType DEF Streaming
    <2>4. Streams'
      BY <1>8, <2>2, <2>3 DEF CreateStub, Streams, StreamsApart, StreamsOpen, Downloading
    <2> QED BY <1>1, <1>8, <2>1, <2>4 DEF CreateStub, DownloadTypeOK
  <1>9. CASE DownloadStep(a) /\ UNCHANGED geodata
    BY <1>9, DownloadTypes, DownloadStreams DEF Streams
  <1> QED BY <1>2, <1>3, <1>4, <1>5, <1>6, <1>7, <1>8, <1>9 DEF AssetStep, PrepareAsset

Types == TypeOK /\ Streams /\ LoaderReady

LEMMA TypesInit == Init => Types
  <1> SUFFICES ASSUME Init PROVE Types  OBVIOUS
  <1>1. DownloadTypeOK(Paths) /\ Streams
    BY DEF Init, DownloadTypeOK, Streams, StreamsApart, StreamsOpen, Downloading, NoDownload
  <1>2. CoreTypeOK /\ LoaderReady
    BY DEF Init, CoreInit, CoreTypeOK, LoaderReady, Loading, NotPreparing, LoaderAwaits, NoMarker
  <1>3. GeodataTypeOK
    BY DEF Init, GeodataInit, GeodataTypeOK, AssetAwaits
  <1>4. cleanup \in [patterns : SUBSET Patterns, todo : SUBSET Sockets,
                    seen : SUBSET Sockets, exact : BOOLEAN]
    BY DEF Init, NoCleanup
  <1>5. synced \in 0..Integrations  BY IntegrationsAssumption DEF Init
  <1>6. request \in Sections /\ phase \in Phases  BY DEF Init, Sections, Phases
  <1>7. erred \in BOOLEAN /\ xray \in BOOLEAN  BY DEF Init
  <1>8. panel \in Panels /\ sock \in [Sockets -> {"nothing", "socket", "file"}]
    BY DEF Init
  <1> QED BY <1>1, <1>2, <1>3, <1>4, <1>5, <1>6, <1>7, <1>8 DEF Types, TypeOK

\* What is not about the disk.
Outside ==
    /\ panel \in Panels /\ phase \in Phases /\ request \in Sections
    /\ synced \in 0..Integrations /\ erred \in BOOLEAN
    /\ xray \in BOOLEAN
    /\ sock \in [Sockets -> {"nothing", "socket", "file"}]
    /\ cleanup \in [patterns : SUBSET Patterns, todo : SUBSET Sockets,
                    seen : SUBSET Sockets, exact : BOOLEAN]

LEMMA OutsideTypes ==
  ASSUME Types, Next
  PROVE  Outside'
  <1> USE DEF Outside, To, preparation, outside
  <1>1. Outside  BY DEF Types, TypeOK
  <1>2. {"idle", "integrations", "core", "assets", "stop", "sockets"} = Phases
    BY DEF Phases
  <1>3. /\ panel.starts \subseteq Sections /\ panel.cleanups \subseteq SUBSET Patterns
    BY <1>1, PanelsAssumption DEF PanelKinds
  <1>4. CASE \E s \in panel.starts : Receive(s)
    <2>1. erred' \in BOOLEAN  BY <1>4 DEF Receive
    <2>2. synced' \in 0..Integrations  BY <1>4, IntegrationsAssumption DEF Receive
    <2> QED BY <1>1, <1>2, <1>3, <1>4, <2>1, <2>2 DEF Receive
  <1>5. CASE SyncIntegration
    <2>1. erred' \in BOOLEAN  BY <1>1, <1>5 DEF SyncIntegration
    <2>2. synced' \in 0..Integrations  BY <1>1, <1>5, IntegrationsAssumption DEF SyncIntegration
    <2> QED BY <1>1, <1>5, <2>1, <2>2 DEF SyncIntegration
  <1>6. CASE LeaveEarly
    BY <1>1, <1>2, <1>3, <1>6 DEF LeaveEarly
  <1>7. CASE PrepareCore
    BY <1>1, <1>2, <1>3, <1>7 DEF PrepareCore
  <1>8. CASE LoadCore
    BY <1>1, <1>2, <1>3, <1>8 DEF LoadCore
  <1>9. CASE CoreThrew
    BY <1>1, <1>2, <1>3, <1>9 DEF CoreThrew
  <1>10. CASE LoadAssets
    BY <1>1, <1>2, <1>3, <1>10 DEF LoadAssets
  <1>11. CASE AssetsPrepared
    BY <1>1, <1>2, <1>3, <1>11 DEF AssetsPrepared
  <1>12. CASE StartXray
    BY <1>1, <1>2, <1>3, <1>12 DEF StartXray
  <1>13. CASE ControlFails
    BY <1>1, <1>2, <1>3, <1>13 DEF ControlFails
  <1>14. CASE StopOrExit
    BY <1>1, <1>2, <1>3, <1>14 DEF StopOrExit
  <1>15. CASE PrepareAssets
    BY <1>1, <1>2, <1>3, <1>15 DEF PrepareAssets, Sections
  <1>16. CASE \E c \in panel.cleanups : StopXray(c)
    <2>1. PICK c \in panel.cleanups : StopXray(c)  BY <1>16
    <2>2. cleanup' = [patterns |-> c, todo |-> {}, seen |-> {}, exact |-> TRUE]
      BY <2>1 DEF StopXray, NoCleanup
    <2>3. cleanup' \in [patterns : SUBSET Patterns, todo : SUBSET Sockets,
                       seen : SUBSET Sockets, exact : BOOLEAN]
      BY <1>3, <2>1, <2>2
    <2>4. xray' \in BOOLEAN  BY <2>1 DEF StopXray
    <2> QED BY <1>1, <1>2, <2>1, <2>3, <2>4 DEF StopXray
  <1>17. CASE \E q \in cleanup.patterns : ResolvePattern(q)
    <2>1. PICK q \in cleanup.patterns : ResolvePattern(q)  BY <1>17
    <2>2. q \in Patterns  BY <1>1
    <2>3. PICK matches \in SUBSET Sockets :
            cleanup' = [patterns |-> cleanup.patterns \ {q}, todo |-> matches,
                        seen |-> cleanup.seen \cup matches,
                        exact |-> cleanup.exact /\ {x \in q.paths : sock[x] # "nothing"} \subseteq matches]
      BY <2>1, <2>2 DEF ResolvePattern, Patterns
    <2>4. (cleanup.exact /\ {x \in q.paths : sock[x] # "nothing"} \subseteq matches) \in BOOLEAN
      OBVIOUS
    <2>5. cleanup' \in [patterns : SUBSET Patterns, todo : SUBSET Sockets,
                       seen : SUBSET Sockets, exact : BOOLEAN]
      BY <1>1, <2>3, <2>4
    <2> QED BY <1>1, <2>1, <2>5 DEF ResolvePattern
  <1>18. CASE \E q \in Sockets : RemoveSocket(q)
    <2>1. PICK q \in Sockets : RemoveSocket(q)  BY <1>18
    <2>2. sock' \in [Sockets -> {"nothing", "socket", "file"}]
      BY <1>1, <2>1 DEF RemoveSocket
    <2>3. cleanup' \in [patterns : SUBSET Patterns, todo : SUBSET Sockets,
                       seen : SUBSET Sockets, exact : BOOLEAN]
      <3>1. cleanup' = [cleanup EXCEPT !.todo = cleanup.todo \ {q}]
              \/ cleanup' = [cleanup EXCEPT !.todo = cleanup.todo \ {q}, !.exact = FALSE]
        BY <2>1 DEF RemoveSocket
      <3>2. cleanup.todo \ {q} \in SUBSET Sockets /\ FALSE \in BOOLEAN  BY <1>1
      <3> QED BY <1>1, <3>1, <3>2
    <2> QED BY <1>1, <2>1, <2>2, <2>3 DEF RemoveSocket
  <1>19. CASE \E q \in Sockets : BindSocket(q)
    BY <1>1, <1>2, <1>3, <1>19 DEF BindSocket
  <1>20. CASE Crash
    <2>1. erred' \in BOOLEAN /\ xray' \in BOOLEAN  BY <1>20 DEF Crash
    <2>2. synced' \in 0..Integrations  BY <1>20, IntegrationsAssumption DEF Crash
    <2>3. request' \in Sections  BY <1>20 DEF Crash, Sections
    <2>4. cleanup' \in [patterns : SUBSET Patterns, todo : SUBSET Sockets,
                       seen : SUBSET Sockets, exact : BOOLEAN]
      BY <1>20 DEF Crash, NoCleanup
    <2> QED BY <1>1, <1>2, <1>20, <2>1, <2>2, <2>3, <2>4 DEF Crash
  <1> QED
    BY <1>4, <1>5, <1>6, <1>7, <1>8, <1>9, <1>10, <1>11, <1>12, <1>13, <1>14, <1>15, <1>16, <1>17, <1>18, <1>19, <1>20
    DEF Next, StartStep

LEMMA TypesStep == Types /\ [Next]_vars => Types'
  <1> SUFFICES ASSUME Types, [Next]_vars PROVE Types'  OBVIOUS
  <1> USE DEF Types, TypeOK
  <1>1. CASE UNCHANGED vars
    <2>1. DownloadTypeOK(Paths)' /\ Streams'
      BY <1>1, Unwritten DEF vars
    <2> QED
      BY <1>1, <2>1 DEF vars, core, geodata, preparation, outside, CoreTypeOK, GeodataTypeOK,
         LoaderReady, Loading, Target
  <1>2. CASE Next
    <2>1. Outside'  BY <1>2, OutsideTypes
    <2> SUFFICES DownloadTypeOK(Paths)' /\ Streams' /\ CoreTypeOK' /\ GeodataTypeOK' /\ LoaderReady'
      BY <2>1 DEF Outside
    <2>2. CASE UNCHANGED <<disk, dl, core, loader>>
      <3>1. DownloadTypeOK(Paths)' /\ Streams'  BY <2>2, Unwritten
      <3>2. CoreTypeOK' /\ LoaderReady'
        BY <2>2 DEF core, CoreTypeOK, LoaderReady, Loading, Target
      <3>3. GeodataTypeOK'
        <4>1. CASE UNCHANGED geodata
          BY <4>1 DEF geodata, GeodataTypeOK
        <4>2. CASE PrepareAssets \/ Crash
          BY <4>2 DEF PrepareAssets, Crash, QueueAssets, GeodataTypeOK, AssetAwaits
        <4>3. CASE LoadAssets
          BY <4>3, AssetTypes DEF LoadAssets
        <4>4. CASE LoadCore
          BY <4>4 DEF LoadCore, geodata, GeodataTypeOK
        <4> QED
          BY <1>2, <4>1, <4>2, <4>3, <4>4
          DEF Next, StartStep, Receive, SyncIntegration, LeaveEarly, PrepareCore, CoreThrew,
              AssetsPrepared, StopXray, ResolvePattern, RemoveSocket, StartXray, ControlFails,
              BindSocket, StopOrExit
      <3> QED BY <3>1, <3>2, <3>3
    <2>3. CASE PrepareCore
      <3>1. DownloadTypeOK(Paths)' /\ Streams'  BY <2>3, Unwritten DEF PrepareCore
      <3>2. loader' \in [at : {"decide", "done"}, core : Cores \cup {Stock}, failed : BOOLEAN]
        <4>1. \/ loader' = [at |-> "decide", core |-> request.core, failed |-> FALSE]
              \/ loader' = [at |-> "done", core |-> request.core, failed |-> TRUE]
          BY <2>3 DEF PrepareCore, Prepare
        <4>2. request.core \in Cores \cup {Stock}  BY DEF Sections
        <4>3. ASSUME NEW at \in {"decide", "done"}, NEW f \in BOOLEAN
              PROVE  [at |-> at, core |-> request.core, failed |-> f]
                       \in [at : {"decide", "done"}, core : Cores \cup {Stock}, failed : BOOLEAN]
          BY <4>2
        <4> QED BY <4>1, <4>3
      <3>3. UNCHANGED <<core, geodata>>  BY <2>3 DEF PrepareCore
      <3> QED
        BY <3>1, <3>2, <3>3
        DEF core, geodata, CoreTypeOK, GeodataTypeOK, LoaderAwaits, LoaderReady, Loading
    <2>4. CASE LoadCore
      <3>1. CASE CorePrepareStep
        <4>1. DownloadTypeOK(Paths)' /\ Streams' /\ CoreTypeOK' /\ LoaderReady'
          BY <3>1, CoreTypes, CoreReady
        <4> QED BY <2>4, <4>1 DEF LoadCore, geodata, GeodataTypeOK
      <3>2. CASE DownloadStep(CoreSlot) /\ UNCHANGED <<core, loader>>
        <4>1. DownloadTypeOK(Paths)' /\ Streams'
          BY <3>2, PathTypes, DownloadTypes, DownloadStreams DEF Streams
        <4> QED
          BY <2>4, <3>2, <4>1 DEF LoadCore, core, geodata, CoreTypeOK, GeodataTypeOK,
             LoaderReady, Loading, Target
      <3> QED BY <2>4, <3>1, <3>2 DEF LoadCore, CoreStep
    <2>5. CASE LoadAssets
      <3>1. DownloadTypeOK(Paths)' /\ Streams' /\ GeodataTypeOK'
        BY <2>5, AssetTypes DEF LoadAssets
      <3> QED
        BY <2>5, <3>1 DEF LoadAssets, core, CoreTypeOK, LoaderReady, Loading, Target
    <2>6. CASE Crash
      <3>1. DownloadTypeOK(Paths)' /\ Streams'
        BY <2>6 DEF Crash, DownloadTypeOK, NoDownload, Streams, StreamsApart, StreamsOpen, Downloading
      <3>2. CoreTypeOK' /\ LoaderReady'
        BY <2>6 DEF Crash, core, NotPreparing, CoreTypeOK, LoaderAwaits, LoaderReady, Loading
      <3>3. GeodataTypeOK'
        BY <2>6 DEF Crash, QueueAssets, GeodataTypeOK, AssetAwaits
      <3> QED BY <3>1, <3>2, <3>3
    <2> QED
      BY <1>2, <2>2, <2>3, <2>4, <2>5, <2>6
      DEF Next, StartStep, Receive, SyncIntegration, LeaveEarly, CoreThrew, PrepareAssets,
          AssetsPrepared, StopXray, ResolvePattern, RemoveSocket, StartXray, ControlFails,
          BindSocket, StopOrExit, outside
  <1> QED BY <1>1, <1>2

\* Every variable keeps its type, however many cores, assets and chunks there
\* are: a stream always has a file to write to, the new link is there when it
\* takes the place of the old one, and what is put on record is a core.
THEOREM PreparationTypeCorrect == Spec => []TypeOK
  <1>1. Spec => []Types
    BY TypesInit, TypesStep, PTL DEF Spec
  <1>2. Types => TypeOK
    BY DEF Types
  <1> QED BY <1>1, <1>2, PTL

-----------------------------------------------------------------------------
(* The core.  That rw-core leads to a whole core is not inductive: it needs *)
(* what each await of prepare may rely on, and what the marker promises.    *)

LinkLeads == link = CUSTOM => \E c \in Cores : disk[CUSTOM] = Whole(c)

MarkerTrue == marker.is = "marker" /\ marker.current => disk[CUSTOM] = Whole(marker.core)

\* The temporary file holds what has been written of the body, and a download
\* that has ended left the core asked for.
CoreDownloads ==
    /\ ~Downloading(CoreSlot, "idle") => Loading("download")
    /\ dl[CoreSlot].at \in {"fetch", "body"} => dl[CoreSlot].wanted = loader.core
    /\ Downloading(CoreSlot, "body") =>
          disk[Temporary(STAGED)] =
              [k \in 1..Chunks |-> IF k <= dl[CoreSlot].n THEN dl[CoreSlot].body ELSE Hole]
    /\ Downloading(CoreSlot, "done") => disk[STAGED] = Whole(loader.core)

Progress ==
    /\ Loading("staged") => disk[STAGED] = Whole(loader.core)
    /\ loader.at \in {"unlink", "symlink", "point"} /\ loader.core # Stock =>
          loader.core \in Cores /\ disk[CUSTOM] = Whole(loader.core)
    /\ loader.at \in {"stat", "record"} =>
          link = CUSTOM /\ loader.core # Stock /\ disk[CUSTOM] = Whole(loader.core)
    /\ loader.at \in {"forget", "delete"} => link = Stock
    /\ Loading("discard") => loader.failed
    /\ PreparedRunsWanted

CoreInv == LinkLeads /\ MarkerTrue /\ CoreDownloads /\ Progress

LEMMA CoreInvInit == Init => CoreInv
  BY CoresAssumption, CoreSlotAssumption
  DEF Init, CoreInit, NotPreparing, NoDownload, NoMarker, CoreInv, LinkLeads, MarkerTrue,
      CoreDownloads, Progress, PreparedRunsWanted, Loading, Downloading

LEMMA CoreUntouched ==
  ASSUME CoreInv, UNCHANGED <<core, loader>>, dl'[CoreSlot] = dl[CoreSlot],
         \A p \in CoreFiles : disk'[p] = disk[p]
  PROVE  CoreInv'
  <1>1. CUSTOM \in CoreFiles /\ STAGED \in CoreFiles /\ Temporary(STAGED) \in CoreFiles
    BY DEF CoreFiles
  <1> QED
    BY <1>1 DEF core, CoreInv, LinkLeads, MarkerTrue, CoreDownloads, Progress,
                PreparedRunsWanted, Installed, Runs, Loading, Downloading

LEMMA OtherDownload ==
  ASSUME Types, NEW d \in Slots \ {CoreSlot}, DownloadStep(d)
  PROVE  dl'[CoreSlot] = dl[CoreSlot] /\ \A p \in CoreFiles : disk'[p] = disk[p]
  <1> USE PathTypes DEF Types, TypeOK, Downloading
  <1>1. CoreFiles \subseteq Paths
    BY CoreFilesDiffer
  <1>2. PathOf[d] \notin CoreFiles /\ TemporaryOf(d) \notin CoreFiles /\ NoFile \notin CoreFiles
    BY CoreFilesDiffer, CoresAssumption
  <1>3. dl[CoreSlot].at = "body" =>
          /\ dl[CoreSlot] \in Streaming(Paths)
          /\ dl[CoreSlot].file \in CoreFiles
    BY StreamType, CoreFilesDiffer DEF Streams, StreamsApart
  <1>4. CASE Open(d) \/ BreakOff(d)
    BY <1>1, <1>2, <1>4 DEF Open, BreakOff, End, DownloadTypeOK
  <1>5. CASE WriteChunk(d)
    <2>1. dl[d].file \notin CoreFiles
      BY <1>5 DEF WriteChunk, Streams, StreamsApart
    <2> QED BY <1>1, <1>5, <2>1 DEF WriteChunk, DownloadTypeOK
  <1>6. ASSUME NEW at, NEW to \in {NoFile, PathOf[d]}, dl' = Following(End(d, at), TemporaryOf(d), to)
        PROVE  dl'[CoreSlot] = dl[CoreSlot]
    <2>1. CASE dl[CoreSlot].at # "body"
      BY <1>6, <2>1 DEF Following, End, DownloadTypeOK
    <2>2. CASE dl[CoreSlot].at = "body"
      <3>1. dl'[CoreSlot] = [dl[CoreSlot] EXCEPT !.file = dl[CoreSlot].file]
        BY <1>2, <1>3, <1>6, <2>2 DEF Following, End, DownloadTypeOK
      <3> QED BY <1>3, <2>2, <3>1 DEF Streaming
    <2> QED BY <2>1, <2>2
  <1>7. CASE Install(d)
    BY <1>1, <1>2, <1>6, <1>7 DEF Install, InstallFile, Renamed, DownloadTypeOK
  <1>8. CASE CleanUp(d)
    BY <1>1, <1>2, <1>6, <1>8 DEF CleanUp, Removed, End, DownloadTypeOK
  <1> QED BY <1>4, <1>5, <1>7, <1>8 DEF DownloadStep

LEMMA CoreDownload ==
  ASSUME Types, CoreInv, DownloadStep(CoreSlot), UNCHANGED <<core, loader>>
  PROVE  CoreInv'
  <1> DEFINE T == Temporary(STAGED)
             d == dl[CoreSlot]
             Written(body, n) == [k \in 1..Chunks |-> IF k <= n THEN body ELSE Hole]
  <1>1. /\ TemporaryOf(CoreSlot) = T /\ PathOf[CoreSlot] = STAGED
        /\ T # CUSTOM /\ STAGED # CUSTOM /\ T # STAGED
        /\ T \in Paths /\ STAGED \in Paths /\ CUSTOM \in Paths /\ CoreSlot \in Slots
    BY CoreFilesDiffer, PathTypes
  <1>2. dl \in [Slots -> {NoDownload} \cup Ending \cup Fetching \cup Streaming(Paths)]
        /\ disk \in [Paths -> Contents \cup {NoFile}]
    BY DEF Types, TypeOK, DownloadTypeOK
  <1>3. Loading("download") /\ loader.core \in Cores
    <2>1. d.at # "idle"
      BY DEF DownloadStep, Open, WriteChunk, BreakOff, Install, CleanUp, Downloading
    <2> QED BY <2>1 DEF CoreInv, CoreDownloads, Downloading, Types, LoaderReady, Loading
  <1>4. d.at = "body" => d.file = T /\ d \in Streaming(Paths) /\ T # NoFile
    BY <1>1, StreamType, CoresAssumption
    DEF Types, TypeOK, Streams, StreamsApart, Downloading, CoreFiles
  <1>5. ASSUME disk'[CUSTOM] = disk[CUSTOM], CoreDownloads' PROVE CoreInv'
    BY <1>3, <1>5 DEF core, CoreInv, LinkLeads, MarkerTrue, Progress, PreparedRunsWanted, Loading
  <1>6. CASE Open(CoreSlot)
    <2>1. PICK body \in Bodies :
            d' = [at |-> "body", wanted |-> d.wanted, body |-> body, file |-> T, n |-> 0]
      BY <1>1, <1>2, <1>6 DEF Open
    <2>2. disk'[T] = Empty /\ disk'[CUSTOM] = disk[CUSTOM]
      BY <1>1, <1>2, <1>6 DEF Open
    <2>3. Empty = Written(d'.body, d'.n)
      BY <2>1, ChunksAssumption DEF Empty
    <2>4. d.wanted = loader.core
      BY <1>6 DEF Open, CoreInv, CoreDownloads, Downloading
    <2>5. CoreDownloads'
      BY <1>3, <2>1, <2>2, <2>3, <2>4 DEF CoreDownloads, Downloading, Loading
    <2> QED BY <1>5, <2>2, <2>5
  <1>7. CASE WriteChunk(CoreSlot)
    <2>1. d.at = "body" /\ d.n < Chunks  BY <1>7 DEF WriteChunk, Downloading
    <2>2. d' = [d EXCEPT !.n = d.n + 1]  BY <1>1, <1>2, <1>7 DEF WriteChunk
    <2>3. d' = [at |-> "body", wanted |-> d.wanted, body |-> d.body, file |-> T, n |-> d.n + 1]
      BY <1>4, <2>1, <2>2 DEF Streaming
    <2>4. disk' = [disk EXCEPT ![T] = [disk[T] EXCEPT ![d.n + 1] = d.body]]
      BY <1>4, <1>7, <2>1 DEF WriteChunk
    <2>5. disk[T] = Written(d.body, d.n)
      BY <2>1 DEF CoreInv, CoreDownloads, Downloading
    <2>6. disk'[T] = [Written(d.body, d.n) EXCEPT ![d.n + 1] = d.body]
          /\ disk'[CUSTOM] = disk[CUSTOM]
      BY <1>1, <1>2, <2>4, <2>5
    <2>7. d.n \in Nat /\ Chunks \in Nat
      BY <1>4, <2>1, ChunksAssumption DEF Streaming
    <2>8. disk'[T] = Written(d.body, d.n + 1)
      <3>1. ASSUME NEW b, NEW n \in Nat, n < Chunks
            PROVE  [Written(b, n) EXCEPT ![n + 1] = b] = Written(b, n + 1)
        <4>1. \A k \in 1..Chunks :
                [Written(b, n) EXCEPT ![n + 1] = b][k] = Written(b, n + 1)[k]
          BY <2>7, <3>1
        <4> QED BY <4>1
      <3> QED BY <2>1, <2>6, <2>7, <3>1
    <2>9. CoreDownloads'
      BY <1>3, <2>1, <2>3, <2>8 DEF CoreInv, CoreDownloads, Downloading, Loading
    <2> QED BY <1>5, <2>6, <2>9
  <1>8. ASSUME NEW at \in {"failed", "threw"}, NEW D, D = End(CoreSlot, at),
               \/ dl' = D
               \/ dl' = Following(D, T, NoFile)
        PROVE  d' = [at |-> at]
    BY <1>1, <1>2, <1>8 DEF End, Following
  <1>9. CASE BreakOff(CoreSlot) \/ CleanUp(CoreSlot)
    <2>1. d' = [at |-> "failed"] \/ d' = [at |-> "threw"]
      BY <1>1, <1>8, <1>9 DEF BreakOff, CleanUp
    <2>2. disk'[CUSTOM] = disk[CUSTOM]
      BY <1>1, <1>2, <1>9 DEF BreakOff, CleanUp, Removed
    <2>3. CoreDownloads'
      BY <1>3, <2>1 DEF CoreDownloads, Downloading, Loading
    <2> QED BY <1>5, <2>2, <2>3
  <1>10. CASE Install(CoreSlot)
    <2>1. d.at = "body" /\ d.n = Chunks /\ Matches(CoreSlot) /\ InstallFile(CoreSlot)
      BY <1>10 DEF Install, Downloading
    <2>2. d.body = loader.core
      <3>1. d.wanted = loader.core
        BY <2>1 DEF CoreInv, CoreDownloads
      <3>2. loader.core # Hole
        BY <1>3, CoresAssumption, HoleAssumption
      <3> QED BY <2>1, <3>1, <3>2 DEF Matches
    <2>3. disk[T] = Written(d.body, Chunks)
      BY <2>1 DEF CoreInv, CoreDownloads, Downloading
    <2>4. Written(d.body, Chunks) = Whole(loader.core)
      BY <2>2, ChunksAssumption DEF Whole
    <2>5. disk'[STAGED] = Whole(loader.core) /\ disk'[CUSTOM] = disk[CUSTOM]
      BY <1>1, <1>2, <2>1, <2>3, <2>4 DEF InstallFile, Renamed
    <2>6. d' = [at |-> "done"]
      BY <1>1, <1>2, <2>1 DEF InstallFile, Following, End
    <2>7. CoreDownloads'
      BY <1>3, <2>5, <2>6 DEF CoreDownloads, Downloading, Loading
    <2> QED BY <1>5, <2>5, <2>7
  <1> QED BY <1>6, <1>7, <1>9, <1>10 DEF DownloadStep

LEMMA CorePrepare ==
  ASSUME Types, CoreInv, CorePrepareStep
  PROVE  CoreInv'
  <1>1. loader \in [at : LoaderAwaits, core : Cores \cup {Stock}, failed : BOOLEAN]
    BY DEF Types, TypeOK, CoreTypeOK
  <1>2. /\ STAGED # CUSTOM /\ Stock # CUSTOM /\ Stock \notin Cores
        /\ CUSTOM \in Paths /\ STAGED \in Paths /\ CoreSlot \in Slots
    BY CoreFilesDiffer, PathTypes, CoresAssumption
  <1>3. /\ DOMAIN disk = Paths /\ DOMAIN dl = Slots
        /\ link \in {Stock, CUSTOM}
    BY DEF Types, TypeOK, DownloadTypeOK, CoreTypeOK
  <1>4. LoaderReady  BY DEF Types
  <1> USE DEF LoaderTo, LoaderFails, Loading, Downloading, core, CoreInv, LinkLeads, MarkerTrue,
              CoreDownloads, Progress, PreparedRunsWanted, Installed, Runs
  <1>5. CASE StockLinked
    BY <1>1, <1>2, <1>3, <1>4, <1>5 DEF StockLinked
  <1>6. CASE RestoreStock
    BY <1>1, <1>2, <1>3, <1>4, <1>6 DEF RestoreStock
  <1>7. CASE AlreadyInstalled
    BY <1>1, <1>2, <1>3, <1>4, <1>7 DEF AlreadyInstalled, IsInstalled
  <1>8. CASE InstallCore
    BY <1>1, <1>2, <1>3, <1>4, <1>8 DEF InstallCore, CallDownload
  <1>9. CASE Downloaded
    BY <1>1, <1>2, <1>3, <1>4, <1>9 DEF Downloaded, TakeResult, NoDownload
  <1>10. CASE DownloadFailed
    BY <1>1, <1>2, <1>3, <1>4, <1>10 DEF DownloadFailed, TakeResult, NoDownload
  <1>11. CASE MoveIntoPlace
    BY <1>1, <1>2, <1>3, <1>4, <1>11 DEF MoveIntoPlace, Renamed, Outdated, LoaderReady
  <1>12. CASE RemoveTmpLink
    BY <1>1, <1>2, <1>3, <1>4, <1>12 DEF RemoveTmpLink
  <1>13. CASE MakeTmpLink
    BY <1>1, <1>2, <1>3, <1>4, <1>13 DEF MakeTmpLink
  <1>14. CASE PointLink
    BY <1>1, <1>2, <1>3, <1>4, <1>14 DEF PointLink, LoaderReady, Target
  <1>15. CASE OpenMarker
    BY <1>1, <1>2, <1>3, <1>4, <1>15 DEF OpenMarker, BrokenMarker
  <1>16. CASE WriteMarker
    BY <1>1, <1>2, <1>3, <1>4, <1>16 DEF WriteMarker, Marker
  <1>17. CASE RemoveMarker
    BY <1>1, <1>2, <1>3, <1>4, <1>17 DEF RemoveMarker, NoMarker, LoaderReady
  <1>18. CASE RemoveCustom
    BY <1>1, <1>2, <1>3, <1>4, <1>18 DEF RemoveCustom, Removed, Outdated, LoaderReady
  <1>19. CASE CoreStepFails
    BY <1>1, <1>2, <1>3, <1>4, <1>19 DEF CoreStepFails
  <1>20. CASE RestoreStepFails
    BY <1>1, <1>2, <1>3, <1>4, <1>20 DEF RestoreStepFails
  <1>21. CASE DiscardStaged
    BY <1>1, <1>2, <1>3, <1>4, <1>21 DEF DiscardStaged, Removed
  <1> QED
    BY <1>5, <1>6, <1>7, <1>8, <1>9, <1>10, <1>11, <1>12, <1>13, <1>14, <1>15, <1>16, <1>17, <1>18, <1>19, <1>20, <1>21
    DEF CorePrepareStep

LoaderPhase == loader.at \notin {"idle", "done", "threw"} => phase = "core"

LEMMA LoaderPhaseStep ==
  ASSUME Types, LoaderPhase, Next
  PROVE  LoaderPhase'
  <1> USE DEF LoaderPhase, To, preparation, Loading
  <1>1. CASE LoadCore  BY <1>1 DEF LoadCore
  <1>2. CASE PrepareCore  BY <1>2 DEF PrepareCore
  <1>3. CASE Crash  BY <1>3 DEF Crash, NotPreparing
  <1>4. CASE CoreThrew \/ PrepareAssets  BY <1>4 DEF CoreThrew, PrepareAssets
  <1>5. CASE UNCHANGED loader /\ (phase = "core" => UNCHANGED phase)
    BY <1>5
  <1> QED
    BY <1>1, <1>2, <1>3, <1>4, <1>5
    DEF Next, StartStep, Receive, SyncIntegration, LeaveEarly, LoadAssets, AssetsPrepared,
        StopXray, ResolvePattern, RemoveSocket, StartXray, ControlFails, BindSocket, StopOrExit

LEMMA AssetLeavesCore ==
  ASSUME Types, CoreInv, LoadAssets
  PROVE  CoreInv'
  <1>1. PICK a \in AssetSlots : AssetStep(a)  BY DEF LoadAssets
  <1>2. a \in Slots \ {CoreSlot} /\ CoreSlot \in Slots /\ PathOf[a] \notin CoreFiles /\ CoreFiles \subseteq Paths
    BY AssetSlotsAssumption, SeparateAssumption, PathTypes, CoreFilesDiffer
  <1>3. DOMAIN disk = Paths /\ DOMAIN dl = Slots
    BY DEF Types, TypeOK, DownloadTypeOK
  <1>4. dl'[CoreSlot] = dl[CoreSlot] /\ \A p \in CoreFiles : disk'[p] = disk[p]
    <2>1. CASE DownloadStep(a)
      BY <1>2, <2>1, OtherDownload
    <2>2. CASE PrepareAsset(a)
      BY <1>2, <1>3, <2>2
      DEF PrepareAsset, PickAsset, AssetThere, AssetMissing, AssetDownloaded, AssetNotDownloaded,
          CreateStub, StubFails, CallDownload, TakeResult
    <2> QED BY <1>1, <2>1, <2>2 DEF AssetStep
  <1>5. UNCHANGED <<core, loader>>  BY DEF LoadAssets
  <1> QED BY <1>4, <1>5, CoreUntouched

Inv == Types /\ LoaderPhase /\ CoreInv

LEMMA InvStep == Inv /\ [Next]_vars => Inv'
  <1> SUFFICES ASSUME Inv, [Next]_vars PROVE Inv'  OBVIOUS
  <1> USE DEF Inv
  <1>1. Types'  BY TypesStep
  <1>2. CASE UNCHANGED vars
    BY <1>1, <1>2, CoreUntouched DEF vars, preparation, LoaderPhase
  <1>3. CASE Next
    <2>1. LoaderPhase'  BY <1>3, LoaderPhaseStep
    <2>2. CASE UNCHANGED <<disk, dl, core, loader>>
      BY <1>1, <2>1, <2>2, CoreUntouched
    <2>3. CASE PrepareCore
      <3>1. dl[CoreSlot].at = "idle"
        BY <2>3 DEF PrepareCore, LoaderPhase, CoreInv, CoreDownloads, Loading, Downloading
      <3>2. loader'.at = "decide" \/ (loader'.at = "done" /\ loader'.failed)
        BY <2>3 DEF PrepareCore, Prepare
      <3>3. UNCHANGED <<disk, dl, link, marker>>
        BY <2>3 DEF PrepareCore, core
      <3>4. CoreInv'
        BY <3>1, <3>2, <3>3
        DEF CoreInv, LinkLeads, MarkerTrue, CoreDownloads, Progress, PreparedRunsWanted,
            Loading, Downloading
      <3> QED BY <1>1, <2>1, <3>4
    <2>4. CASE LoadCore
      BY <1>1, <2>1, <2>4, CorePrepare, CoreDownload DEF LoadCore, CoreStep
    <2>5. CASE LoadAssets
      BY <1>1, <2>1, <2>5, AssetLeavesCore
    <2>6. CASE Crash
      <3>1. dl'[CoreSlot].at = "idle" /\ loader'.at = "idle" /\ UNCHANGED <<disk, link, marker>>
        BY <2>6, CoreSlotAssumption DEF Crash, core, NoDownload, NotPreparing
      <3>2. CoreInv'
        BY <3>1 DEF CoreInv, LinkLeads, MarkerTrue, CoreDownloads, Progress, PreparedRunsWanted,
            Loading, Downloading
      <3> QED BY <1>1, <2>1, <3>2
    <2> QED
      BY <1>3, <2>2, <2>3, <2>4, <2>5, <2>6
      DEF Next, StartStep, Receive, SyncIntegration, LeaveEarly, CoreThrew, PrepareAssets,
          AssetsPrepared, StopXray, ResolvePattern, RemoveSocket, StartXray, ControlFails,
          BindSocket, StopOrExit, outside
  <1> QED BY <1>2, <1>3

LEMMA InvAlways == Spec => []Inv
  <1>1. Init => Inv
    BY TypesInit, CoreInvInit DEF Inv, LoaderPhase, Init, CoreInit, NotPreparing
  <1> QED BY <1>1, InvStep, PTL DEF Spec

\* Wherever the node dies, and whatever the network and the file system do,
\* rw-core leads to the stock core or to one whole core that was asked for.
THEOREM CoreAlwaysRunnable == Spec => []RunnableCore
  <1>1. Inv => RunnableCore
    BY CoresAssumption
    DEF Inv, Types, TypeOK, CoreTypeOK, CoreInv, LinkLeads, RunnableCore, Installed, Runs
  <1> QED BY <1>1, InvAlways, PTL

\* A prepare in which no call failed leaves the core that was asked for: what
\* isInstalled trusts in the marker is true after every crash.
THEOREM PreparedCoreRuns == Spec => []PreparedRunsWanted
  <1>1. Inv => PreparedRunsWanted
    BY DEF Inv, CoreInv, Progress
  <1> QED BY <1>1, InvAlways, PTL

-----------------------------------------------------------------------------
(* The loader implements the safety part of InstalledCore. *)

LEMMA CustomUntouched ==
  ASSUME Inv, NEW d \in Slots, DownloadStep(d)
  PROVE  disk'[CUSTOM] = disk[CUSTOM]
  <1> USE PathTypes, CoreFilesDiffer DEF Inv, Types, TypeOK, DownloadTypeOK
  <1>1. PathOf[d] # CUSTOM /\ TemporaryOf(d) # CUSTOM
    BY CoreFilesDiffer
  <1>2. CASE WriteChunk(d)
    BY <1>2 DEF WriteChunk, Streams, StreamsApart, Downloading
  <1> QED
    BY <1>1, <1>2
    DEF DownloadStep, Open, BreakOff, Install, InstallFile, CleanUp, Renamed, Removed

\* What rw-core leads to changes in a step of prepare, and to what was asked for.
LEMMA RunsChanges ==
  ASSUME Inv, Next, Runs' # Runs
  PROVE  /\ AskedCore # NoFile /\ AskedCore' = AskedCore
         /\ Runs' = AskedCore
  <1> USE DEF Inv
  <1>1. LoadCore /\ CorePrepareStep
    <2>1. CASE UNCHANGED <<disk, link>>
      BY <2>1 DEF Runs
    <2>2. CASE LoadCore /\ DownloadStep(CoreSlot) /\ UNCHANGED core
      BY <2>2, CustomUntouched, PathTypes DEF Runs, core
    <2>3. CASE LoadAssets
      <3>1. disk'[CUSTOM] = disk[CUSTOM]
        <4>1. PICK a \in AssetSlots : AssetStep(a)  BY <2>3 DEF LoadAssets
        <4>2. a \in Slots /\ PathOf[a] # CUSTOM /\ CUSTOM \in Paths
          BY AssetSlotsAssumption, SeparateAssumption, PathTypes, CoreFilesDiffer
        <4>3. CASE DownloadStep(a)
          BY <4>2, <4>3, CustomUntouched
        <4>4. CASE PrepareAsset(a)
          BY <4>2, <4>4
          DEF Types, TypeOK, DownloadTypeOK, PrepareAsset, PickAsset, AssetThere, AssetMissing,
              AssetDownloaded, AssetNotDownloaded, CreateStub, StubFails
        <4> QED BY <4>1, <4>3, <4>4 DEF AssetStep
      <3> QED BY <2>3, <3>1 DEF LoadAssets, Runs, core
    <2> QED
      BY <2>1, <2>2, <2>3
      DEF Next, StartStep, LoadCore, CoreStep, Receive, SyncIntegration, LeaveEarly, PrepareCore,
          CoreThrew, PrepareAssets, AssetsPrepared, StopXray, ResolvePattern, RemoveSocket,
          StartXray, ControlFails, BindSocket, StopOrExit, Crash, core, outside
  <1>2. loader \in [at : LoaderAwaits, core : Cores \cup {Stock}, failed : BOOLEAN]
        /\ link \in {Stock, CUSTOM} /\ DOMAIN disk = Paths
    BY DEF Types, TypeOK, DownloadTypeOK, CoreTypeOK
  <1>3. loader.core # Stock => Whole(loader.core) # NoFile
    BY <1>2, ContentTypes, CoresAssumption
  <1>4. Stock \notin {CUSTOM, NoFile} /\ Stock \notin Cores
    BY CoresAssumption
  <1>5. CASE MoveIntoPlace
    <2>1. loader.at = "staged" /\ loader.core \in Cores /\ disk[STAGED] = Whole(loader.core)
      BY <1>5 DEF MoveIntoPlace, Types, LoaderReady, CoreInv, Progress, Loading
    <2>2. loader' = [loader EXCEPT !.at = "unlink"] /\ UNCHANGED link
      BY <1>5 DEF MoveIntoPlace, LoaderTo
    <2>3. disk'[CUSTOM] = Whole(loader.core)
      BY <1>2, <1>5, <2>1, PathTypes, CoreFilesDiffer DEF MoveIntoPlace, Renamed
    <2>4. loader'.at = "unlink" /\ loader'.core = loader.core
      BY <1>2, <2>2
    <2>5. Runs' = Whole(loader.core)
      BY <1>2, <2>2, <2>3 DEF Runs
    <2> QED BY <1>3, <1>4, <2>1, <2>4, <2>5 DEF AskedCore
  <1>6. CASE PointLink
    <2>1. loader.at = "point" /\ link' = Target /\ UNCHANGED disk
      BY <1>6 DEF PointLink, Types, LoaderReady, Loading
    <2>2. loader'.at \in {"forget", "stat"} /\ loader'.core = loader.core
      BY <1>2, <1>6 DEF PointLink, LoaderTo
    <2>3. loader.core # Stock => disk[CUSTOM] = Whole(loader.core)
      BY <2>1 DEF CoreInv, Progress
    <2>4. Runs' = IF loader.core = Stock THEN Stock ELSE Whole(loader.core)
      BY <1>4, <2>1, <2>3 DEF Runs, Target
    <2> QED BY <1>3, <1>4, <2>1, <2>2, <2>4 DEF AskedCore
  <1>7. CASE RemoveCustom
    <2>1. link = Stock /\ UNCHANGED link
      BY <1>7 DEF RemoveCustom, CoreInv, Progress, Loading
    <2> QED BY <2>1 DEF Runs
  <1>8. CASE DiscardStaged
    <2>1. UNCHANGED link /\ disk'[CUSTOM] = disk[CUSTOM]
      BY <1>2, <1>8, CoreFilesDiffer, PathTypes DEF DiscardStaged, Removed, core
    <2> QED BY <2>1 DEF Runs
  <1>9. CASE UNCHANGED <<disk, link>>
    BY <1>9 DEF Runs
  <1> QED
    BY <1>1, <1>5, <1>6, <1>7, <1>8, <1>9
    DEF CorePrepareStep, StockLinked, RestoreStock, AlreadyInstalled, InstallCore, Downloaded,
        DownloadFailed, RemoveTmpLink, MakeTmpLink, OpenMarker, WriteMarker, RemoveMarker,
        CoreStepFails, RestoreStepFails, core

LEMMA LoaderCoreKept ==
  ASSUME CoreTypeOK, CorePrepareStep
  PROVE  loader'.core = loader.core
  <1>1. loader \in [at : LoaderAwaits, core : Cores \cup {Stock}, failed : BOOLEAN]
    BY DEF CoreTypeOK
  <1> QED
    BY <1>1
    DEF LoaderTo, LoaderFails, CorePrepareStep, StockLinked, RestoreStock, AlreadyInstalled,
        InstallCore, Downloaded, DownloadFailed, MoveIntoPlace, RemoveTmpLink, MakeTmpLink,
        PointLink, OpenMarker, WriteMarker, RemoveMarker, RemoveCustom, CoreStepFails,
        RestoreStepFails, DiscardStaged

LEMMA AskedChanges ==
  ASSUME Inv, Next, AskedCore # NoFile, AskedCore' # NoFile
  PROVE  AskedCore' = AskedCore
  <1>1. loader.at \notin {"idle", "done", "threw"} /\ loader'.at \notin {"idle", "done", "threw"}
    BY DEF AskedCore
  <1>2. loader'.core = loader.core
    <2>1. CoreTypeOK
      BY DEF Inv, Types, TypeOK
    <2>2. CASE CorePrepareStep
      BY <2>1, <2>2, LoaderCoreKept
    <2>3. ~PrepareCore
      BY <1>1 DEF PrepareCore, Inv, LoaderPhase
    <2>4. ~Crash
      BY <1>1 DEF Crash, NotPreparing
    <2> QED
      BY <2>2, <2>3, <2>4
      DEF Next, StartStep, LoadCore, CoreStep, Receive, SyncIntegration, LeaveEarly, CoreThrew,
          PrepareAssets, LoadAssets, AssetsPrepared, StopXray, ResolvePattern, RemoveSocket,
          StartXray, ControlFails, BindSocket, StopOrExit
  <1> QED BY <1>1, <1>2 DEF AskedCore

\* Seen through rw-core, preparing a core is choosing one, having it, and
\* leaving: a crash in between is a choice given up.
THEOREM CoreReplacedAtOnceSafety ==
  Spec => Installation!Init /\ [][Installation!Next]_<<Runs, AskedCore>>
  <1>1. Init => Installation!Init
    BY DEF Init, CoreInit, NotPreparing, Installation!Init, Runs, AskedCore
  <1>2. Inv /\ Inv' /\ [Next]_vars => [Installation!Next]_<<Runs, AskedCore>>
    <2> SUFFICES ASSUME Inv, Inv', [Next]_vars
                 PROVE  [Installation!Next]_<<Runs, AskedCore>>
      OBVIOUS
    <2>1. AskedCore' \in {Stock} \cup {Whole(c) : c \in Cores} \cup {NoFile}
      BY DEF AskedCore, Inv, Types, TypeOK, CoreTypeOK
    <2>2. CASE UNCHANGED vars
      BY <2>2 DEF vars, core, Runs, AskedCore
    <2>3. CASE Next /\ Runs' # Runs
      BY <2>3, RunsChanges DEF Installation!Next, Installation!Install
    <2>4. CASE Next /\ Runs' = Runs
      BY <2>1, <2>4, AskedChanges DEF Installation!Next, Installation!Ask, Installation!Leave
    <2> QED BY <2>2, <2>3, <2>4
  <1> QED BY <1>1, <1>2, InvAlways, PTL DEF Spec

-----------------------------------------------------------------------------
(* The assets.  That a file is whole is not inductive: it needs that the     *)
(* temporary file holds what its own stream has written, and that no other   *)
(* stream writes to either file.                                             *)

Written(body, n) == [k \in 1..Chunks |-> IF k <= n THEN body ELSE Hole]
WholeOrNone == {NoFile, Empty} \cup {Whole(b) : b \in Bodies}

AssetFile(a) ==
    /\ disk[PathOf[a]] \in WholeOrNone
    /\ Downloading(a, "body") =>
          dl[a].file = TemporaryOf(a) /\ disk[TemporaryOf(a)] = Written(dl[a].body, dl[a].n)
    /\ \A d \in Slots \ {a} : Downloading(d, "body") => dl[d].file \notin Files(a)

AssetInv == \A a \in AssetSlots : Unshared(a) => AssetFile(a)

LEMMA WrittenFacts ==
  /\ \A b : Written(b, 0) = Empty
  /\ \A b : Written(b, Chunks) = Whole(b)
  /\ \A b : \A n \in Nat : n < Chunks => [Written(b, n) EXCEPT ![n + 1] = b] = Written(b, n + 1)
  <1>1. Chunks \in Nat  BY ChunksAssumption
  <1>2. \A b : Written(b, 0) = Empty  BY <1>1 DEF Written, Empty
  <1>3. \A b : Written(b, Chunks) = Whole(b)  BY <1>1 DEF Written, Whole
  <1>4. ASSUME NEW b, NEW n \in Nat, n < Chunks
        PROVE  [Written(b, n) EXCEPT ![n + 1] = b] = Written(b, n + 1)
    <2>1. \A k \in 1..Chunks : [Written(b, n) EXCEPT ![n + 1] = b][k] = Written(b, n + 1)[k]
      BY <1>1, <1>4 DEF Written
    <2> QED BY <2>1 DEF Written
  <1> QED BY <1>2, <1>3, <1>4

LEMMA AssetSlotFacts ==
  ASSUME NEW a \in AssetSlots
  PROVE  /\ a \in Slots \ {CoreSlot}
         /\ PathOf[a] \in Paths /\ TemporaryOf(a) \in Paths /\ PathOf[a] # TemporaryOf(a)
         /\ Files(a) = {PathOf[a], TemporaryOf(a)} /\ NoFile \notin Files(a)
         /\ Files(a) \cap CoreFiles = {}
  <1>1. a \in Slots \ {CoreSlot}  BY AssetSlotsAssumption, SeparateAssumption
  <1> QED BY <1>1, PathTypes, Renames, NoFileAssumption, CoreFilesDiffer DEF Files

\* A download leaves the files alone that are not its own, and so do the
\* streams that follow what it renames.
LEMMA ElsewhereDownload ==
  ASSUME Types, NEW a \in AssetSlots, AssetFile(a),
         NEW e \in Slots \ {a}, DownloadStep(e), Files(e) \cap Files(a) = {}
  PROVE  AssetFile(a)'
  <1> DEFINE P == PathOf[a]
             T == TemporaryOf(a)
  <1>1. /\ a \in Slots /\ P \in Paths /\ T \in Paths /\ Files(a) = {P, T} /\ NoFile \notin {P, T}
        /\ e \in Slots /\ PathOf[e] \notin {P, T} /\ TemporaryOf(e) \notin {P, T}
    BY AssetSlotFacts DEF Files
  <1>2. /\ dl \in [Slots -> {NoDownload} \cup Ending \cup Fetching \cup Streaming(Paths)]
        /\ DOMAIN disk = Paths
        /\ \A d \in Slots : dl[d].at = "body" => dl[d] \in Streaming(Paths)
    BY StreamType DEF Types, TypeOK, DownloadTypeOK
  <1>3. /\ dl[a].at = "body" => dl[a].file = T
        /\ \A d \in Slots \ {a} : dl[d].at = "body" => dl[d].file \notin {P, T}
    BY <1>1 DEF AssetFile, Downloading
  <1>4. ASSUME dl'[a] = dl[a], disk'[P] = disk[P], disk'[T] = disk[T],
               \A d \in Slots \ {a} : dl'[d].at = "body" => dl'[d].file \notin {P, T}
        PROVE  AssetFile(a)'
    BY <1>1, <1>4 DEF AssetFile, Downloading
  <1>5. ASSUME NEW at \in {"failed", "done", "threw"}, NEW to \in {NoFile, PathOf[e]},
               dl' = Following(End(e, at), TemporaryOf(e), to)
        PROVE  /\ dl'[a] = dl[a]
               /\ \A d \in Slots \ {a} : dl'[d].at = "body" => dl'[d].file \notin {P, T}
    <2>1. ASSUME NEW d \in Slots, dl'[d].at = "body"
          PROVE  /\ d # e /\ dl[d].at = "body"
                 /\ dl'[d].file = IF dl[d].file = TemporaryOf(e) THEN to
                                  ELSE IF dl[d].file = to THEN NoFile ELSE dl[d].file
      BY <1>1, <1>2, <1>5, <2>1 DEF Following, End, Streaming
    <2>2. \A d \in Slots \ {a} : dl'[d].at = "body" => dl'[d].file \notin {P, T}
      BY <1>1, <1>3, <2>1
    <2>3. dl'[a] = dl[a]
      <3>1. CASE dl[a].at # "body"
        BY <1>1, <1>2, <1>5, <3>1 DEF Following, End
      <3>2. CASE dl[a].at = "body"
        <4>1. dl'[a] = [dl[a] EXCEPT !.file = dl[a].file]
          BY <1>1, <1>2, <1>3, <1>5, <3>2 DEF Following, End
        <4> QED BY <1>1, <1>2, <3>2, <4>1 DEF Streaming
      <3> QED BY <3>1, <3>2
    <2> QED BY <2>2, <2>3
  <1> USE DEF Downloading
  <1>6. CASE Open(e)
    BY <1>1, <1>2, <1>3, <1>4, <1>6 DEF Open
  <1>7. CASE WriteChunk(e)
    <2>1. dl[e].at = "body" /\ dl[e].file \notin {P, T}
      BY <1>1, <1>3, <1>7 DEF WriteChunk
    <2>2. dl'[a] = dl[a] /\ \A d \in Slots \ {a} : dl'[d].at = "body" => dl'[d].file \notin {P, T}
      BY <1>1, <1>2, <1>3, <1>7, <2>1 DEF WriteChunk, Streaming
    <2>3. disk'[P] = disk[P] /\ disk'[T] = disk[T]
      BY <1>1, <1>2, <1>7, <2>1 DEF WriteChunk
    <2> QED BY <1>4, <2>2, <2>3
  <1>8. CASE BreakOff(e)
    BY <1>1, <1>2, <1>3, <1>4, <1>8 DEF BreakOff, End
  <1>9. CASE Install(e)
    BY <1>1, <1>2, <1>4, <1>5, <1>9 DEF Install, InstallFile, Renamed
  <1>10. CASE CleanUp(e)
    <2>1. CASE disk' = Removed(TemporaryOf(e)) /\ dl' = Following(End(e, "threw"), TemporaryOf(e), NoFile)
      BY <1>1, <1>2, <1>4, <1>5, <2>1 DEF Removed
    <2>2. CASE dl' = End(e, "threw") /\ UNCHANGED disk
      BY <1>1, <1>2, <1>3, <1>4, <2>2 DEF End
    <2> QED BY <1>10, <2>1, <2>2 DEF CleanUp
  <1> QED BY <1>6, <1>7, <1>8, <1>9, <1>10 DEF DownloadStep

\* An asset's own download: what it installs is the whole body.
LEMMA OwnDownload ==
  ASSUME Types, NEW a \in AssetSlots, AssetFile(a), DownloadStep(a)
  PROVE  AssetFile(a)'
  <1> DEFINE P == PathOf[a]
             T == TemporaryOf(a)
  <1>1. /\ a \in Slots /\ P \in Paths /\ T \in Paths /\ P # T
        /\ Files(a) = {P, T} /\ NoFile \notin {P, T}
    BY AssetSlotFacts
  <1>2. /\ dl \in [Slots -> {NoDownload} \cup Ending \cup Fetching \cup Streaming(Paths)]
        /\ DOMAIN disk = Paths
        /\ \A d \in Slots : dl[d].at = "body" => dl[d] \in Streaming(Paths)
    BY StreamType DEF Types, TypeOK, DownloadTypeOK
  <1>3. /\ dl[a].at = "body" => dl[a].file = T /\ disk[T] = Written(dl[a].body, dl[a].n)
        /\ \A d \in Slots \ {a} : dl[d].at = "body" => dl[d].file \notin {P, T}
        /\ disk[P] \in WholeOrNone
    BY <1>1 DEF AssetFile, Downloading
  <1>4. ASSUME NEW at \in {"failed", "done", "threw"}, NEW to \in {NoFile, P},
               \/ dl' = End(a, at)
               \/ dl' = Following(End(a, at), T, to)
        PROVE  /\ dl'[a] = [at |-> at]
               /\ \A d \in Slots \ {a} : dl'[d].at = "body" => dl'[d].file \notin {P, T}
    <2>1. dl'[a] = [at |-> at]
      BY <1>1, <1>2, <1>4 DEF Following, End
    <2>2. ASSUME NEW d \in Slots \ {a}, dl'[d].at = "body"
          PROVE  dl[d].at = "body" /\ dl'[d].file = dl[d].file
      <3>1. dl[d].at = "body" /\ dl[d] \in Streaming(Paths)
        BY <1>1, <1>2, <1>4, <2>2 DEF Following, End
      <3>2. CASE dl' = End(a, at)
        BY <1>1, <1>2, <3>1, <3>2 DEF End
      <3>3. CASE dl' = Following(End(a, at), T, to)
        <4>1. dl'[d].file = IF dl[d].file = T THEN to ELSE IF dl[d].file = to THEN NoFile ELSE dl[d].file
          BY <1>1, <1>2, <3>1, <3>3 DEF Following, End, Streaming
        <4> QED BY <1>3, <3>1, <4>1
      <3> QED BY <1>4, <3>2, <3>3
    <2> QED BY <1>3, <2>1, <2>2
  <1> USE DEF Downloading
  <1>5. CASE Open(a)
    <2>1. PICK body \in Bodies :
            dl' = [dl EXCEPT ![a] = [at |-> "body", wanted |-> dl[a].wanted, body |-> body,
                                     file |-> T, n |-> 0]]
      BY <1>5 DEF Open
    <2>2. dl'[a].file = T /\ dl'[a].n = 0 /\ \A d \in Slots \ {a} : dl'[d] = dl[d]
      BY <1>1, <1>2, <2>1
    <2>3. disk'[T] = Empty /\ disk'[P] = disk[P]
      BY <1>1, <1>2, <1>5 DEF Open
    <2> QED BY <1>1, <1>3, <2>2, <2>3, WrittenFacts DEF AssetFile
  <1>6. CASE WriteChunk(a)
    <2>1. dl[a].at = "body" /\ dl[a].n < Chunks /\ dl[a].n \in Nat /\ dl[a] \in Streaming(Paths)
      BY <1>1, <1>2, <1>6, ChunksAssumption DEF WriteChunk, Streaming
    <2>2. dl' = [dl EXCEPT ![a] = [dl[a] EXCEPT !.n = dl[a].n + 1]]
      BY <1>6 DEF WriteChunk
    <2>3. /\ dl'[a].file = T /\ dl'[a].body = dl[a].body /\ dl'[a].n = dl[a].n + 1
          /\ \A d \in Slots \ {a} : dl'[d] = dl[d]
      BY <1>1, <1>2, <1>3, <2>1, <2>2 DEF Streaming
    <2>4. disk' = [disk EXCEPT ![T] = [disk[T] EXCEPT ![dl[a].n + 1] = dl[a].body]]
      BY <1>1, <1>3, <1>6, <2>1 DEF WriteChunk
    <2>5. disk'[P] = disk[P] /\ disk'[T] = Written(dl[a].body, dl[a].n + 1)
      BY <1>1, <1>2, <1>3, <2>1, <2>4, WrittenFacts
    <2> QED BY <1>1, <1>3, <2>3, <2>5 DEF AssetFile
  <1>7. CASE BreakOff(a)
    <2>1. dl' = End(a, "failed") /\ UNCHANGED disk  BY <1>7 DEF BreakOff
    <2> QED BY <1>1, <1>3, <1>4, <2>1 DEF AssetFile
  <1>8. CASE Install(a)
    <2>1. /\ dl[a].at = "body" /\ dl[a].n = Chunks /\ disk' = Renamed(T, P)
          /\ dl' = Following(End(a, "done"), T, P)
      BY <1>8 DEF Install, InstallFile
    <2>2. dl[a].body \in Bodies  BY <1>1, <1>2, <2>1 DEF Streaming
    <2>3. disk'[P] = Whole(dl[a].body)
      BY <1>1, <1>2, <1>3, <2>1, WrittenFacts DEF Renamed
    <2>4. dl'[a] = [at |-> "done"] /\ \A d \in Slots \ {a} : dl'[d].at = "body" => dl'[d].file \notin {P, T}
      BY <1>4, <2>1
    <2> QED BY <1>1, <2>2, <2>3, <2>4 DEF AssetFile, WholeOrNone
  <1>9. CASE CleanUp(a)
    <2>1. \/ disk' = Removed(T) /\ dl' = Following(End(a, "threw"), T, NoFile)
          \/ UNCHANGED disk /\ dl' = End(a, "threw")
      BY <1>9 DEF CleanUp
    <2>2. disk'[P] = disk[P]  BY <1>1, <1>2, <2>1 DEF Removed
    <2>3. dl'[a] = [at |-> "threw"] /\ \A d \in Slots \ {a} : dl'[d].at = "body" => dl'[d].file \notin {P, T}
      BY <1>4, <2>1
    <2> QED BY <1>1, <1>3, <2>2, <2>3 DEF AssetFile
  <1> QED BY <1>5, <1>6, <1>7, <1>8, <1>9 DEF DownloadStep

LEMMA ElsewhereCore ==
  ASSUME Types, CorePrepareStep
  PROVE  /\ \A p \in Paths \ CoreFiles : disk'[p] = disk[p]
         /\ \A d \in Slots \ {CoreSlot} : dl'[d] = dl[d]
         /\ dl'[CoreSlot] = dl[CoreSlot] \/ dl'[CoreSlot].at # "body"
  <1>1. DOMAIN disk = Paths /\ DOMAIN dl = Slots /\ CoreSlot \in Slots
    BY PathTypes DEF Types, TypeOK, DownloadTypeOK
  <1>2. CUSTOM \in CoreFiles /\ STAGED \in CoreFiles  BY CoreFilesDiffer
  <1>3. CASE InstallCore
    BY <1>1, <1>3 DEF InstallCore, CallDownload
  <1>4. CASE Downloaded \/ DownloadFailed
    BY <1>1, <1>4 DEF Downloaded, DownloadFailed, TakeResult, NoDownload
  <1>5. CASE MoveIntoPlace \/ RemoveCustom \/ DiscardStaged
    BY <1>1, <1>2, <1>5 DEF MoveIntoPlace, RemoveCustom, DiscardStaged, Renamed, Removed
  <1>6. CASE UNCHANGED <<disk, dl>>
    BY <1>6
  <1> QED
    BY <1>3, <1>4, <1>5, <1>6
    DEF CorePrepareStep, StockLinked, RestoreStock, AlreadyInstalled, RemoveTmpLink, MakeTmpLink,
        PointLink, OpenMarker, WriteMarker, RemoveMarker, CoreStepFails, RestoreStepFails

LEMMA AssetSteps ==
  ASSUME Types, NEW a \in AssetSlots, AssetFile(a), Unshared(a),
         NEW e \in AssetSlots, AssetStep(e)
  PROVE  AssetFile(a)'
  <1>1. e # a => Files(e) \cap Files(a) = {}
    BY DEF Unshared
  <1>2. CASE DownloadStep(e)
    BY <1>1, <1>2, AssetSlotFacts, ElsewhereDownload, OwnDownload
  <1>3. CASE PrepareAsset(e)
    <2>1. /\ a \in Slots /\ e \in Slots /\ PathOf[a] \in Paths /\ TemporaryOf(a) \in Paths
          /\ PathOf[a] # TemporaryOf(a)
          /\ e # a => PathOf[e] # PathOf[a] /\ PathOf[e] # TemporaryOf(a)
          /\ DOMAIN disk = Paths /\ DOMAIN dl = Slots
      BY <1>1, AssetSlotFacts DEF Files, Types, TypeOK, DownloadTypeOK
    <2>2. CASE CreateStub(e)
      <3>1. UNCHANGED dl /\ disk'[TemporaryOf(a)] = disk[TemporaryOf(a)]
        BY <2>1, <2>2 DEF CreateStub
      <3>2. disk'[PathOf[a]] = disk[PathOf[a]] \/ disk'[PathOf[a]] = Empty
        BY <2>1, <2>2 DEF CreateStub
      <3> QED BY <3>1, <3>2 DEF AssetFile, WholeOrNone, Downloading
    <2>3. CASE AssetMissing(e)
      BY <2>1, <2>3 DEF AssetMissing, CallDownload, AssetFile, Downloading
    <2>4. CASE AssetDownloaded(e) \/ AssetNotDownloaded(e)
      BY <2>1, <2>4
      DEF AssetDownloaded, AssetNotDownloaded, TakeResult, NoDownload, AssetFile, Downloading
    <2>5. CASE UNCHANGED <<disk, dl>>
      BY <2>5 DEF AssetFile, Downloading
    <2> QED
      BY <1>3, <2>2, <2>3, <2>4, <2>5 DEF PrepareAsset, PickAsset, AssetThere, StubFails
  <1> QED BY <1>2, <1>3 DEF AssetStep

LEMMA AssetInvStep ==
  ASSUME Types, AssetInv, [Next]_vars
  PROVE  AssetInv'
  <1> SUFFICES ASSUME NEW a \in AssetSlots, Unshared(a) PROVE AssetFile(a)'
    BY DEF AssetInv, Unshared, Files
  <1>1. AssetFile(a)  BY DEF AssetInv
  <1>2. CASE UNCHANGED <<disk, dl>>
    BY <1>1, <1>2 DEF AssetFile, Downloading
  <1>3. CASE LoadCore
    <2>1. CASE CorePrepareStep
      BY <1>1, <2>1, ElsewhereCore, AssetSlotFacts DEF AssetFile, Downloading
    <2>2. CASE DownloadStep(CoreSlot)
      <3>1. Files(CoreSlot) \cap Files(a) = {}
        BY AssetSlotFacts, CoreFilesDiffer DEF Files
      <3>2. CoreSlot \in Slots \ {a}
        BY AssetSlotFacts, PathTypes
      <3> QED BY <1>1, <2>2, <3>1, <3>2, ElsewhereDownload
    <2> QED BY <1>3, <2>1, <2>2 DEF LoadCore, CoreStep
  <1>4. CASE LoadAssets
    BY <1>1, <1>4, AssetSteps DEF LoadAssets
  <1>5. CASE Crash
    BY <1>1, <1>5, AssetSlotFacts DEF Crash, NoDownload, AssetFile, Downloading
  <1> QED
    BY <1>2, <1>3, <1>4, <1>5
    DEF vars, Next, StartStep, Receive, SyncIntegration, LeaveEarly, PrepareCore, CoreThrew,
        PrepareAssets, AssetsPrepared, StopXray, ResolvePattern, RemoveSocket, StartXray,
        ControlFails, BindSocket, StopOrExit, outside

\* The file of an asset that shares no file with another is a whole download, a
\* stub or not there, at every step of any number of downloads, and after a crash.
THEOREM AssetsWhole == Spec => []UnsharedAssetWhole
  <1>1. Init => AssetInv
    <2> SUFFICES ASSUME Init, NEW a \in AssetSlots PROVE AssetFile(a)
      BY DEF AssetInv
    <2> QED BY AssetSlotFacts DEF Init, NoDownload, AssetFile, WholeOrNone, Downloading
  <1>2. Types /\ AssetInv /\ [Next]_vars => AssetInv'
    BY AssetInvStep
  <1>3. AssetInv => UnsharedAssetWhole
    BY DEF AssetInv, AssetFile, WholeOrNone, UnsharedAssetWhole
  <1>4. Inv => Types  BY DEF Inv
  <1> QED BY <1>1, <1>2, <1>3, <1>4, InvAlways, PTL DEF Spec

-----------------------------------------------------------------------------
(* What a start has prepared when xray comes up: what each of its stages     *)
(* leaves to the next.                                                       *)

AskedInv ==
    /\ phase \in {"core", "assets", "stop", "sockets"} => ~erred /\ loader.core = request.core
    /\ phase \in {"assets", "stop", "sockets"} => Loading("done")

AssetPrepared(a) ==
    /\ asset[a] = "done" => stubFailed \/ disk[PathOf[a]] # NoFile
    /\ asset[a] = "download" /\ Downloading(a, "done") => disk[PathOf[a]] # NoFile

AssetsAsked == \A a \in AssetSlots : asset[a] = "idle" <=> a \notin request.assets
AssetsPresent == \A a \in AssetSlots : OwnFile(a) => AssetPrepared(a)

AssetsInv ==
    /\ phase \in {"assets", "stop", "sockets"} => AssetsAsked /\ AssetsPresent
    /\ phase \in {"stop", "sockets"} => AssetsProcessed

\* No process binds a socket while the old ones are removed.
SocketsInv ==
    phase = "sockets" =>
        /\ ~xray
        /\ cleanup.exact => \A path \in cleanup.seen \ cleanup.todo : sock[path] # "socket"

StartInv == AskedInv /\ AssetsInv /\ SocketsInv

LEMMA AskedStep ==
  ASSUME Types, AskedInv, Next
  PROVE  AskedInv'
  <1> USE DEF AskedInv, Loading, To, preparation, outside
  <1>1. loader \in [at : LoaderAwaits, core : Cores \cup {Stock}, failed : BOOLEAN]
        /\ request \in Sections
    BY DEF Types, TypeOK, CoreTypeOK
  <1>2. CASE PrepareCore
    BY <1>1, <1>2 DEF PrepareCore, Prepare
  <1>3. CASE LoadCore
    <2>1. CASE CorePrepareStep
      <3>1. loader'.core = loader.core
        BY <2>1, LoaderCoreKept DEF Types, TypeOK
      <3> QED BY <1>3, <3>1 DEF LoadCore
    <2>2. CASE UNCHANGED loader
      BY <1>3, <2>2 DEF LoadCore
    <2> QED BY <1>3, <2>1, <2>2 DEF LoadCore, CoreStep
  <1>4. CASE PrepareAssets
    BY <1>1, <1>4 DEF PrepareAssets, Sections
  <1>5. CASE UNCHANGED loader /\ phase' \in {"idle", "integrations"}
    BY <1>5
  <1>6. CASE UNCHANGED <<request, erred, loader>> /\ (UNCHANGED phase \/ phase \in {"assets", "stop"})
    BY <1>6
  <1>7. CASE SyncIntegration
    BY <1>7 DEF SyncIntegration
  <1>8. CASE Crash
    BY <1>8 DEF Crash
  <1> QED
    BY <1>2, <1>3, <1>4, <1>5, <1>6, <1>7, <1>8
    DEF Next, StartStep, Receive, LeaveEarly, CoreThrew, LoadAssets, AssetsPrepared, StopXray,
        ResolvePattern, RemoveSocket, StartXray, ControlFails, BindSocket, StopOrExit

\* A file that is nobody's temporary file stays, once there.
LEMMA FileStays ==
  ASSUME Types, NEW a \in AssetSlots, OwnFile(a), disk[PathOf[a]] # NoFile,
         NEW e \in AssetSlots, AssetStep(e)
  PROVE  disk'[PathOf[a]] # NoFile
  <1> DEFINE P == PathOf[a]
  <1>1. /\ P \in Paths /\ PathOf[e] \in Paths /\ TemporaryOf(e) \in Paths /\ TemporaryOf(e) # P
        /\ e \in Slots /\ PathOf[e] # TemporaryOf(e) /\ NoFile # P
    BY AssetSlotFacts DEF OwnFile
  <1>2. DOMAIN disk = Paths /\ Empty # NoFile /\ NoFile \notin Contents
        /\ \A d \in Slots : dl[d].at = "body" => dl[d] \in Streaming(Paths)
    BY StreamType, ContentTypes, CoresAssumption DEF Types, TypeOK, DownloadTypeOK
  <1>3. CASE Open(e)
    BY <1>1, <1>2, <1>3 DEF Open
  <1>4. CASE WriteChunk(e)
    <2>1. CASE dl[e].file # P
      BY <1>1, <1>2, <1>4, <2>1 DEF WriteChunk
    <2>2. CASE dl[e].file = P
      <3>1. disk[P] \in Contents /\ dl[e].body \in Bodies
        BY <1>1, <1>2, <1>4 DEF WriteChunk, Downloading, Streaming, Types, TypeOK, DownloadTypeOK
      <3>2. disk'[P] = [disk[P] EXCEPT ![dl[e].n + 1] = dl[e].body]
        BY <1>1, <1>2, <1>4, <2>2 DEF WriteChunk
      <3>3. disk'[P] \in Contents
        BY <3>1, <3>2 DEF Contents
      <3> QED BY <1>2, <3>3
    <2> QED BY <2>1, <2>2
  <1>5. CASE Install(e)
    BY <1>1, <1>2, <1>5 DEF Install, InstallFile, Renamed
  <1>6. CASE CleanUp(e)
    BY <1>1, <1>2, <1>6 DEF CleanUp, Removed
  <1>7. CASE CreateStub(e)
    BY <1>1, <1>2, <1>7 DEF CreateStub
  <1>8. CASE UNCHANGED disk
    BY <1>8
  <1> QED
    BY <1>3, <1>4, <1>5, <1>6, <1>7, <1>8
    DEF AssetStep, PrepareAsset, DownloadStep, BreakOff, PickAsset, AssetThere, AssetMissing,
        AssetDownloaded, AssetNotDownloaded, StubFails

LEMMA AssetStepPrepared ==
  ASSUME Types, NEW a \in AssetSlots, OwnFile(a), AssetPrepared(a),
         NEW e \in AssetSlots, AssetStep(e)
  PROVE  AssetPrepared(a)'
  <1> USE DEF AssetPrepared, Downloading
  <1>1. disk[PathOf[a]] # NoFile => disk'[PathOf[a]] # NoFile
    BY FileStays
  <1>2. /\ a \in Slots /\ e \in Slots /\ PathOf[a] \in Paths /\ TemporaryOf(a) \in Paths
        /\ PathOf[a] # TemporaryOf(a) /\ Empty # NoFile
    BY AssetSlotFacts, ContentTypes, CoresAssumption
  <1>3. /\ DOMAIN disk = Paths /\ DOMAIN asset = AssetSlots
        /\ dl \in [Slots -> {NoDownload} \cup Ending \cup Fetching \cup Streaming(Paths)]
        /\ \A d \in Slots : dl[d].at = "body" => dl[d] \in Streaming(Paths)
    BY StreamType DEF Types, TypeOK, DownloadTypeOK, GeodataTypeOK
  <1>4. CASE DownloadStep(e) /\ UNCHANGED geodata
    <2>1. ASSUME dl'[a].at = "done" PROVE dl[a].at = "done" \/ disk'[PathOf[a]] # NoFile
      <3>1. CASE Open(e)
        BY <1>2, <1>3, <2>1, <3>1 DEF Open
      <3>2. CASE WriteChunk(e)
        BY <1>2, <1>3, <2>1, <3>2 DEF WriteChunk, Streaming
      <3>3. CASE BreakOff(e)
        BY <1>2, <1>3, <2>1, <3>3 DEF BreakOff, End
      <3>4. CASE Install(e)
        <4>1. CASE e = a
          BY <1>2, <1>3, <3>4, <4>1 DEF Install, InstallFile, Renamed
        <4>2. CASE e # a
          BY <1>2, <1>3, <2>1, <3>4, <4>2 DEF Install, InstallFile, Following, End, Streaming
        <4> QED BY <4>1, <4>2
      <3>5. CASE CleanUp(e)
        BY <1>2, <1>3, <2>1, <3>5 DEF CleanUp, Following, End, Streaming
      <3> QED BY <1>4, <3>1, <3>2, <3>3, <3>4, <3>5 DEF DownloadStep
    <2> QED BY <1>1, <1>4, <2>1 DEF geodata
  <1>5. CASE AssetDownloaded(e) \/ AssetNotDownloaded(e)
    BY <1>1, <1>2, <1>3, <1>5
    DEF AssetDownloaded, AssetNotDownloaded, AssetTo, TakeResult, NoDownload
  <1>6. CASE AssetMissing(e)
    BY <1>1, <1>2, <1>3, <1>6 DEF AssetMissing, AssetTo, CallDownload
  <1>7. CASE CreateStub(e)
    BY <1>1, <1>2, <1>3, <1>7 DEF CreateStub, AssetTo
  <1>8. CASE PickAsset(e) \/ AssetThere(e) \/ StubFails(e)
    BY <1>1, <1>2, <1>3, <1>8 DEF PickAsset, AssetThere, StubFails, AssetTo, Exists
  <1> QED BY <1>4, <1>5, <1>6, <1>7, <1>8 DEF AssetStep, PrepareAsset

LEMMA AssetsStep ==
  ASSUME Types, AssetsInv, Next
  PROVE  AssetsInv'
  <1> USE DEF AssetsInv, To, preparation, outside
  <1>1. asset \in [AssetSlots -> AssetAwaits] /\ request \in Sections
    BY DEF Types, TypeOK, GeodataTypeOK
  <1>2. CASE PrepareAssets
    <2>1. phase' = "assets"  BY <1>2 DEF PrepareAssets
    <2>2. AssetsAsked'
      BY <1>1, <1>2 DEF PrepareAssets, QueueAssets, AssetsAsked, Sections
    <2>3. \A a \in AssetSlots : asset'[a] \in {"queued", "idle"}
      BY <1>2 DEF PrepareAssets, QueueAssets
    <2> QED BY <2>1, <2>2, <2>3 DEF AssetsPresent, AssetPrepared, OwnFile
  <1>3. CASE LoadAssets
    <2>1. phase = "assets" /\ phase' = "assets" /\ request' = request
      BY <1>3 DEF LoadAssets
    <2>2. PICK e \in AssetSlots : AssetStep(e)  BY <1>3 DEF LoadAssets
    <2>3. AssetsPresent'
      BY <2>1, <2>2, AssetStepPrepared DEF AssetsPresent, OwnFile
    <2>4. \A a \in AssetSlots : asset'[a] = "idle" <=> asset[a] = "idle"
      BY <1>1, <2>2
      DEF AssetStep, PrepareAsset, PickAsset, AssetThere, AssetMissing, AssetDownloaded,
          AssetNotDownloaded, CreateStub, StubFails, AssetTo, geodata
    <2> QED BY <2>1, <2>3, <2>4 DEF AssetsAsked
  <1>4. CASE AssetsPrepared
    BY <1>4 DEF AssetsPrepared, AssetsAsked, AssetsPresent, AssetPrepared, AssetsProcessed, OwnFile, geodata
  <1>5. CASE phase' \in {"idle", "integrations", "core"}
    BY <1>5
  <1>6. CASE /\ UNCHANGED <<disk, dl, asset, stubFailed, request>>
             /\ UNCHANGED phase \/ (phase = "stop" /\ phase' = "sockets")
    BY <1>6 DEF AssetsAsked, AssetsPresent, AssetPrepared, AssetsProcessed, OwnFile, Downloading
  <1> QED
    BY <1>2, <1>3, <1>4, <1>5, <1>6
    DEF Next, StartStep, Receive, SyncIntegration, LeaveEarly, PrepareCore, LoadCore, CoreThrew,
        StopXray, ResolvePattern, RemoveSocket, StartXray, ControlFails, BindSocket, StopOrExit,
        Crash, geodata

LEMMA SocketsStep ==
  ASSUME Types, SocketsInv, Next
  PROVE  SocketsInv'
  <1> USE DEF SocketsInv, To, preparation, outside
  <1>1. /\ sock \in [Sockets -> {"nothing", "socket", "file"}]
        /\ cleanup \in [patterns : SUBSET Patterns, todo : SUBSET Sockets,
                        seen : SUBSET Sockets, exact : BOOLEAN]
    BY DEF Types, TypeOK
  <1>2. CASE \E c \in panel.cleanups : StopXray(c)
    BY <1>2 DEF StopXray, NoCleanup
  <1>3. CASE \E q \in cleanup.patterns : ResolvePattern(q)
    <2>1. PICK q \in cleanup.patterns : ResolvePattern(q)  BY <1>3
    <2>2. /\ phase = "sockets" /\ cleanup.todo = {} /\ UNCHANGED <<phase, xray, sock>>
      BY <2>1 DEF ResolvePattern
    <2>3. PICK matches, exact :
            /\ cleanup' = [patterns |-> cleanup.patterns \ {q}, todo |-> matches,
                           seen |-> cleanup.seen \cup matches, exact |-> exact]
            /\ exact = (cleanup.exact /\ {path \in q.paths : sock[path] # "nothing"} \subseteq matches)
      BY <2>1 DEF ResolvePattern
    <2>4. /\ cleanup'.todo = matches /\ cleanup'.seen = cleanup.seen \cup matches
          /\ cleanup'.exact = exact
      BY <2>3
    <2>5. exact => cleanup.exact
      BY <2>3, Zenon
    <2>6. exact \in BOOLEAN
      BY <1>1, <2>3, Zenon
    <2>7. cleanup'.seen \ cleanup'.todo \subseteq cleanup.seen /\ (cleanup'.exact => cleanup.exact)
      BY <1>1, <2>4, <2>5, <2>6
    <2> QED BY <2>2, <2>7
  <1>4. CASE \E q \in Sockets : RemoveSocket(q)
    <2>1. PICK q \in Sockets : RemoveSocket(q)  BY <1>4
    <2>2. phase = "sockets" /\ UNCHANGED <<phase, xray>>
      BY <2>1 DEF RemoveSocket
    <2>3. CASE /\ sock' = [sock EXCEPT ![q] = IF @ = "socket" THEN "nothing" ELSE @]
               /\ cleanup' = [cleanup EXCEPT !.todo = @ \ {q}]
      <3>1. /\ cleanup'.seen = cleanup.seen /\ cleanup'.todo = cleanup.todo \ {q}
            /\ cleanup'.exact = cleanup.exact
        BY <1>1, <2>3
      <3>2. \A path \in Sockets : sock'[path] = "socket" => sock[path] = "socket" /\ path # q
        BY <1>1, <2>3
      <3> QED BY <1>1, <2>2, <3>1, <3>2
    <2>4. CASE cleanup' = [cleanup EXCEPT !.todo = @ \ {q}, !.exact = FALSE]
      <3>1. cleanup'.exact = FALSE  BY <1>1, <2>4
      <3> QED BY <2>2, <3>1
    <2> QED BY <2>1, <2>3, <2>4 DEF RemoveSocket
  <1>5. CASE phase' # "sockets"
    BY <1>5
  <1>6. CASE UNCHANGED <<phase, sock, cleanup>> /\ (xray' => xray)
    BY <1>6
  <1>7. CASE \E path \in Sockets : BindSocket(path)
    BY <1>7 DEF BindSocket
  <1> QED
    BY <1>2, <1>3, <1>4, <1>5, <1>6, <1>7
    DEF Next, StartStep, Receive, SyncIntegration, LeaveEarly, PrepareCore, LoadCore, CoreThrew,
        PrepareAssets, LoadAssets, AssetsPrepared, StartXray, ControlFails, StopOrExit, Crash

LEMMA StartInvAlways == Spec => [](Inv /\ StartInv)
  <1>1. Init => StartInv
    BY DEF Init, StartInv, AskedInv, AssetsInv, SocketsInv
  <1>2. Inv /\ StartInv /\ [Next]_vars => StartInv'
    <2> SUFFICES ASSUME Inv, StartInv, [Next]_vars PROVE StartInv'  OBVIOUS
    <2>1. CASE Next
      BY <2>1, AskedStep, AssetsStep, SocketsStep DEF Inv, StartInv
    <2>2. CASE UNCHANGED vars
      BY <2>2
      DEF vars, preparation, outside, geodata, StartInv, AskedInv, AssetsInv, SocketsInv, Loading,
          AssetsAsked, AssetsPresent, AssetPrepared, AssetsProcessed, OwnFile, Downloading
    <2> QED BY <2>1, <2>2
  <1> QED BY <1>1, <1>2, InvAlways, PTL DEF Spec

\* A start brings xray up only if every integration agreed, on the core asked
\* for or with its failure reported, with a file for each asset or a stub that
\* could not be made, and with no socket left that the hook was to remove,
\* unless one could not be looked at: for any number of each, whatever fails.
THEOREM PreparedStarts == Spec => StartsPrepared
  <1>1. ASSUME Inv, StartInv, [Next]_vars, ~xray, xray'
        PROVE  /\ ~erred
               /\ loader.failed \/ Installed(request.core)
               /\ stubFailed \/ \A a \in request.assets : OwnFile(a) => disk[PathOf[a]] # NoFile
               /\ cleanup.exact => SocketsClean
    <2>1. StartXray
      BY <1>1
      DEF vars, outside, Next, StartStep, Receive, SyncIntegration, LeaveEarly, PrepareCore,
          LoadCore, CoreThrew, PrepareAssets, LoadAssets, AssetsPrepared, StopXray, ResolvePattern,
          RemoveSocket, ControlFails, BindSocket, StopOrExit, Crash
    <2>2. phase = "sockets" /\ cleanup.todo = {}
      BY <2>1 DEF StartXray
    <2>3. ~erred /\ loader.core = request.core /\ Loading("done")
      BY <1>1, <2>2 DEF StartInv, AskedInv
    <2>4. loader.failed \/ Installed(request.core)
      BY <1>1, <2>3 DEF Inv, CoreInv, Progress, PreparedRunsWanted
    <2>5. AssetsAsked /\ AssetsPresent /\ AssetsProcessed
      BY <1>1, <2>2 DEF StartInv, AssetsInv
    <2>6. request.assets \subseteq AssetSlots
      BY <1>1 DEF Inv, Types, TypeOK, Sections
    <2>7. stubFailed \/ \A a \in request.assets : OwnFile(a) => disk[PathOf[a]] # NoFile
      BY <2>5, <2>6 DEF AssetsAsked, AssetsPresent, AssetsProcessed, AssetPrepared
    <2>8. cleanup.exact => SocketsClean
      BY <1>1, <2>2 DEF StartInv, SocketsInv, SocketsClean
    <2> QED BY <2>3, <2>4, <2>7, <2>8
  <1>2. Inv /\ StartInv /\ [Next]_vars =>
          [~xray /\ xray' =>
             /\ ~erred
             /\ loader.failed \/ Installed(request.core)
             /\ stubFailed \/ \A a \in request.assets : OwnFile(a) => disk[PathOf[a]] # NoFile
             /\ cleanup.exact => SocketsClean]_vars
    BY <1>1
  <1> QED BY <1>2, StartInvAlways, PTL DEF Spec, StartsPrepared
=============================================================================
