------------------------------ MODULE Download ------------------------------
(***************************************************************************)
(* downloadFile: a body is streamed into `<path>.download', checked and    *)
(* renamed to its path.                                                    *)
(*                                                                         *)
(* Downloads are told apart by the slot they run in; two slots may have    *)
(* the same path, and then they have the same temporary path too.  A       *)
(* stream that has opened a file goes on writing to that file, wherever it *)
(* has been renamed to, and to nothing that can be seen once it has been   *)
(* deleted.  What calls downloadFile extends this module.                  *)
(***************************************************************************)
EXTENDS Naturals, FiniteSets, Sequences

CONSTANTS
    Slots,       \* the downloads that may run at the same time
    PathOf,      \* the path each of them is to leave its body at
    Bodies,      \* what a server may send
    Chunks,      \* the chunks of a body
    NoFile,      \* what is at a path that does not exist
    Hole         \* what no stream has written yet

ASSUME SlotsAssumption == IsFiniteSet(Slots) /\ PathOf \in [Slots -> Seq(STRING)]
ASSUME ChunksAssumption == Chunks \in Nat \ {0}
ASSUME HoleAssumption == Hole \notin Bodies

Targets == {PathOf[d] : d \in Slots}
Temporary(path) == Append(path, "download")
TemporaryOf(d) == Temporary(PathOf[d])

ASSUME NoFileAssumption == \A d \in Slots : NoFile \notin {PathOf[d], TemporaryOf(d)}

Contents == [1..Chunks -> Bodies \cup {Hole}]
Whole(body) == [n \in 1..Chunks |-> body]
Empty == [n \in 1..Chunks |-> Hole]

VARIABLES
    disk,     \* the file at each path
    dl        \* the downloads

\* fetch: waiting for the response; body: streaming, n chunks written, to the
\* file now at path file; failed: the catch has yet to delete the temporary file.
NoDownload == [at |-> "idle"]
Ending == [at : {"failed", "done", "threw"}]
Fetching == [at : {"fetch"}, wanted : Bodies \cup {Hole}]
Streaming(Paths) ==
    [at : {"body"}, wanted : Bodies \cup {Hole}, body : Bodies,
     file : Paths \cup {NoFile}, n : 0..Chunks]

DownloadTypeOK(Paths) ==
    /\ disk \in [Paths -> Contents \cup {NoFile}]
    /\ dl \in [Slots -> {NoDownload} \cup Ending \cup Fetching \cup Streaming(Paths)]

Downloading(d, at) == dl[d].at = at
End(d, at) == [dl EXCEPT ![d] = [at |-> at]]

\* downloads, when the file at path `from' has gone `to' another or to NoFile.
Following(downloads, from, to) ==
    [d \in Slots |->
        IF downloads[d].at # "body" THEN downloads[d]
        ELSE [downloads[d] EXCEPT !.file =
                IF @ = from THEN to ELSE IF @ = to THEN NoFile ELSE @]]

Renamed(from, to) == [disk EXCEPT ![to] = disk[from], ![from] = NoFile]
Removed(path) == [disk EXCEPT ![path] = NoFile]

-----------------------------------------------------------------------------

\* downloadFile(url, PathOf[d], expectedSha256 of `wanted', Hole for none).
CallDownload(d, wanted) == dl' = [dl EXCEPT ![d] = [at |-> "fetch", wanted |-> wanted]]

\* The response is there.  createWriteStream empties the file at the temporary
\* path, or makes one.
Open(d) ==
    /\ Downloading(d, "fetch")
    /\ disk' = [disk EXCEPT ![TemporaryOf(d)] = Empty]
    /\ \E body \in Bodies :
          dl' = [dl EXCEPT ![d] = [at |-> "body", wanted |-> dl[d].wanted, body |-> body,
                                   file |-> TemporaryOf(d), n |-> 0]]

\* (mutant) the stream goes on after the end of the body
WriteMore(d) ==
    /\ Downloading(d, "body")
    /\ dl' = [dl EXCEPT ![d].n = @ + 1]
    /\ UNCHANGED disk

\* The stream writes at its own position in its own file.
WriteChunk(d) ==
    /\ Downloading(d, "body") /\ dl[d].n < Chunks
    /\ LET file == dl[d].file IN
       IF file = NoFile THEN UNCHANGED disk
       ELSE disk' = [disk EXCEPT ![file][dl[d].n + 1] = dl[d].body]
    /\ dl' = [dl EXCEPT ![d].n = @ + 1]

\* The network, an unwanted status or redirection, a body that is empty or too
\* long, no data for idleTimeoutMs, the end of totalTimeoutMs, a digest that
\* differs, a rename that fails (ENOENT, if another download took the file).
BreakOff(d) ==
    /\ dl[d].at \in {"fetch", "body"}
    /\ dl' = End(d, "failed")
    /\ UNCHANGED disk

InstallFile(d) ==
    /\ disk[TemporaryOf(d)] # NoFile
    /\ disk' = Renamed(TemporaryOf(d), PathOf[d])
    /\ dl' = Following(End(d, "done"), TemporaryOf(d), PathOf[d])

Matches(d) == dl[d].wanted \in {Hole, dl[d].body}

\* (mutant) the rename does not wait for the end of the stream
InstallPartial(d) == Downloading(d, "body") /\ Matches(d) /\ InstallFile(d)

Install(d) ==
    /\ Downloading(d, "body") /\ dl[d].n = Chunks
    /\ Matches(d)
    /\ InstallFile(d)

\* rm, whose failure is ignored.
CleanUp(d) ==
    /\ Downloading(d, "failed")
    /\ \/ disk' = Removed(TemporaryOf(d))
          /\ dl' = Following(End(d, "threw"), TemporaryOf(d), NoFile)
       \/ dl' = End(d, "threw") /\ UNCHANGED disk

DownloadStep(d) ==
    Open(d) \/ WriteChunk(d) \/ BreakOff(d) \/ Install(d) \/ CleanUp(d)

\* A caller takes the result.
TakeResult(d) == dl' = [dl EXCEPT ![d] = NoDownload]
=============================================================================
