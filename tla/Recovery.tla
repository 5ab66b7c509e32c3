------------------------------ MODULE Recovery ------------------------------
(***************************************************************************)
(* A download from its probe to its finished file, over any number of runs *)
(* of DownloadEngine::run into one output path: what a run finds on disk,  *)
(* decides to resume or to discard, validates, completes and promotes, and *)
(* what a crash of the process, a power failure, a failing system call or  *)
(* a changed file on the server does between any two of its steps          *)
(* (download/download_engine.cpp, metadata/metadata_store.cpp,             *)
(* storage/file_writer.cpp).                                               *)
(*                                                                         *)
(* Content is told apart by block and, where the file ends inside a unit   *)
(* of io_alignment, by the bytes behind its last whole unit, the tail: the *)
(* last block is finished while its tail may be in memory only, until the  *)
(* range_complete that writes it, which a stop or a crash may forestall.   *)
(* How bytes become finished blocks is the matter of PersistenceThread;    *)
(* here a block is downloaded in two steps, and the flush task runs beside *)
(* them with every operation on a file as a step of its own.  Names in a   *)
(* directory change in the order of the calls; the content of a file       *)
(* survives a power failure only if it was flushed.                        *)
(***************************************************************************)
EXTENDS Geometry, FiniteSets

CONSTANTS IoAlignment,        \* DownloadOptions::io_alignment
          Requests,           \* all metadata_matches compares but the validators:
                              \* url, paths, sizes, block_size, io_alignment
          Versions,           \* what the server has under the url, one after another
          Validators,         \* the etag and the last_modified it sends with each
          OverwriteExisting,  \* DownloadOptions::overwrite_existing
          MayFail,            \* may calls to the file system and the network fail
          MaxFaults           \* model bound: crashes, failures and changes in all

NoValidator == ""

\* The comparison of etag, and that of last_modified, is skipped if a side has none.
SameOrMissing(saved, probed) ==
  saved # NoValidator /\ probed # NoValidator => saved = probed

\* Slip: what the server tells of its file is not compared.
ValidatorsIgnored(saved, probed) == TRUE
ValidatorsAgree(saved, probed) ==
  /\ SameOrMissing(Validators[saved].etag, Validators[probed].etag)
  /\ SameOrMissing(Validators[saved].last_modified, Validators[probed].last_modified)

\* What the server sent tells v from w: there is a validator that both have, with
\* different values.
ToldApart(v, w) ==
  \E kind \in {"etag", "last_modified"} :
    /\ NoValidator \notin {Validators[v][kind], Validators[w][kind]}
    /\ Validators[v][kind] # Validators[w][kind]

ASSUME RecoveryAssumption ==
  \* True of the defaults, 64 KB and 4 KB; nothing in the program enforces it.
  /\ IoAlignment \in Nat \ {0} /\ BlockSize % IoAlignment = 0
  /\ Validators \in [Versions -> [{"etag", "last_modified"} -> STRING]]
  /\ OverwriteExisting \in BOOLEAN /\ MayFail \in BOOLEAN
  /\ MaxFaults \in Nat
  /\ {"zero", "partial", "old", "none"} \cap Versions = {}

VARIABLES
  remote,        \* the version the server has
  \* The process.
  phase,         \* how far run() is; "off": no process
  request,
  version,       \* the probe's result
  loaded,        \* loaded_metadata
  bitmap,
  tail_buffer,   \* the version whose tail the range at the file's end holds; "none"
  flush,         \* the step of the flush task
  snapshot,      \* the MetadataState the task saves
  failed,        \* the run will end with an error
  \* The disk.
  temp,          \* the .part file: its pieces in the cache and on stable storage
  metadata,      \* the .config.json file
  metadata_tmp,  \* the .config.json.tmp file of a save under way; one that is left
                 \* behind is never read, and the next save empties it
  output,        \* the file of the requested name
  \* History.
  faults,        \* the number of faults so far
  stale,         \* the metadata is of an earlier .part file than the one on disk
  exposed        \* a run resumed stale metadata or a version the server did not tell
                 \* from its own, or the server's file changed under it

taskVars == <<flush, snapshot, metadata_tmp, failed>>
processVars == <<phase, request, version, loaded, bitmap, tail_buffer, taskVars>>
diskVars == <<temp, metadata, output>>
vars == <<remote, processVars, diskVars, faults, stale, exposed>>

\* The pieces of a file a write may leave apart: its blocks, each to its last whole
\* unit, and the tail, if there is one, as a piece behind them.
Tails == IF TotalSize % IoAlignment = 0 THEN {} ELSE {BlockCount}
Pieces == Blocks \cup Tails
PiecesOf(b) == {b} \cup (IF b = BlockCount - 1 THEN Tails ELSE {})

Contents == {"zero", "partial", "old"} \cup Versions
NoFile == [is |-> "absent"]
FileOf(content) == [is |-> "present", content |-> content, durable |-> content]
BlankFile == FileOf([p \in Pieces |-> "zero"])
OldFile == FileOf([p \in Pieces |-> "old"])
Whole(v) == [p \in Pieces |-> v]

NoMetadata == [is |-> "absent"]
TornMetadata == [is |-> "torn"]

\* Only a process that runs can change its variables and its files.
Fault == MayFail /\ faults < MaxFaults /\ faults' = faults + 1

ProcessEnds ==
  /\ phase' = "off"
  /\ loaded' = NoMetadata
  /\ bitmap' = EmptyBitmap
  /\ tail_buffer' = "none"
  /\ flush' = "none"
  /\ snapshot' = NoMetadata
  /\ metadata_tmp' = NoMetadata
  /\ failed' = FALSE
  /\ UNCHANGED <<request, version>>

\* run() returns an error, and leaves the disk as it is.
RunFails == ProcessEnds /\ UNCHANGED <<remote, diskVars, stale, exposed>>

\* run() goes on to its next phase; no range is left when the download is over.
Proceed(next) ==
  /\ phase' = next
  /\ tail_buffer' = "none"
  /\ UNCHANGED <<request, version, taskVars>>

-----------------------------------------------------------------------------
\* The server, and the program that is started again whenever it has ended.

RemoteChanges ==
  /\ faults < MaxFaults
  /\ faults' = faults + 1
  /\ remote' \in Versions \ {remote}
  /\ exposed' = (exposed \/ phase # "off")
  /\ UNCHANGED <<processVars, diskVars, stale>>

StartRun(r) ==
  /\ phase = "off"
  /\ phase' = "probed"
  /\ request' = r
  /\ version' = remote
  /\ UNCHANGED <<remote, loaded, bitmap, tail_buffer, taskVars, diskVars, faults, stale,
                 exposed>>

-----------------------------------------------------------------------------
\* From the probe to a bitmap the download can start from.

\* MetadataStore::load.  A file that cannot be parsed fails this run and every later one.
\* Slip: what cannot be parsed is taken for metadata with defaults everywhere.
ParsesAnything(file) == TRUE
Parses(file) == file.is # "torn"

LoadMetadata ==
  /\ phase = "probed"
  /\ Parses(metadata)
  /\ loaded' = metadata
  /\ Proceed("loaded")
  /\ UNCHANGED <<remote, bitmap, diskVars, faults, stale, exposed>>

LoadFails ==
  /\ phase = "probed"
  /\ ~Parses(metadata)
  /\ RunFails
  /\ UNCHANGED faults

MetadataMatches(m) == m.request = request /\ ValidatorsAgree(m.version, version)
CanResume ==
  /\ temp.is = "present"
  /\ loaded.is = "saved"
  /\ MetadataMatches(loaded)

\* FileWriter::open.  It keeps the .part file of a download that can be resumed;
\* any other is emptied, or, where nothing may be overwritten, an error.
OpenResumed ==
  /\ phase = "loaded"
  /\ CanResume
  /\ exposed' = \/ exposed \/ stale
                \/ loaded.version # version /\ ~ToldApart(loaded.version, version)
  /\ Proceed("validate")
  /\ UNCHANGED <<remote, loaded, bitmap, diskVars, faults, stale>>

\* Slip: an old .part file is never replaced.
NeverReplaced == temp.is = "absent"
MayReplacePart == OverwriteExisting \/ temp.is = "absent"
ReplacePart ==
  /\ temp' = BlankFile
  /\ stale' = (metadata.is = "saved")
  /\ UNCHANGED <<metadata, output>>

OpenFresh ==
  /\ phase = "loaded"
  /\ ~CanResume
  /\ MayReplacePart
  /\ ReplacePart
  /\ Proceed("fresh")
  /\ UNCHANGED <<remote, loaded, bitmap, faults, exposed>>

\* The file is opened, but cannot be allocated to its size.
PreallocateFails ==
  /\ phase = "loaded"
  /\ Fault
  /\ IF CanResume THEN UNCHANGED <<diskVars, stale>> ELSE MayReplacePart /\ ReplacePart
  /\ ProcessEnds
  /\ UNCHANGED <<remote, exposed>>

\* The old .part file may be removed by then.
OpenFails ==
  /\ phase = "loaded"
  /\ \/ Fault
     \/ ~CanResume /\ ~MayReplacePart /\ UNCHANGED faults
  /\ temp' \in {temp} \cup (IF CanResume \/ ~OverwriteExisting THEN {} ELSE {NoFile})
  /\ ProcessEnds
  /\ UNCHANGED <<remote, metadata, output, stale, exposed>>

\* restore, reset_transient_states and validate_resumed_blocks.  The offsets of the
\* ranges are in the saved bitmap already (PersistenceThread!SnapshotBitmap).
ContentOf(b) == [p \in PiecesOf(b) |-> temp.content[p]]
Trusts(m, b) ==
  \/ BlockBegin(b) < m.vdl
  \/ \E s \in m.samples : s.block = b /\ s.content = ContentOf(b)
ResumedBitmap(m) ==
  LET restored == ResetTransient(m.bitmap)
  IN [b \in Blocks |->
        IF restored[b] = "finished" /\ ~Trusts(m, b) THEN "empty" ELSE restored[b]]

\* A download whose blocks are all there is promoted at once.
Ready(bm) == IF FinishedBlocks(bm) = Blocks THEN "finalize" ELSE "download"

ValidateResumed ==
  /\ phase = "validate"
  /\ bitmap' = ResumedBitmap(loaded)
  /\ loaded' = NoMetadata
  /\ Proceed(Ready(bitmap'))
  /\ UNCHANGED <<remote, diskVars, faults, stale, exposed>>

ReadFails ==
  /\ phase = "validate"
  /\ Fault
  /\ RunFails

\* MetadataStore::remove; that it failed is not looked at.
RemoveMetadata(removed) ==
  /\ metadata' = IF removed THEN NoMetadata ELSE metadata
  /\ stale' = (stale /\ ~removed)

RemoveOldMetadata ==
  /\ phase = "fresh"
  /\ \/ RemoveMetadata(TRUE) /\ UNCHANGED faults
     \/ RemoveMetadata(FALSE) /\ Fault
  /\ bitmap' = EmptyBitmap
  /\ loaded' = NoMetadata
  /\ Proceed("download")
  /\ UNCHANGED <<remote, temp, output, exposed>>

-----------------------------------------------------------------------------
\* The download: blocks that are not finished are written, in any order.

Persists(pieces, content) ==
  /\ phase = "download" /\ ~failed
  /\ temp' = [temp EXCEPT !.content =
                [p \in Pieces |-> IF p \in pieces THEN content ELSE temp.content[p]]]
  /\ UNCHANGED <<remote, phase, request, version, loaded, taskVars, metadata, output, faults,
                 stale, exposed>>

BeginBlock(b) ==
  /\ bitmap[b] = "empty"
  /\ bitmap' = [bitmap EXCEPT ![b] = "downloading"]
  /\ Persists({b}, "partial")
  /\ UNCHANGED tail_buffer

\* The frontier passes the end of the block.  The tail is written with it if some of it
\* was in the buffer already, and else put there (append_bytes).
\* No request names the version that was probed.
FinishBlock(b) ==
  /\ bitmap[b] = "downloading"
  /\ bitmap' = [bitmap EXCEPT ![b] = "finished"]
  /\ \E written \in {{b}, PiecesOf(b)} :
       /\ Persists(written, remote)
       /\ tail_buffer' = IF written = PiecesOf(b) THEN tail_buffer ELSE remote

\* The range_complete of the range that holds the tail is handled.
FlushTail ==
  /\ tail_buffer # "none"
  /\ Persists(Tails, tail_buffer)
  /\ tail_buffer' = "none"
  /\ UNCHANGED bitmap

DownloadFails ==
  /\ phase = "download"
  /\ Fault
  /\ failed' = TRUE
  /\ UNCHANGED <<remote, phase, request, version, loaded, bitmap, tail_buffer, flush, snapshot,
                 metadata_tmp, diskVars, stale, exposed>>

\* Persistence has stopped, the flush task with it, and a range_complete that is still
\* queued is not handled any more.  What rebuild_bitmap_from_ranges marks has been marked
\* when the frontiers advanced; the tail counts although it may not be in the file.
DownloadEnds ==
  /\ phase = "download"
  /\ flush = "none"
  /\ \/ ~failed /\ FinishedBlocks(bitmap) = Blocks /\ Proceed("finalize")
        /\ UNCHANGED <<loaded, bitmap>>
     \/ failed /\ ProcessEnds
  /\ UNCHANGED <<remote, diskVars, faults, stale, exposed>>

\* Nothing failed, but packets were left in the queue too.
DownloadEndsIncomplete ==
  /\ phase = "download"
  /\ flush = "none"
  /\ ~failed /\ FinishedBlocks(bitmap) # Blocks
  /\ Fault
  /\ RunFails

-----------------------------------------------------------------------------
\* The flush task, and MetadataStore::save at its end.

InTask(step) == phase = "download" /\ flush = step
TaskUnchanged == <<remote, phase, request, version, loaded, bitmap, tail_buffer, output, exposed>>

SubmitFlush ==
  /\ InTask("none") /\ ~failed
  /\ snapshot' = [is |-> "saved", request |-> request, version |-> version,
                  bitmap |-> bitmap, vdl |-> 0, samples |-> {}]
  /\ flush' = "fsync"
  /\ UNCHANGED <<TaskUnchanged, temp, metadata, metadata_tmp, failed, faults, stale>>

TaskStep(next) ==
  /\ flush' = next
  /\ UNCHANGED <<TaskUnchanged, failed, faults>>

TaskFails ==
  /\ Fault
  /\ flush' = "none"
  /\ snapshot' = NoMetadata
  /\ metadata_tmp' = NoMetadata
  /\ failed' = TRUE
  /\ UNCHANGED <<TaskUnchanged, temp, metadata, stale>>

\* Slip: the file's content is not forced to stable storage.
FlushNothing(file) == file
Flushed(file) == [file EXCEPT !.durable = file.content]

FlushFile ==
  /\ InTask("fsync")
  /\ temp' = Flushed(temp)
  /\ TaskStep("sample")
  /\ UNCHANGED <<snapshot, metadata, metadata_tmp, stale>>

FlushFails == InTask("fsync") /\ TaskFails

\* The VDL is that of the bitmap now, the blocks are those of the snapshot; one that
\* cannot be read gets no sample.
BuildCrcSamples ==
  /\ InTask("sample")
  /\ LET vdl == ContiguousFinished(bitmap)
         beyond == {b \in FinishedBlocks(snapshot.bitmap) : BlockBegin(b) >= vdl}
     IN \E read \in SUBSET beyond :
          /\ IF read = beyond THEN UNCHANGED faults ELSE Fault
          /\ snapshot' = [snapshot EXCEPT
               !.vdl = vdl,
               !.samples = {[block |-> b, content |-> ContentOf(b)] : b \in read}]
  /\ flush' = "write"
  /\ UNCHANGED <<TaskUnchanged, failed, temp, metadata, metadata_tmp, stale>>

\* A stream that fails while it is written is closed like any other.
WriteMetadataTmp ==
  /\ InTask("write")
  /\ \/ metadata_tmp' = snapshot /\ UNCHANGED faults
     \/ metadata_tmp' = TornMetadata /\ Fault
  /\ snapshot' = NoMetadata
  /\ flush' = "remove"
  /\ UNCHANGED <<TaskUnchanged, failed, temp, metadata, stale>>

OpenMetadataTmpFails == InTask("write") /\ TaskFails

RemovePreviousMetadata ==
  /\ InTask("remove")
  /\ RemoveMetadata(TRUE)
  /\ TaskStep("rename")
  /\ UNCHANGED <<snapshot, temp, metadata_tmp>>

RenameMetadata ==
  /\ InTask("rename")
  /\ metadata' = metadata_tmp
  /\ metadata_tmp' = NoMetadata
  /\ TaskStep("none")
  /\ UNCHANGED <<snapshot, temp, stale>>

RenameMetadataFails == InTask("rename") /\ TaskFails

-----------------------------------------------------------------------------
\* FileWriter::finalize and what follows it, in finalize_storage_phase as well as
\* for a download that was complete when it was resumed.

FinalizeFlushes ==
  /\ phase = "finalize"
  /\ temp' = Flushed(temp)
  /\ Proceed("withdraw")
  /\ UNCHANGED <<remote, loaded, bitmap, metadata, output, faults, stale, exposed>>

WithdrawOutput ==
  /\ phase = "withdraw"
  /\ output' = IF OverwriteExisting THEN NoFile ELSE output
  /\ Proceed("promote")
  /\ UNCHANGED <<remote, loaded, bitmap, temp, metadata, faults, stale, exposed>>

\* std::filesystem::rename replaces a file that has the new name.
PromotePart ==
  /\ phase = "promote"
  /\ output' = temp
  /\ temp' = NoFile
  /\ Proceed("cleanup")
  /\ UNCHANGED <<remote, loaded, bitmap, metadata, faults, stale, exposed>>

FinalizeFails ==
  /\ phase \in {"finalize", "promote"}
  /\ Fault
  /\ RunFails

RunSucceeds ==
  /\ phase = "cleanup"
  /\ \/ RemoveMetadata(TRUE) /\ UNCHANGED faults
     \/ RemoveMetadata(FALSE) /\ Fault
  /\ ProcessEnds
  /\ UNCHANGED <<remote, temp, output, exposed>>

-----------------------------------------------------------------------------
\* Crashes.

ProcessCrashes ==
  /\ phase # "off"
  /\ faults < MaxFaults
  /\ faults' = faults + 1
  /\ RunFails

\* Of what was not flushed, some pieces are on the disk and some are not; the
\* metadata, which nothing flushes, may be found empty.
AfterPowerFailure(file) ==
  IF file.is = "absent"
    THEN {file}
    ELSE {FileOf([p \in Pieces |-> IF p \in kept THEN file.content[p] ELSE file.durable[p]]) :
            kept \in SUBSET Pieces}
MetadataAfterPowerFailure(m) ==
  IF m.is = "absent" THEN {m} ELSE {m, TornMetadata}

PowerFails ==
  /\ faults < MaxFaults
  /\ faults' = faults + 1
  /\ ProcessEnds
  /\ temp' \in AfterPowerFailure(temp)
  /\ output' \in AfterPowerFailure(output)
  /\ metadata' \in MetadataAfterPowerFailure(metadata)
  /\ UNCHANGED <<remote, stale, exposed>>

-----------------------------------------------------------------------------
Init ==
  /\ remote \in Versions
  /\ phase = "off"
  /\ request \in Requests
  /\ version = remote
  /\ loaded = NoMetadata
  /\ bitmap = EmptyBitmap
  /\ tail_buffer = "none"
  /\ flush = "none"
  /\ snapshot = NoMetadata
  /\ failed = FALSE
  /\ temp = NoFile
  /\ metadata = NoMetadata
  /\ metadata_tmp = NoMetadata
  /\ output \in {NoFile, OldFile}
  /\ faults = 0
  /\ stale = FALSE
  /\ exposed = FALSE

Start == \E r \in Requests : StartRun(r)

Prepare ==
  \/ LoadMetadata
  \/ LoadFails
  \/ OpenResumed
  \/ OpenFresh
  \/ PreallocateFails
  \/ OpenFails
  \/ ValidateResumed
  \/ ReadFails
  \/ RemoveOldMetadata

Download ==
  \/ \E b \in Blocks : BeginBlock(b) \/ FinishBlock(b)
  \/ FlushTail

FlushTask ==
  \/ FlushFile
  \/ FlushFails
  \/ BuildCrcSamples
  \/ WriteMetadataTmp
  \/ OpenMetadataTmpFails
  \/ RemovePreviousMetadata
  \/ RenameMetadata
  \/ RenameMetadataFails

Finalize ==
  \/ FinalizeFlushes
  \/ WithdrawOutput
  \/ PromotePart
  \/ FinalizeFails
  \/ RunSucceeds

Environment ==
  \/ RemoteChanges
  \/ DownloadFails
  \/ DownloadEndsIncomplete
  \/ ProcessCrashes
  \/ PowerFails

Next ==
  \/ Start
  \/ Prepare
  \/ Download
  \/ SubmitFlush
  \/ FlushTask
  \/ DownloadEnds
  \/ Finalize
  \/ Environment

Spec == Init /\ [][Next]_vars

\* A run that ended is repeated; a process that runs is scheduled; the server supports
\* Range requests and sends what it was asked for; no flush is submitted any more once the
\* thread is asked to stop, so the end of the download comes.
Fairness ==
  /\ WF_vars(Start \/ Prepare \/ Finalize)
  /\ WF_vars(Download)
  /\ WF_vars(FlushTask)
  /\ SF_vars(DownloadEnds)

FairSpec == Spec /\ Fairness

-----------------------------------------------------------------------------
(***************************************************************************)
(* Properties.                                                             *)
(***************************************************************************)
Files == [is : {"present"}, content : [Pieces -> Contents], durable : [Pieces -> Contents]]
Samples == {s \in [block : Blocks, content : UNION {[PiecesOf(b) -> Contents] : b \in Blocks}] :
              DOMAIN s.content = PiecesOf(s.block)}
SavedMetadata ==
  [is : {"saved"}, request : Requests, version : Versions, bitmap : Bitmaps,
   vdl : 0 .. TotalSize, samples : SUBSET Samples]
MetadataFiles == {NoMetadata, TornMetadata} \cup SavedMetadata

Phases == {"off", "probed", "loaded", "validate", "fresh", "download", "finalize", "withdraw",
           "promote", "cleanup"}
FlushSteps == {"none", "fsync", "sample", "write", "remove", "rename"}

\* The variables hold values the program's types allow.
TypeOK ==
  /\ remote \in Versions
  /\ phase \in Phases
  /\ request \in Requests
  /\ version \in Versions
  /\ loaded \in {NoMetadata} \cup SavedMetadata
  /\ bitmap \in Bitmaps
  /\ tail_buffer \in {"none"} \cup Versions
  /\ flush \in FlushSteps
  /\ snapshot \in {NoMetadata} \cup SavedMetadata
  /\ failed \in BOOLEAN
  /\ temp \in {NoFile} \cup Files
  /\ metadata \in MetadataFiles
  /\ metadata_tmp \in MetadataFiles
  /\ output \in {NoFile} \cup Files
  /\ faults \in 0 .. MaxFaults
  /\ stale \in BOOLEAN
  /\ exposed \in BOOLEAN

\* What saved metadata m claims of the .part file holds now and after a power failure,
\* up to the tail: blocks below its VDL are on stable storage, to their last whole unit,
\* samples beyond it are of blocks that are whole to their last unit.
Backed(m) ==
  \A b \in FinishedBlocks(m.bitmap) :
    /\ BlockBegin(b) < m.vdl => temp.content[b] = m.version /\ temp.durable[b] = m.version
    /\ \A s \in m.samples : s.block = b => s.content[b] = m.version

\* Whenever the process or the machine stops, in the middle of a save, of an open
\* or of a promotion, the metadata the next run will find tells the truth about the
\* .part file it will find; but for the bytes behind the file's last whole unit of
\* io_alignment, and unless the .part file was emptied and the metadata of its
\* predecessor is still there.
MetadataBacksUnits ==
  ~exposed /\ ~stale /\ temp.is = "present" /\ metadata.is = "saved" => Backed(metadata)

\* What a run does not download again, because it resumed it, is what it was asked to
\* download, to the file's last whole unit: after any crashes, failed saves and changes
\* of the server's file that its validators show.
FinishedUnitsAreCurrent ==
  ~exposed /\ phase \in {"download", "finalize", "withdraw", "promote"} =>
    \A b \in FinishedBlocks(bitmap) : temp.content[b] = version

\* A run that is repeated succeeds in the end, and again and again, whatever faults
\* came before, and until exposed what it publishes is a delivery (KeepsPromise); unless
\* the metadata cannot be parsed, from which no run recovers.
DownloadsInTheEnd == []<>(phase = "cleanup" \/ metadata.is = "torn" \/ exposed)

\* The downloads of one output path, crashes and failures included, implement the
\* promise of ReliableDownload, which is about a whole file if that ends on a unit of
\* io_alignment, and else leaves open what is behind its last whole unit.
WholeFiles == {FileOf(Whole(v)) : v \in Versions}
AllButTail ==
  [file \in WholeFiles |->
     {FileOf(c) : c \in {d \in [Pieces -> Contents] : \A b \in Blocks : d[b] = file.content[b]}}]
OutputContents == {NoFile} \cup {FileOf(c) : c \in [Pieces -> Contents]}
Promise == INSTANCE ReliableDownload WITH
  Versions <- WholeFiles,
  Absent <- NoFile,
  Contents <- OutputContents,
  Delivered <- AllButTail,
  remote <- FileOf(Whole(remote)),
  asked <- IF phase = "off" THEN NoFile ELSE FileOf(Whole(version)),
  trusted <- ~exposed

KeepsPromise == Promise!Spec

-----------------------------------------------------------------------------
(***************************************************************************)
(* What a comment promises and the code does not keep.                     *)
(***************************************************************************)
\* download_engine.cpp, run(): old metadata is removed so that a new download is
\* never mixed with it; what a run resumes is what its metadata says.
ResumesItsOwnPart == phase = "validate" => Backed(loaded)
=============================================================================
