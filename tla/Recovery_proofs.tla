--------------------------- MODULE Recovery_proofs ---------------------------
(***************************************************************************)
(* Proofs about Recovery: its typing, that the metadata on disk is backed  *)
(* by the .part file beside it whatever crashes, that finished blocks are  *)
(* of the version the run asked for, and that downloads implement the      *)
(* promise of ReliableDownload: all of it up to the bytes behind the last  *)
(* whole unit of the file.                                                 *)
(***************************************************************************)
EXTENDS Recovery, Geometry_proofs

-----------------------------------------------------------------------------
(***************************************************************************)
(* The inductive invariant.                                                *)
(***************************************************************************)
\* What each phase of run() may rely on, exposed or not.
PhasesInOrder ==
  /\ phase \in {"validate", "fresh", "download", "finalize", "withdraw", "promote"} =>
       temp.is = "present"
  /\ phase \in {"loaded", "validate"} => loaded = metadata
  /\ phase = "validate" =>
       /\ loaded.is = "saved"
       /\ ~exposed => ~stale /\ loaded.version = version
  /\ phase = "fresh" /\ metadata.is = "saved" => stale
  /\ phase \in {"finalize", "withdraw", "promote"} => FinishedBlocks(bitmap) = Blocks
  /\ phase \in {"withdraw", "promote"} => temp = FileOf(temp.content)
  /\ flush # "none" => phase = "download"
  /\ flush \in {"fsync", "sample", "write"} => snapshot.is = "saved"
  /\ output.is = "present" => output = FileOf(output.content)

\* What a run resumes from metadata m stays in its bitmap.
KeptBy(m) ==
  \A b \in FinishedBlocks(m.bitmap) : BlockBegin(b) < m.vdl => bitmap[b] = "finished"

\* Metadata m that is about to be saved is of this run and this .part file.
Describes(m) ==
  /\ m.version = version
  /\ \A b \in FinishedBlocks(m.bitmap) : bitmap[b] = "finished"
  /\ \A s \in m.samples : s.content[s.block] = version
OnStableStorage(m) == \A b \in FinishedBlocks(m.bitmap) : temp.durable[b] = version

\* What holds until the program is exposed to what it cannot notice.
Truthful ==
  /\ phase # "off" => remote = version
  /\ phase \in {"download", "finalize", "withdraw", "promote"} =>
       \A b \in FinishedBlocks(bitmap) : temp.content[b] = version
  /\ ~stale /\ temp.is = "present" /\ metadata.is = "saved" =>
       /\ Backed(metadata)
       /\ phase = "download" => KeptBy(metadata)
  /\ flush \in {"fsync", "sample", "write"} => Describes(snapshot)
  /\ flush \in {"sample", "write"} => OnStableStorage(snapshot)
  /\ flush \in {"remove", "rename"} /\ metadata_tmp.is = "saved" =>
       Describes(metadata_tmp) /\ OnStableStorage(metadata_tmp)

IInv ==
  /\ TypeOK
  /\ PhasesInOrder
  /\ ~exposed => Truthful

-----------------------------------------------------------------------------
(***************************************************************************)
(* Types.                                                                  *)
(***************************************************************************)
\* The leading finished blocks of a bitmap are well defined, and the VDL is an offset.
LEMMA VdlTyped ==
  ASSUME NEW bm \in Bitmaps
  PROVE  ContiguousFinished(bm) \in 0 .. TotalSize
<1> DEFINE Stops == {n \in 0 .. BlockCount : n < BlockCount => bm[n] # "finished"}
<1>1. BlockCount \in Nat
  BY CountCovers
<1>2. Stops \in SUBSET Nat /\ BlockCount \in Stops
  BY <1>1
<1>3. PICK n \in Stops : \A m \in Stops : n <= m
  BY <1>2, SmallestOf
<1>4. \A b \in 0 .. (n - 1) : bm[b] = "finished"
  BY <1>1, <1>3
<1>5. FinishedPrefix(bm) \in 0 .. BlockCount
  BY <1>3, <1>4 DEF FinishedPrefix
<1>6. FinishedPrefix(bm) * BlockSize \in Nat
  BY <1>1, <1>5, GeometryAssumption
<1> QED
  BY <1>6, GeometryAssumption DEF ContiguousFinished, Min2

LEMMA FilesTyped ==
  /\ \A content \in [Pieces -> Contents] : FileOf(content) \in Files
  /\ BlankFile \in Files /\ OldFile \in Files
  /\ NoFile \notin Files
  /\ \A f \in {NoFile} \cup Files : f.is = "present" => f \in Files
  /\ \A f \in Files : f.is = "present" /\ Flushed(f) \in Files
                       /\ \A g \in AfterPowerFailure(f) : g \in Files
<1>1. \A content \in [Pieces -> Contents] : FileOf(content) \in Files
  BY DEF FileOf, Files
<1>2. BlankFile \in Files /\ OldFile \in Files
  BY <1>1 DEF BlankFile, OldFile, Contents
<1>3. \A f \in Files : f.is = "present" /\ f.content \in [Pieces -> Contents]
                        /\ f.durable \in [Pieces -> Contents]
  BY DEF Files
<1>4. NoFile \notin Files
  BY <1>3 DEF NoFile
<1>5. \A f \in Files : Flushed(f) \in Files
  BY DEF Flushed, Files
<1>6. ASSUME NEW f \in Files, NEW g \in AfterPowerFailure(f)
      PROVE  g \in Files
  <2>1. PICK kept \in SUBSET Pieces :
          g = FileOf([p \in Pieces |-> IF p \in kept THEN f.content[p] ELSE f.durable[p]])
    BY <1>3 DEF AfterPowerFailure
  <2> QED
    BY <2>1, <1>1, <1>3
<1> QED
  BY <1>1, <1>2, <1>3, <1>4, <1>5, <1>6 DEF NoFile

LEMMA MetadataTyped ==
  /\ NoMetadata \in MetadataFiles /\ TornMetadata \in MetadataFiles
  /\ \A m \in MetadataFiles : m.is = "saved" => m \in SavedMetadata
  /\ \A m \in MetadataFiles : m.is # "torn" => m \in {NoMetadata} \cup SavedMetadata
  /\ NoMetadata.is # "saved" /\ TornMetadata.is # "saved"
BY DEF MetadataFiles, NoMetadata, TornMetadata

LEMMA InitTyped == Init => TypeOK
<1> SUFFICES ASSUME Init PROVE TypeOK
  OBVIOUS
<1>1. EmptyBitmap \in Bitmaps
  BY DEF EmptyBitmap, Bitmaps, BlockState
<1>2. output \in {NoFile} \cup Files /\ temp \in {NoFile} \cup Files
  BY FilesTyped DEF Init
<1>3. metadata \in MetadataFiles /\ metadata_tmp \in MetadataFiles
  BY MetadataTyped DEF Init
<1>4. faults \in 0 .. MaxFaults
  BY RecoveryAssumption DEF Init
<1> QED
  BY <1>1, <1>2, <1>3, <1>4 DEF Init, TypeOK, Phases, FlushSteps

\* The end of a process leaves its own variables typed.
LEMMA EndTyped ==
  ASSUME TypeOK, ProcessEnds
  PROVE  /\ phase' \in Phases /\ request' \in Requests /\ version' \in Versions
         /\ loaded' \in {NoMetadata} \cup SavedMetadata
         /\ bitmap' \in Bitmaps
         /\ tail_buffer' \in {"none"} \cup Versions
         /\ flush' \in FlushSteps
         /\ snapshot' \in {NoMetadata} \cup SavedMetadata
         /\ failed' \in BOOLEAN
         /\ metadata_tmp' \in MetadataFiles
BY MetadataTyped DEF TypeOK, ProcessEnds, Phases, FlushSteps, EmptyBitmap, Bitmaps, BlockState

LEMMA RunFailsTyped == TypeOK /\ RunFails /\ faults' \in 0 .. MaxFaults => TypeOK'
BY EndTyped DEF TypeOK, RunFails, diskVars

LEMMA FaultTyped == TypeOK /\ Fault => faults' \in 0 .. MaxFaults
BY RecoveryAssumption DEF TypeOK, Fault


LEMMA PrepareTyped == TypeOK /\ PhasesInOrder /\ (Start \/ Prepare) => TypeOK'
<1> SUFFICES ASSUME TypeOK, PhasesInOrder, Start \/ Prepare PROVE TypeOK'
  OBVIOUS
<1> USE DEF Proceed, taskVars, diskVars
<1>1. CASE Start
  BY <1>1 DEF Start, StartRun, TypeOK, Phases
<1>2. CASE LoadMetadata
  BY <1>2, MetadataTyped DEF LoadMetadata, Parses, TypeOK, Phases
<1>3. CASE LoadFails \/ ReadFails
  BY <1>3, RunFailsTyped, FaultTyped DEF LoadFails, ReadFails, TypeOK
<1>4. CASE OpenResumed
  BY <1>4 DEF OpenResumed, TypeOK, Phases
<1>5. CASE OpenFresh
  BY <1>5, FilesTyped DEF OpenFresh, ReplacePart, TypeOK, Phases
<1>6. CASE PreallocateFails
  BY <1>6, EndTyped, FaultTyped, FilesTyped DEF PreallocateFails, ReplacePart, TypeOK
<1>7. CASE OpenFails
  BY <1>7, EndTyped, FaultTyped DEF OpenFails, TypeOK
<1>8. CASE ValidateResumed
  <2>1. loaded.bitmap \in Bitmaps
    BY <1>8, MetadataTyped DEF ValidateResumed, PhasesInOrder, TypeOK, SavedMetadata
  <2>2. ResumedBitmap(loaded) \in Bitmaps
    BY <2>1 DEF ResumedBitmap, ResetTransient, Bitmaps, BlockState
  <2> QED
    BY <1>8, <2>2 DEF ValidateResumed, Ready, TypeOK, Phases
<1>9. CASE RemoveOldMetadata
  BY <1>9, FaultTyped, MetadataTyped
     DEF RemoveOldMetadata, RemoveMetadata, TypeOK, Phases, EmptyBitmap, Bitmaps, BlockState
<1> QED
  BY <1>1, <1>2, <1>3, <1>4, <1>5, <1>6, <1>7, <1>8, <1>9 DEF Prepare

LEMMA PersistsTyped ==
  ASSUME TypeOK, PhasesInOrder, NEW pieces \in SUBSET Pieces, NEW content \in Contents,
         Persists(pieces, content), bitmap' \in Bitmaps,
         tail_buffer' \in {"none"} \cup Versions
  PROVE  TypeOK'
<1>1. temp \in Files
  BY FilesTyped DEF Persists, PhasesInOrder, TypeOK
<1>2. temp' \in Files
  BY <1>1 DEF Persists, Files
<1> QED
  BY <1>2 DEF Persists, TypeOK, taskVars

LEMMA BlockPieces ==
  /\ \A b \in Blocks : b \in PiecesOf(b) /\ PiecesOf(b) \subseteq Pieces
  /\ Tails \subseteq Pieces /\ Tails \cap Blocks = {}
  /\ \A b \in Blocks : PiecesOf(b) \cap Blocks = {b}
BY CountCovers DEF PiecesOf, Pieces, Tails, Blocks

LEMMA DownloadTyped == TypeOK /\ PhasesInOrder /\ (Download \/ DownloadEnds) => TypeOK'
<1> SUFFICES ASSUME TypeOK, PhasesInOrder, Download \/ DownloadEnds PROVE TypeOK'
  OBVIOUS
<1>1. "partial" \in Contents /\ \A v \in Versions : v \in Contents
  BY DEF Contents
<1>2. ASSUME NEW b \in Blocks, NEW state \in BlockState, bitmap' = [bitmap EXCEPT ![b] = state]
      PROVE  bitmap' \in Bitmaps
  BY <1>2 DEF TypeOK, Bitmaps
<1>3. ASSUME NEW b \in Blocks, BeginBlock(b) PROVE TypeOK'
  BY <1>1, <1>2, <1>3, BlockPieces, PersistsTyped DEF BeginBlock, BlockState, TypeOK, Pieces
<1>4. ASSUME NEW b \in Blocks, FinishBlock(b) PROVE TypeOK'
  <2>1. PICK written \in {{b}, PiecesOf(b)} :
          /\ Persists(written, remote)
          /\ tail_buffer' = IF written = PiecesOf(b) THEN tail_buffer ELSE remote
    BY <1>4 DEF FinishBlock
  <2>2. written \in SUBSET Pieces
    BY BlockPieces DEF Pieces
  <2> QED
    BY <1>1, <1>2, <1>4, <2>1, <2>2, PersistsTyped DEF FinishBlock, BlockState, TypeOK
<1>5. CASE FlushTail
  BY <1>1, <1>5, BlockPieces, PersistsTyped DEF FlushTail, TypeOK
<1>6. CASE DownloadEnds
  BY <1>6, EndTyped DEF DownloadEnds, Proceed, taskVars, diskVars, TypeOK, Phases
<1> QED
  BY <1>3, <1>4, <1>5, <1>6 DEF Download

\* What build_crc_samples reads of typed files is typed.
LEMMA SamplesTyped ==
  ASSUME temp \in Files, NEW read \in SUBSET Blocks
  PROVE  {[block |-> b, content |-> ContentOf(b)] : b \in read} \in SUBSET Samples
<1> SUFFICES ASSUME NEW b \in read PROVE [block |-> b, content |-> ContentOf(b)] \in Samples
  OBVIOUS
<1>1. ContentOf(b) \in [PiecesOf(b) -> Contents]
  BY BlockPieces DEF ContentOf, Files
<1> QED
  BY <1>1 DEF Samples

LEMMA FlushTyped == TypeOK /\ PhasesInOrder /\ (SubmitFlush \/ FlushTask) => TypeOK'
<1> SUFFICES ASSUME TypeOK, PhasesInOrder, SubmitFlush \/ FlushTask PROVE TypeOK'
  OBVIOUS
<1> USE DEF TaskUnchanged, InTask, TaskStep
<1>1. temp \in Files
  BY FilesTyped DEF TypeOK, PhasesInOrder, SubmitFlush, FlushTask, FlushFile, FlushFails,
        BuildCrcSamples, WriteMetadataTmp, OpenMetadataTmpFails, RemovePreviousMetadata,
        RenameMetadata, RenameMetadataFails
<1>2. CASE SubmitFlush
  <2>1. snapshot' \in SavedMetadata
    BY <1>2, GeometryAssumption DEF SubmitFlush, SavedMetadata, TypeOK
  <2> QED
    BY <1>2, <2>1 DEF SubmitFlush, TypeOK, FlushSteps
<1>3. CASE FlushFile
  BY <1>1, <1>3, FilesTyped DEF FlushFile, TypeOK, FlushSteps
<1>4. ASSUME TaskFails PROVE TypeOK'
  BY <1>4, FaultTyped, MetadataTyped DEF TaskFails, TypeOK, FlushSteps
<1>5. CASE BuildCrcSamples
  <2> DEFINE vdl == ContiguousFinished(bitmap)
  <2>1. PICK read \in SUBSET Blocks :
          /\ UNCHANGED faults \/ Fault
          /\ snapshot' = [snapshot EXCEPT
               !.vdl = vdl,
               !.samples = {[block |-> b, content |-> ContentOf(b)] : b \in read}]
    BY <1>5 DEF BuildCrcSamples, FinishedBlocks
  <2>2. vdl \in 0 .. TotalSize
    BY VdlTyped DEF TypeOK
  <2>3. {[block |-> b, content |-> ContentOf(b)] : b \in read}
          \in SUBSET Samples
    BY <1>1, SamplesTyped
  <2>4. snapshot \in SavedMetadata
    BY <1>5, MetadataTyped DEF BuildCrcSamples, PhasesInOrder, TypeOK
  <2>5. snapshot' \in SavedMetadata
    BY <2>1, <2>2, <2>3, <2>4 DEF SavedMetadata
  <2> QED
    BY <1>5, <2>1, <2>5, FaultTyped DEF BuildCrcSamples, TypeOK, FlushSteps
<1>6. CASE WriteMetadataTmp
  BY <1>6, FaultTyped, MetadataTyped DEF WriteMetadataTmp, TypeOK, FlushSteps, MetadataFiles
<1>7. CASE RemovePreviousMetadata
  BY <1>7, MetadataTyped DEF RemovePreviousMetadata, RemoveMetadata, TypeOK, FlushSteps
<1>8. CASE RenameMetadata
  BY <1>8, MetadataTyped DEF RenameMetadata, TypeOK, FlushSteps
<1> QED
  BY <1>2, <1>3, <1>4, <1>5, <1>6, <1>7, <1>8
     DEF FlushTask, FlushFails, OpenMetadataTmpFails, RenameMetadataFails

LEMMA FinalizeTyped == TypeOK /\ PhasesInOrder /\ (Finalize \/ Environment) => TypeOK'
<1> SUFFICES ASSUME TypeOK, PhasesInOrder, Finalize \/ Environment PROVE TypeOK'
  OBVIOUS
<1> USE DEF Proceed, taskVars, diskVars
<1>1. CASE FinalizeFlushes
  BY <1>1, FilesTyped DEF FinalizeFlushes, PhasesInOrder, TypeOK, Phases
<1>2. CASE WithdrawOutput
  BY <1>2 DEF WithdrawOutput, TypeOK, Phases
<1>3. CASE PromotePart
  BY <1>3 DEF PromotePart, TypeOK, Phases
<1>4. CASE FinalizeFails
  BY <1>4, RunFailsTyped, FaultTyped DEF FinalizeFails
<1>5. CASE RunSucceeds
  BY <1>5, EndTyped, FaultTyped, MetadataTyped DEF RunSucceeds, RemoveMetadata, TypeOK
<1>6. ASSUME faults < MaxFaults, faults' = faults + 1 PROVE faults' \in 0 .. MaxFaults
  BY <1>6, RecoveryAssumption DEF TypeOK
<1>7. CASE RemoteChanges
  BY <1>6, <1>7 DEF RemoteChanges, processVars, TypeOK
<1>8. CASE DownloadFails
  BY <1>8, FaultTyped DEF DownloadFails, TypeOK
<1>11. CASE DownloadEndsIncomplete
  BY <1>11, RunFailsTyped, FaultTyped DEF DownloadEndsIncomplete
<1>9. CASE ProcessCrashes
  BY <1>6, <1>9, RunFailsTyped DEF ProcessCrashes
<1>10. CASE PowerFails
  <2>1. \A f \in {NoFile} \cup Files : \A g \in AfterPowerFailure(f) : g \in {NoFile} \cup Files
    <3>1. \A g \in AfterPowerFailure(NoFile) : g = NoFile
      BY DEF AfterPowerFailure, NoFile
    <3> QED
      BY <3>1, FilesTyped
  <2>2. temp' \in {NoFile} \cup Files /\ output' \in {NoFile} \cup Files
    BY <1>10, <2>1 DEF PowerFails, TypeOK
  <2>3. metadata' \in MetadataFiles
    BY <1>10, MetadataTyped DEF PowerFails, MetadataAfterPowerFailure, TypeOK
  <2> QED
    BY <1>6, <1>10, <2>2, <2>3, EndTyped DEF PowerFails, TypeOK
<1> QED
  BY <1>1, <1>2, <1>3, <1>4, <1>5, <1>7, <1>8, <1>9, <1>10, <1>11 DEF Finalize, Environment

LEMMA NextTyped == TypeOK /\ PhasesInOrder /\ [Next]_vars => TypeOK'
<1>1. TypeOK /\ UNCHANGED vars => TypeOK'
  BY DEF vars, processVars, taskVars, diskVars, TypeOK
<1> QED
  BY <1>1, PrepareTyped, DownloadTyped, FlushTyped, FinalizeTyped DEF Next

-----------------------------------------------------------------------------
(***************************************************************************)
(* The order of the phases.                                                *)
(***************************************************************************)
\* Once a process has ended only the file under the output path is left to describe.
LEMMA EndInOrder ==
  ASSUME ProcessEnds, output'.is = "present" => output' = FileOf(output'.content)
  PROVE  PhasesInOrder'
BY DEF ProcessEnds, PhasesInOrder

LEMMA RunFailsInOrder == PhasesInOrder /\ RunFails => PhasesInOrder'
BY EndInOrder DEF RunFails, diskVars, PhasesInOrder

\* Metadata that matches the probe is of the version the probe saw, unless the server
\* does not tell the two apart.
LEMMA MatchingVersion ==
  ASSUME NEW m, MetadataMatches(m)
  PROVE  ~ToldApart(m.version, version)
<1>1. ASSUME NEW kind \in {"etag", "last_modified"}
      PROVE  \/ NoValidator \in {Validators[m.version][kind], Validators[version][kind]}
             \/ Validators[m.version][kind] = Validators[version][kind]
  BY DEF MetadataMatches, ValidatorsAgree, SameOrMissing
<1> QED
  BY <1>1 DEF ToldApart

LEMMA PrepareInOrder == TypeOK /\ PhasesInOrder /\ (Start \/ Prepare) => PhasesInOrder'
<1> SUFFICES ASSUME TypeOK, PhasesInOrder, Start \/ Prepare PROVE PhasesInOrder'
  OBVIOUS
<1> USE DEF Proceed, taskVars, diskVars
<1>1. CASE Start
  BY <1>1 DEF Start, StartRun, PhasesInOrder
<1>2. CASE LoadMetadata
  BY <1>2 DEF LoadMetadata, PhasesInOrder
<1>3. CASE LoadFails \/ ReadFails
  BY <1>3, RunFailsInOrder DEF LoadFails, ReadFails
<1>4. CASE OpenResumed
  <2>1. ~exposed' => ~stale /\ loaded.version = version
    BY <1>4, MatchingVersion DEF OpenResumed, CanResume
  <2> QED
    BY <1>4, <2>1 DEF OpenResumed, CanResume, PhasesInOrder
<1>5. CASE OpenFresh
  BY <1>5 DEF OpenFresh, ReplacePart, BlankFile, FileOf, PhasesInOrder
<1>6. CASE PreallocateFails
  BY <1>6, EndInOrder DEF PreallocateFails, ReplacePart, PhasesInOrder
<1>7. CASE OpenFails
  BY <1>7, EndInOrder DEF OpenFails, PhasesInOrder
<1>8. CASE ValidateResumed
  BY <1>8 DEF ValidateResumed, Ready, FinishedBlocks, PhasesInOrder
<1>9. CASE RemoveOldMetadata
  BY <1>9 DEF RemoveOldMetadata, PhasesInOrder
<1> QED
  BY <1>1, <1>2, <1>3, <1>4, <1>5, <1>6, <1>7, <1>8, <1>9 DEF Prepare

LEMMA DownloadInOrder ==
  TypeOK /\ PhasesInOrder /\ (Download \/ DownloadEnds) => PhasesInOrder'
<1> SUFFICES ASSUME TypeOK, PhasesInOrder, Download \/ DownloadEnds PROVE PhasesInOrder'
  OBVIOUS
<1>1. ASSUME NEW pieces, NEW content, Persists(pieces, content)
      PROVE  PhasesInOrder'
  <2>1. temp.is = "present" /\ temp \in Files
    BY <1>1, FilesTyped DEF Persists, PhasesInOrder, TypeOK
  <2>2. temp'.is = "present"
    BY <1>1, <2>1 DEF Persists, Files
  <2> QED
    BY <1>1, <2>2 DEF Persists, taskVars, PhasesInOrder
<1>2. CASE DownloadEnds
  <2>1. CASE Proceed("finalize") /\ FinishedBlocks(bitmap) = Blocks /\ UNCHANGED bitmap
    BY <1>2, <2>1 DEF DownloadEnds, Proceed, taskVars, diskVars, PhasesInOrder, FinishedBlocks
  <2>2. CASE ProcessEnds
    BY <1>2, <2>2, EndInOrder DEF DownloadEnds, diskVars, PhasesInOrder
  <2> QED
    BY <1>2, <2>1, <2>2 DEF DownloadEnds
<1> QED
  BY <1>1, <1>2 DEF Download, BeginBlock, FinishBlock, FlushTail

LEMMA FlushInOrder ==
  TypeOK /\ PhasesInOrder /\ (SubmitFlush \/ FlushTask) => PhasesInOrder'
<1> SUFFICES ASSUME TypeOK, PhasesInOrder, SubmitFlush \/ FlushTask PROVE PhasesInOrder'
  OBVIOUS
<1> USE DEF TaskUnchanged, InTask, TaskStep
<1>1. phase = "download" /\ temp.is = "present" /\ temp \in Files
  BY FilesTyped DEF TypeOK, PhasesInOrder, SubmitFlush, FlushTask, FlushFile, FlushFails,
        BuildCrcSamples, WriteMetadataTmp, OpenMetadataTmpFails, RemovePreviousMetadata,
        RenameMetadata, RenameMetadataFails
<1>2. CASE SubmitFlush
  BY <1>1, <1>2 DEF SubmitFlush, PhasesInOrder
<1>3. CASE FlushFile
  BY <1>1, <1>3, FilesTyped DEF FlushFile, PhasesInOrder
<1>4. ASSUME TaskFails PROVE PhasesInOrder'
  BY <1>1, <1>4 DEF TaskFails, PhasesInOrder
<1>5. CASE BuildCrcSamples
  <2>1. snapshot \in SavedMetadata
    BY <1>5, MetadataTyped DEF BuildCrcSamples, PhasesInOrder, TypeOK
  <2>2. snapshot'.is = "saved"
    BY <1>5, <2>1 DEF BuildCrcSamples, SavedMetadata
  <2> QED
    BY <1>1, <1>5, <2>2 DEF BuildCrcSamples, PhasesInOrder
<1>6. CASE WriteMetadataTmp
  BY <1>1, <1>6 DEF WriteMetadataTmp, PhasesInOrder
<1>7. CASE RemovePreviousMetadata
  BY <1>1, <1>7 DEF RemovePreviousMetadata, RemoveMetadata, PhasesInOrder
<1>8. CASE RenameMetadata
  BY <1>1, <1>8 DEF RenameMetadata, PhasesInOrder
<1> QED
  BY <1>2, <1>3, <1>4, <1>5, <1>6, <1>7, <1>8
     DEF FlushTask, FlushFails, OpenMetadataTmpFails, RenameMetadataFails

\* A file that is whole on stable storage comes out of a power failure as it was.
LEMMA DurableFileKept ==
  ASSUME NEW f \in Files, f = FileOf(f.content), NEW g \in AfterPowerFailure(f)
  PROVE  g = f
<1>1. /\ f.is = "present" /\ f.content = f.durable
      /\ f.content = [p \in Pieces |-> f.content[p]]
  BY DEF FileOf, Files
<1>2. PICK kept \in SUBSET Pieces :
        g = FileOf([p \in Pieces |-> IF p \in kept THEN f.content[p] ELSE f.durable[p]])
  BY <1>1 DEF AfterPowerFailure
<1>3. [p \in Pieces |-> IF p \in kept THEN f.content[p] ELSE f.durable[p]] = f.content
  BY <1>1
<1> QED
  BY <1>2, <1>3

LEMMA OutputKept ==
  ASSUME TypeOK, PhasesInOrder, NEW g \in AfterPowerFailure(output)
  PROVE  g = output
<1>1. output = NoFile => g = output
  BY DEF AfterPowerFailure, NoFile
<1>2. output \in Files => g = output
  BY DurableFileKept, FilesTyped DEF PhasesInOrder
<1> QED
  BY <1>1, <1>2 DEF TypeOK

LEMMA FinalizeInOrder ==
  TypeOK /\ PhasesInOrder /\ (Finalize \/ Environment) => PhasesInOrder'
<1> SUFFICES ASSUME TypeOK, PhasesInOrder, Finalize \/ Environment PROVE PhasesInOrder'
  OBVIOUS
<1> USE DEF Proceed, taskVars, diskVars
<1>1. CASE FinalizeFlushes
  <2>1. temp \in Files
    BY <1>1, FilesTyped DEF FinalizeFlushes, PhasesInOrder, TypeOK
  <2>2. temp' = FileOf(temp'.content) /\ temp'.is = "present"
    BY <1>1, <2>1 DEF FinalizeFlushes, Flushed, Files, FileOf
  <2> QED
    BY <1>1, <2>2 DEF FinalizeFlushes, PhasesInOrder, FinishedBlocks
<1>2. CASE WithdrawOutput
  BY <1>2 DEF WithdrawOutput, PhasesInOrder, FinishedBlocks, NoFile
<1>3. CASE PromotePart
  BY <1>3 DEF PromotePart, PhasesInOrder
<1>4. CASE FinalizeFails
  BY <1>4, RunFailsInOrder DEF FinalizeFails
<1>5. CASE RunSucceeds
  BY <1>5, EndInOrder DEF RunSucceeds, PhasesInOrder
<1>6. CASE RemoteChanges
  BY <1>6 DEF RemoteChanges, processVars, PhasesInOrder, FinishedBlocks
<1>7. CASE DownloadFails
  BY <1>7 DEF DownloadFails, PhasesInOrder
<1>8. CASE DownloadEndsIncomplete \/ ProcessCrashes
  BY <1>8, RunFailsInOrder DEF DownloadEndsIncomplete, ProcessCrashes
<1>9. CASE PowerFails
  BY <1>9, EndInOrder, OutputKept DEF PowerFails, PhasesInOrder
<1> QED
  BY <1>1, <1>2, <1>3, <1>4, <1>5, <1>6, <1>7, <1>8, <1>9 DEF Finalize, Environment

LEMMA NextInOrder == TypeOK /\ PhasesInOrder /\ [Next]_vars => PhasesInOrder'
<1>1. PhasesInOrder /\ UNCHANGED vars => PhasesInOrder'
  BY DEF vars, processVars, taskVars, diskVars, PhasesInOrder, FinishedBlocks
<1> QED
  BY <1>1, PrepareInOrder, DownloadInOrder, FlushInOrder, FinalizeInOrder DEF Next

LEMMA InitInOrder == Init => PhasesInOrder
BY DEF Init, PhasesInOrder, NoFile, OldFile, FileOf

-----------------------------------------------------------------------------
(***************************************************************************)
(* Truth.                                                                  *)
(***************************************************************************)
\* What the disk says of itself, whoever runs.
DiskTruthful ==
  ~stale /\ temp.is = "present" /\ metadata.is = "saved" => Backed(metadata)

LEMMA EndTruthful == ProcessEnds /\ DiskTruthful' => Truthful'
BY DEF ProcessEnds, DiskTruthful, Truthful

LEMMA RunFailsTruthful == Truthful /\ RunFails => Truthful'
BY EndTruthful DEF RunFails, diskVars, Truthful, DiskTruthful, Backed

LEMMA PrepareTruthful ==
  TypeOK /\ PhasesInOrder /\ (~exposed => Truthful) /\ (Start \/ Prepare)
    => (~exposed' => Truthful')
<1> SUFFICES ASSUME TypeOK, PhasesInOrder, ~exposed => Truthful, Start \/ Prepare, ~exposed'
             PROVE  Truthful'
  OBVIOUS
<1> USE DEF Proceed, taskVars, diskVars
<1>1. Truthful
  BY DEF Start, StartRun, Prepare, LoadMetadata, LoadFails, OpenResumed, OpenFresh,
         PreallocateFails, OpenFails, ValidateResumed, ReadFails, RemoveOldMetadata, RunFails
<1>2. CASE Start
  BY <1>1, <1>2 DEF Start, StartRun, PhasesInOrder, Truthful, Backed
<1>3. CASE LoadMetadata
  BY <1>1, <1>3 DEF LoadMetadata, PhasesInOrder, Truthful, Backed
<1>4. CASE LoadFails \/ ReadFails
  BY <1>1, <1>4, RunFailsTruthful DEF LoadFails, ReadFails
<1>5. CASE OpenResumed
  BY <1>1, <1>5 DEF OpenResumed, PhasesInOrder, Truthful, Backed
<1>6. CASE OpenFresh
  BY <1>1, <1>6 DEF OpenFresh, ReplacePart, PhasesInOrder, Truthful
<1>7. CASE PreallocateFails
  BY <1>1, <1>7, EndTruthful DEF PreallocateFails, ReplacePart, Truthful, DiskTruthful, Backed
<1>8. CASE OpenFails
  BY <1>1, <1>8, EndTruthful DEF OpenFails, NoFile, Truthful, DiskTruthful, Backed
<1>9. CASE ValidateResumed
  <2>1. /\ loaded = metadata /\ loaded \in SavedMetadata /\ ~stale /\ temp.is = "present"
        /\ flush = "none"
    BY <1>9, MetadataTyped DEF ValidateResumed, PhasesInOrder, TypeOK
  <2>2. loaded.version = version /\ Backed(loaded)
    BY <1>1, <1>9, <2>1 DEF ValidateResumed, PhasesInOrder, Truthful
  <2>3. ASSUME NEW b \in Blocks, bitmap'[b] = "finished"
        PROVE  b \in FinishedBlocks(loaded.bitmap) /\ Trusts(loaded, b)
    BY <1>9, <2>3 DEF ValidateResumed, ResumedBitmap, ResetTransient, FinishedBlocks
  <2>4. ASSUME NEW b \in Blocks, bitmap'[b] = "finished" PROVE temp.content[b] = version
    <3>1. ContentOf(b)[b] = temp.content[b]
      BY BlockPieces DEF ContentOf
    <3> QED
      BY <2>2, <2>3, <2>4, <3>1 DEF Trusts, Backed
  <2>5. KeptBy(metadata)'
    <3> SUFFICES ASSUME NEW b \in FinishedBlocks(loaded.bitmap), BlockBegin(b) < loaded.vdl
                 PROVE  bitmap'[b] = "finished"
      BY <1>9, <2>1 DEF ValidateResumed, KeptBy, FinishedBlocks
    <3> QED
      BY <1>9 DEF ValidateResumed, ResumedBitmap, ResetTransient, FinishedBlocks, Trusts
  <2> QED
    BY <1>1, <1>9, <2>1, <2>4, <2>5
       DEF ValidateResumed, Ready, Truthful, FinishedBlocks, Backed
<1>10. CASE RemoveOldMetadata
  <2>1. FinishedBlocks(bitmap') = {}
    BY <1>10 DEF RemoveOldMetadata, FinishedBlocks, EmptyBitmap
  <2>2. metadata'.is = "saved" => stale'
    <3>1. CASE RemoveMetadata(TRUE)
      BY <3>1 DEF RemoveMetadata, NoMetadata
    <3>2. CASE RemoveMetadata(FALSE)
      BY <1>10, <3>2 DEF RemoveMetadata, RemoveOldMetadata, PhasesInOrder
    <3> QED
      BY <1>10, <3>1, <3>2 DEF RemoveOldMetadata
  <2> QED
    BY <1>1, <1>10, <2>1, <2>2 DEF RemoveOldMetadata, PhasesInOrder, Truthful, FinishedBlocks
<1> QED
  BY <1>2, <1>3, <1>4, <1>5, <1>6, <1>7, <1>8, <1>9, <1>10 DEF Prepare

\* Writing to unfinished blocks, or to the tail, disturbs nothing that is vouched for.
LEMMA PersistsTruthful ==
  ASSUME TypeOK, PhasesInOrder, Truthful, NEW pieces, NEW content, Persists(pieces, content),
         \A c \in FinishedBlocks(bitmap) : c \notin pieces /\ bitmap'[c] = "finished",
         \A c \in FinishedBlocks(bitmap') :
           c \in FinishedBlocks(bitmap) \/ (c \in pieces /\ content = version)
  PROVE  Truthful'
<1>1. /\ temp \in Files /\ temp'.is = temp.is /\ temp'.durable = temp.durable
      /\ phase = "download" /\ temp.is = "present"
  BY FilesTyped DEF Persists, TypeOK, PhasesInOrder, Files
<1>2. \A c \in Blocks : temp'.content[c] = IF c \in pieces THEN content ELSE temp.content[c]
  BY <1>1 DEF Persists, Files, Pieces
<1>3. \A m : FinishedBlocks(m.bitmap) \subseteq Blocks
  BY DEF FinishedBlocks
<1>4. FinishedBlocks(bitmap) \subseteq Blocks /\ FinishedBlocks(bitmap') \subseteq Blocks
  BY DEF FinishedBlocks
<1>5. \A c \in FinishedBlocks(bitmap') : temp'.content[c] = version
  BY <1>1, <1>2, <1>4 DEF Truthful
<1>6. \A c \in Blocks : bitmap[c] = "finished" =>
        temp'.content[c] = temp.content[c] /\ bitmap'[c] = "finished"
  BY <1>2 DEF FinishedBlocks
<1>7. ASSUME NEW m, KeptBy(m), Backed(m)
      PROVE  /\ \A c \in FinishedBlocks(m.bitmap) : BlockBegin(c) < m.vdl => bitmap'[c] = "finished"
             /\ \A c \in FinishedBlocks(m.bitmap) :
                  /\ BlockBegin(c) < m.vdl =>
                       temp'.content[c] = m.version /\ temp'.durable[c] = m.version
                  /\ \A s \in m.samples : s.block = c => s.content[c] = m.version
  BY <1>1, <1>3, <1>6, <1>7 DEF KeptBy, Backed
<1>8. ASSUME NEW m, Describes(m)
      PROVE  \A c \in FinishedBlocks(m.bitmap) : bitmap'[c] = "finished"
  BY <1>3, <1>6, <1>8 DEF Describes
<1> QED
  BY <1>1, <1>5, <1>7, <1>8
     DEF Persists, taskVars, Truthful, Backed, KeptBy, Describes, OnStableStorage, FinishedBlocks

LEMMA DownloadTruthful ==
  TypeOK /\ PhasesInOrder /\ (~exposed => Truthful) /\ (Download \/ DownloadEnds)
    => (~exposed' => Truthful')
<1> SUFFICES ASSUME TypeOK, PhasesInOrder, ~exposed => Truthful, Download \/ DownloadEnds,
                    ~exposed'
             PROVE  Truthful'
  OBVIOUS
<1>1. Truthful
  BY DEF Download, BeginBlock, FinishBlock, FlushTail, Persists, DownloadEnds
<1>2. ASSUME NEW b \in Blocks, NEW state, bitmap[b] # "finished",
             bitmap' = [bitmap EXCEPT ![b] = state]
      PROVE  /\ \A c \in FinishedBlocks(bitmap) : c # b /\ bitmap'[c] = "finished"
             /\ \A c \in FinishedBlocks(bitmap') :
                  c \in FinishedBlocks(bitmap) \/ (c = b /\ state = "finished")
  BY <1>2 DEF TypeOK, Bitmaps, FinishedBlocks
<1>3. ASSUME NEW b \in Blocks, BeginBlock(b) PROVE Truthful'
  <2>1. \A c \in FinishedBlocks(bitmap) : c \notin {b} /\ bitmap'[c] = "finished"
    BY <1>2, <1>3 DEF BeginBlock
  <2>2. \A c \in FinishedBlocks(bitmap') : c \in FinishedBlocks(bitmap)
    BY <1>2, <1>3 DEF BeginBlock
  <2> QED
    BY <1>1, <1>3, <2>1, <2>2, PersistsTruthful DEF BeginBlock
<1>4. ASSUME NEW b \in Blocks, FinishBlock(b) PROVE Truthful'
  <2>1. PICK written \in {{b}, PiecesOf(b)} : Persists(written, remote)
    BY <1>4 DEF FinishBlock
  <2>2. remote = version
    BY <1>1, <2>1 DEF Persists, Truthful
  <2>3. b \in written /\ written \cap Blocks = {b}
    BY BlockPieces
  <2>4. \A c \in FinishedBlocks(bitmap) : c \notin written /\ bitmap'[c] = "finished"
    BY <1>2, <1>4, <2>3 DEF FinishBlock, FinishedBlocks
  <2>5. \A c \in FinishedBlocks(bitmap') :
          c \in FinishedBlocks(bitmap) \/ (c \in written /\ remote = version)
    BY <1>2, <1>4, <2>2, <2>3 DEF FinishBlock
  <2> QED
    BY <1>1, <2>1, <2>4, <2>5, PersistsTruthful
<1>5. CASE FlushTail
  <2>1. \A c \in FinishedBlocks(bitmap) : c \notin Tails /\ bitmap'[c] = "finished"
    BY <1>5, BlockPieces DEF FlushTail, FinishedBlocks
  <2>2. \A c \in FinishedBlocks(bitmap') : c \in FinishedBlocks(bitmap)
    BY <1>5 DEF FlushTail, FinishedBlocks
  <2> QED
    BY <1>1, <1>5, <2>1, <2>2, PersistsTruthful DEF FlushTail
<1>6. CASE DownloadEnds
  <2>1. CASE Proceed("finalize") /\ UNCHANGED bitmap
    BY <1>1, <1>6, <2>1
       DEF DownloadEnds, Proceed, taskVars, diskVars, Truthful, FinishedBlocks, Backed
  <2>2. CASE ProcessEnds
    BY <1>1, <1>6, <2>2, EndTruthful DEF DownloadEnds, diskVars, Truthful, DiskTruthful, Backed
  <2> QED
    BY <1>6, <2>1, <2>2 DEF DownloadEnds
<1> QED
  BY <1>3, <1>4, <1>5, <1>6 DEF Download

LEMMA FlushTruthful ==
  TypeOK /\ PhasesInOrder /\ (~exposed => Truthful) /\ (SubmitFlush \/ FlushTask)
    => (~exposed' => Truthful')
<1> SUFFICES ASSUME TypeOK, PhasesInOrder, ~exposed => Truthful, SubmitFlush \/ FlushTask,
                    ~exposed'
             PROVE  Truthful'
  OBVIOUS
<1> USE DEF TaskUnchanged, InTask, TaskStep
<1>1. /\ phase = "download" /\ temp.is = "present" /\ temp \in Files
      /\ UNCHANGED <<remote, phase, version, bitmap, exposed>>
  BY FilesTyped DEF TypeOK, PhasesInOrder, SubmitFlush, FlushTask, FlushFile, FlushFails,
        BuildCrcSamples, WriteMetadataTmp, OpenMetadataTmpFails, RemovePreviousMetadata,
        RenameMetadata, RenameMetadataFails, TaskFails
<1>2. Truthful
  BY <1>1
<1>3. \A b \in FinishedBlocks(bitmap) : temp.content[b] = version
  BY <1>1, <1>2 DEF Truthful
<1>4. CASE SubmitFlush
  <2>1. Describes(snapshot)'
    BY <1>4 DEF SubmitFlush, Describes, FinishedBlocks
  <2> QED
    BY <1>1, <1>2, <1>4, <2>1
       DEF SubmitFlush, Truthful, Backed, KeptBy, FinishedBlocks, Describes
<1>5. CASE FlushFile
  <2>1. temp'.is = "present" /\ temp'.content = temp.content /\ temp'.durable = temp.content
    BY <1>1, <1>5 DEF FlushFile, Flushed, Files
  <2>2. OnStableStorage(snapshot)' /\ Describes(snapshot)'
    BY <1>1, <1>2, <1>3, <1>5, <2>1
       DEF FlushFile, Truthful, Describes, OnStableStorage, FinishedBlocks
  <2>3. ASSUME ~stale, metadata.is = "saved" PROVE Backed(metadata)' /\ KeptBy(metadata)'
    BY <1>1, <1>2, <1>5, <2>1, <2>3 DEF FlushFile, Truthful, Backed, KeptBy
  <2> QED
    BY <1>1, <1>2, <1>3, <1>5, <2>1, <2>2, <2>3 DEF FlushFile, Truthful, FinishedBlocks
<1>6. ASSUME TaskFails PROVE Truthful'
  BY <1>1, <1>2, <1>6 DEF TaskFails, Truthful, Backed, KeptBy, FinishedBlocks
<1>7. CASE BuildCrcSamples
  <2>1. snapshot \in SavedMetadata
    BY <1>7, MetadataTyped DEF BuildCrcSamples, PhasesInOrder, TypeOK
  <2>2. PICK read \in SUBSET FinishedBlocks(snapshot.bitmap) :
          snapshot' = [snapshot EXCEPT
               !.vdl = ContiguousFinished(bitmap),
               !.samples = {[block |-> b, content |-> ContentOf(b)] : b \in read}]
    BY <1>7 DEF BuildCrcSamples
  <2>3. /\ snapshot'.version = snapshot.version /\ snapshot'.bitmap = snapshot.bitmap
        /\ snapshot'.samples = {[block |-> b, content |-> ContentOf(b)] : b \in read}
    BY <2>1, <2>2 DEF SavedMetadata
  <2>4. Describes(snapshot) /\ OnStableStorage(snapshot)
    BY <1>2, <1>7 DEF BuildCrcSamples, Truthful
  <2>5. \A s \in snapshot'.samples : s.content[s.block] = version
    <3>1. \A b \in read : b \in Blocks /\ ContentOf(b)[b] = version
      BY <1>3, <2>4, BlockPieces DEF Describes, FinishedBlocks, ContentOf
    <3> QED
      BY <2>3, <3>1
  <2>6. Describes(snapshot)' /\ OnStableStorage(snapshot)'
    BY <1>1, <1>7, <2>3, <2>4, <2>5 DEF BuildCrcSamples, Describes, OnStableStorage, FinishedBlocks
  <2> QED
    BY <1>1, <1>2, <1>7, <2>6 DEF BuildCrcSamples, Truthful, Backed, KeptBy, FinishedBlocks
<1>8. CASE WriteMetadataTmp
  <2>1. Describes(snapshot) /\ OnStableStorage(snapshot)
    BY <1>2, <1>8 DEF WriteMetadataTmp, Truthful
  <2>2. metadata_tmp'.is = "saved" => metadata_tmp' = snapshot
    BY <1>8, MetadataTyped DEF WriteMetadataTmp
  <2>3. metadata_tmp'.is = "saved" => Describes(metadata_tmp)' /\ OnStableStorage(metadata_tmp)'
    BY <1>1, <1>8, <2>1, <2>2 DEF WriteMetadataTmp, Describes, OnStableStorage, FinishedBlocks
  <2> QED
    BY <1>1, <1>2, <1>8, <2>3 DEF WriteMetadataTmp, Truthful, Backed, KeptBy, FinishedBlocks
<1>9. CASE RemovePreviousMetadata
  <2>1. metadata' = NoMetadata
    BY <1>9 DEF RemovePreviousMetadata, RemoveMetadata
  <2> QED
    BY <1>1, <1>2, <1>9, <2>1, MetadataTyped
       DEF RemovePreviousMetadata, Truthful, Describes, OnStableStorage, FinishedBlocks
<1>10. CASE RenameMetadata
  <2>1. ASSUME metadata'.is = "saved" PROVE Backed(metadata)' /\ KeptBy(metadata)'
    <3>1. Describes(metadata_tmp) /\ OnStableStorage(metadata_tmp)
      BY <1>2, <1>10, <2>1 DEF RenameMetadata, Truthful
    <3>2. \A b \in FinishedBlocks(metadata_tmp.bitmap) : temp.content[b] = version
      BY <1>3, <3>1 DEF Describes, FinishedBlocks
    <3> QED
      BY <1>1, <1>10, <3>1, <3>2
         DEF RenameMetadata, Describes, OnStableStorage, Backed, KeptBy, FinishedBlocks
  <2> QED
    BY <1>1, <1>2, <1>10, <2>1 DEF RenameMetadata, Truthful, FinishedBlocks
<1> QED
  BY <1>4, <1>5, <1>6, <1>7, <1>8, <1>9, <1>10
     DEF FlushTask, FlushFails, OpenMetadataTmpFails, RenameMetadataFails

\* What metadata vouches for on stable storage comes out of a power failure.
LEMMA PowerFailureTruthful ==
  ASSUME TypeOK, DiskTruthful, PowerFails
  PROVE  DiskTruthful'
<1> SUFFICES ASSUME ~stale, temp'.is = "present", metadata'.is = "saved"
             PROVE  Backed(metadata)'
  BY DEF DiskTruthful, PowerFails
<1>1. metadata' = metadata
  BY MetadataTyped DEF PowerFails, MetadataAfterPowerFailure
<1>2. temp \in Files
  BY DEF PowerFails, AfterPowerFailure, NoFile, TypeOK
<1>3. temp.is = "present"
  BY <1>2, FilesTyped
<1>4. PICK kept \in SUBSET Pieces :
        temp' = FileOf([p \in Pieces |-> IF p \in kept THEN temp.content[p] ELSE temp.durable[p]])
  BY <1>3 DEF PowerFails, AfterPowerFailure
<1>5. \A b \in Pieces : /\ temp'.content[b] \in {temp.content[b], temp.durable[b]}
                        /\ temp'.durable[b] = temp'.content[b]
  BY <1>4 DEF FileOf
<1>6. Backed(metadata)
  BY <1>1, <1>3 DEF DiskTruthful
<1> QED
  BY <1>1, <1>5, <1>6 DEF Backed, FinishedBlocks, Pieces

LEMMA FinalizeTruthful ==
  TypeOK /\ PhasesInOrder /\ (~exposed => Truthful) /\ (Finalize \/ Environment)
    => (~exposed' => Truthful')
<1> SUFFICES ASSUME TypeOK, PhasesInOrder, ~exposed => Truthful, Finalize \/ Environment,
                    ~exposed'
             PROVE  Truthful'
  OBVIOUS
<1> USE DEF Proceed, taskVars, diskVars
<1>1. Truthful
  BY DEF Finalize, Environment, FinalizeFlushes, WithdrawOutput, PromotePart, FinalizeFails,
         RunSucceeds, RemoteChanges, DownloadFails, DownloadEndsIncomplete, ProcessCrashes,
         PowerFails, RunFails, TypeOK
<1>2. DiskTruthful
  BY <1>1 DEF Truthful, DiskTruthful
<1>3. CASE FinalizeFlushes
  <2>1. temp \in Files
    BY <1>3, FilesTyped DEF FinalizeFlushes, PhasesInOrder, TypeOK
  <2>2. temp'.is = temp.is /\ temp'.content = temp.content /\ temp'.durable = temp.content
    BY <1>3, <2>1 DEF FinalizeFlushes, Flushed, Files
  <2>3. ASSUME ~stale, metadata.is = "saved" PROVE Backed(metadata)'
    BY <1>2, <1>3, <2>1, <2>2, <2>3, FilesTyped DEF FinalizeFlushes, DiskTruthful, Backed
  <2> QED
    BY <1>1, <1>3, <2>2, <2>3 DEF FinalizeFlushes, Truthful, FinishedBlocks, PhasesInOrder
<1>4. CASE WithdrawOutput
  BY <1>1, <1>4 DEF WithdrawOutput, Truthful, FinishedBlocks, PhasesInOrder, Backed
<1>5. CASE PromotePart
  BY <1>1, <1>5 DEF PromotePart, NoFile, Truthful, PhasesInOrder
<1>6. CASE FinalizeFails
  BY <1>1, <1>6, RunFailsTruthful DEF FinalizeFails
<1>7. CASE RunSucceeds
  <2>1. metadata'.is = "saved" => metadata' = metadata /\ (stale' <=> stale)
    BY <1>7, MetadataTyped DEF RunSucceeds, RemoveMetadata, TypeOK
  <2> QED
    BY <1>2, <1>7, <2>1, EndTruthful DEF RunSucceeds, DiskTruthful, Backed
<1>8. CASE RemoteChanges
  <2>1. phase = "off" /\ phase' = "off"
    BY <1>8 DEF RemoteChanges, processVars, TypeOK
  <2> QED
    BY <1>1, <1>8, <2>1 DEF RemoteChanges, processVars, Truthful, PhasesInOrder, Backed
<1>9. CASE DownloadFails
  BY <1>1, <1>9 DEF DownloadFails, Truthful, FinishedBlocks, Backed, KeptBy, Describes,
        OnStableStorage
<1>10. CASE DownloadEndsIncomplete \/ ProcessCrashes
  BY <1>1, <1>10, RunFailsTruthful DEF DownloadEndsIncomplete, ProcessCrashes
<1>11. CASE PowerFails
  BY <1>2, <1>11, PowerFailureTruthful, EndTruthful DEF PowerFails
<1> QED
  BY <1>3, <1>4, <1>5, <1>6, <1>7, <1>8, <1>9, <1>10, <1>11 DEF Finalize, Environment

-----------------------------------------------------------------------------
(***************************************************************************)
(* The theorems.                                                           *)
(***************************************************************************)
LEMMA InitTruthful == Init => Truthful
BY DEF Init, Truthful, NoMetadata

LEMMA NextTruthful ==
  TypeOK /\ PhasesInOrder /\ (~exposed => Truthful) /\ [Next]_vars => (~exposed' => Truthful')
<1>1. (~exposed => Truthful) /\ UNCHANGED vars => (~exposed' => Truthful')
  BY DEF vars, processVars, taskVars, diskVars, Truthful, FinishedBlocks, Backed, KeptBy,
         Describes, OnStableStorage
<1> QED
  BY <1>1, PrepareTruthful, DownloadTruthful, FlushTruthful, FinalizeTruthful DEF Next

\* Files, phases and, as long as nothing happened that the program cannot notice, what
\* the metadata, the bitmap and the flush task say of the .part file.
THEOREM RecoveryInvariant == Spec => []IInv
<1>1. Init => IInv
  BY InitTyped, InitInOrder, InitTruthful DEF IInv
<1>2. IInv /\ [Next]_vars => IInv'
  BY NextTyped, NextInOrder, NextTruthful DEF IInv
<1> QED
  BY <1>1, <1>2, PTL DEF Spec

\* The variables keep their types.
COROLLARY RecoveryTypeCorrect == Spec => []TypeOK
<1>1. IInv => TypeOK
  BY DEF IInv
<1> QED
  BY <1>1, RecoveryInvariant, PTL

\* After a crash at any moment the metadata a run finds is backed by the .part file it
\* finds, up to the file's tail.
COROLLARY MetadataCorrect == Spec => []MetadataBacksUnits
<1>1. IInv => MetadataBacksUnits
  BY DEF IInv, Truthful, MetadataBacksUnits
<1> QED
  BY <1>1, RecoveryInvariant, PTL

\* Blocks that are not downloaded again are of the version the run asked for, to the
\* last whole unit of the file.
COROLLARY ResumeCorrect == Spec => []FinishedUnitsAreCurrent
<1>1. IInv => FinishedUnitsAreCurrent
  BY DEF IInv, Truthful, FinishedUnitsAreCurrent
<1> QED
  BY <1>1, RecoveryInvariant, PTL

-----------------------------------------------------------------------------
(***************************************************************************)
(* The refinement.                                                         *)
(***************************************************************************)
LEMMA FileIsThere == \A content : FileOf(content) # NoFile
<1>1. \A content : FileOf(content).is = "present" /\ NoFile.is = "absent"
  BY DEF FileOf, NoFile
<1> QED
  BY <1>1


LEMMA PromiseInit == Init => Promise!Init
<1> SUFFICES ASSUME Init PROVE Promise!Init
  OBVIOUS
<1>1. output \in OutputContents
  BY DEF Init, OutputContents, OldFile, Contents
<1> QED
  BY <1>1 DEF Init, Promise!Init, WholeFiles

\* Only the phase, the probe's version, the output and what counts as exposure matter.
LEMMA Stutters ==
  ASSUME UNCHANGED <<remote, version, output, exposed>>, phase # "off", phase' # "off"
  PROVE  UNCHANGED Promise!vars
BY DEF Promise!vars

LEMMA EndLeaves ==
  ASSUME ProcessEnds, UNCHANGED <<remote, output, exposed>>
  PROVE  Promise!Next
BY DEF ProcessEnds, Promise!Next, Promise!Leave

LEMMA PromiseStep == IInv /\ [Next]_vars => [Promise!Next]_Promise!vars
<1> SUFFICES ASSUME IInv, [Next]_vars PROVE Promise!Next \/ UNCHANGED Promise!vars
  OBVIOUS
<1> USE DEF Proceed, taskVars, diskVars, TaskUnchanged, TaskStep, InTask
<1>1. CASE UNCHANGED vars
  BY <1>1 DEF vars, processVars, Promise!vars
<1>2. CASE Start
  BY <1>2 DEF Start, StartRun, Promise!Next, Promise!Ask
<1>3. ASSUME RunFails PROVE Promise!Next
  BY <1>3, EndLeaves DEF RunFails
<1>4. CASE OpenResumed
  <2>1. phase # "off" /\ phase' # "off"
    BY <1>4 DEF OpenResumed
  <2>2. CASE exposed' = exposed
    BY <1>4, <2>1, <2>2, Stutters DEF OpenResumed
  <2>3. CASE exposed' # exposed
    <3>1. ~exposed' = FALSE
      BY <1>4, <2>3 DEF OpenResumed, IInv, TypeOK
    <3> QED
      BY <1>4, <2>1, <3>1, FileIsThere DEF OpenResumed, Promise!Next, Promise!LoseTrust
  <2> QED
    BY <2>2, <2>3
<1>5. CASE LoadMetadata \/ OpenFresh \/ ValidateResumed \/ RemoveOldMetadata
  BY <1>5, Stutters
     DEF LoadMetadata, OpenFresh, ReplacePart, ValidateResumed, Ready, RemoveOldMetadata
<1>6. CASE LoadFails \/ ReadFails \/ PreallocateFails \/ OpenFails
  BY <1>3, <1>6, EndLeaves DEF LoadFails, ReadFails, PreallocateFails, ReplacePart, OpenFails
<1>7. CASE Download
  BY <1>7, Stutters DEF Download, BeginBlock, FinishBlock, FlushTail, Persists
<1>8. CASE SubmitFlush \/ FlushTask
  BY <1>8, Stutters DEF SubmitFlush, FlushTask, FlushFile, FlushFails, BuildCrcSamples,
        WriteMetadataTmp, OpenMetadataTmpFails, RemovePreviousMetadata, RenameMetadata,
        RenameMetadataFails, TaskFails
<1>9. CASE DownloadEnds
  BY <1>9, Stutters, EndLeaves DEF DownloadEnds
<1>10. CASE FinalizeFlushes \/ DownloadFails
  BY <1>10, Stutters DEF FinalizeFlushes, DownloadFails
<1>11. CASE WithdrawOutput
  <2>1. phase # "off" /\ phase' # "off"
    BY <1>11 DEF WithdrawOutput
  <2>2. CASE output' = output
    BY <1>11, <2>1, <2>2, Stutters DEF WithdrawOutput
  <2>3. CASE output' = NoFile
    BY <1>11, <2>1, <2>3, FileIsThere DEF WithdrawOutput, Promise!Next, Promise!Withdraw
  <2> QED
    BY <1>11, <2>2, <2>3 DEF WithdrawOutput
<1>12. CASE PromotePart
  <2>1. temp \in Files /\ temp = FileOf(temp.content) /\ FinishedBlocks(bitmap) = Blocks
    BY <1>12, FilesTyped DEF PromotePart, IInv, PhasesInOrder, TypeOK
  <2>2. temp.content \in [Pieces -> Contents]
    BY <2>1 DEF Files
  <2>3. output' \in OutputContents
    BY <1>12, <2>1, <2>2 DEF PromotePart, OutputContents
  <2>4. ASSUME ~exposed PROVE output' \in AllButTail[FileOf(Whole(version))]
    <3>1. \A b \in Blocks : temp.content[b] = version
      BY <1>12, <2>1, <2>4 DEF PromotePart, IInv, Truthful
    <3>2. \A b \in Blocks : FileOf(Whole(version)).content[b] = version
      BY DEF FileOf, Whole, Pieces
    <3>3. FileOf(Whole(version)) \in WholeFiles
      BY DEF WholeFiles, IInv, TypeOK
    <3> QED
      BY <1>12, <2>1, <2>2, <3>1, <3>2, <3>3 DEF PromotePart, AllButTail
  <2> QED
    BY <1>12, <2>3, <2>4, FileIsThere DEF PromotePart, Promise!Next, Promise!Publish
<1>13. CASE FinalizeFails \/ RunSucceeds \/ DownloadEndsIncomplete
  BY <1>3, <1>13, EndLeaves DEF FinalizeFails, RunSucceeds, DownloadEndsIncomplete
<1>14. CASE RemoteChanges
  <2>1. FileOf(Whole(remote')) \in WholeFiles
    BY <1>14 DEF RemoteChanges, WholeFiles
  <2>2. (~exposed)' \in {~exposed, FALSE} /\ (phase = "off" => (~exposed)' = (~exposed))
    <3>1. CASE phase = "off"
      <4>1. exposed' = exposed
        BY <1>14, <3>1 DEF RemoteChanges, IInv, TypeOK
      <4>2. (~exposed)' = (~exposed)
        BY <4>1
      <4> QED
        BY <4>2, Zenon
    <3>2. CASE phase # "off"
      <4>1. exposed' = TRUE
        BY <1>14, <3>2 DEF RemoteChanges, IInv, TypeOK
      <4>2. (~exposed)' = FALSE
        BY <4>1
      <4> QED
        BY <3>2, <4>2, Zenon
    <3> QED
      BY <3>1, <3>2
  <2> QED
    BY <1>14, <2>1, <2>2, FileIsThere
       DEF RemoteChanges, processVars, Promise!Next, Promise!RemoteChanges
<1>15. CASE ProcessCrashes \/ PowerFails
  BY <1>3, <1>15, EndLeaves, OutputKept DEF ProcessCrashes, PowerFails, IInv
<1> QED
  BY <1>1, <1>2, <1>4, <1>5, <1>6, <1>7, <1>8, <1>9, <1>10, <1>11, <1>12, <1>13, <1>14, <1>15
     DEF Next, Prepare, Finalize, Environment

\* Whatever crashes and fails, what is found under the output path is what was there, or
\* nothing, or the version that the run that published it asked for, all of it if the
\* file ends on a unit of io_alignment, and else up to its last whole unit.
THEOREM PromiseKept == Spec => KeepsPromise
BY PromiseInit, PromiseStep, RecoveryInvariant, PTL DEF Spec, KeepsPromise, Promise!Spec
=============================================================================
