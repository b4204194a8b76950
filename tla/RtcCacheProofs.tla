---------------------------- MODULE RtcCacheProofs ----------------------------
(***************************************************************************)
(* What a reset loads from RTC memory, and what happens to a sample that   *)
(* was accepted, for every size of the buffer and every number of samples, *)
(* files and resets.                                                       *)
(*                                                                         *)
(* None of these is inductive. RestIsRecoverable needs what is true        *)
(* between the two writes of a save, LoadedIsGenuine that what the         *)
(* checksum stands for was genuine when it was computed, NoSampleForgotten *)
(* that a file ends with the buffer when that is emptied, and              *)
(* LossNeedsTornSave that what is in RTC memory before a save makes up,    *)
(* together with the files, for what is in the buffer. OlderIsRepeated     *)
(* needs that the sample a repetition repeats is in the same file as the   *)
(* newer one, since other files may be removed, and that what a reset      *)
(* would load comes after the files as the buffer does.                    *)
(***************************************************************************)
EXTENDS RtcCache, SequenceTheorems, WellFoundedInduction, TLAPS

\* The buffer and RTC memory; the files do not matter here.
MemoryType ==
    /\ buf \in Buffers /\ pos \in 0..Cap
    /\ meta \in Metadata
    /\ data \in Buffers
    /\ step \in Steps
    /\ sample \in 0..MaxSamples
    /\ step = "store" => pos < Cap

LEMMA EmptyIsBuffer == Empty \in Buffers
BY DEF Empty, Buffers, Cells

LEMMA InitMemory == Init => MemoryType
<1> SUFFICES ASSUME Init PROVE MemoryType
  OBVIOUS
<1>1. Empty \in Buffers
  BY EmptyIsBuffer
<1>2. [i \in 1..Cap |-> Junk] \in Buffers
  BY DEF Buffers, Cells
<1>3. NoMeta \in Metadata
  BY <1>1, RtcCacheAssumption DEF NoMeta, Metadata
<1> QED
  BY <1>1, <1>2, <1>3, RtcCacheAssumption DEF Init, MemoryType, Steps

\* The actions that only deal with files: at most step changes.
FileAction ==
    /\ UNCHANGED <<buf, pos, meta, data, cells, sample, settled>>
    /\ \/ step \in {"flush", "file"} /\ step' \in {"idle", "file", "clear"}
       \/ UNCHANGED step

LEMMA FileActions ==
    Flush \/ FlushFails \/ WriteFile \/ WriteFileFails \/ DeleteCache
        => FileAction
BY DEF Flush, FlushFails, WriteFile, WriteFileFails, DeleteCache, FileAction

\* What is common to Reset and PowerFailure.
LEMMA Restarted ==
    ASSUME NEW taken, Restart(taken), MemoryType,
           meta' \in Metadata, data' \in Buffers
    PROVE  /\ buf' = LoadedBuffer(meta', data')
           /\ pos' = LoadedPos(meta', data')
           /\ step' = "idle" /\ sample' = sample
           /\ MemoryType'
<1>1. /\ buf' = LoadedBuffer(meta', data') /\ pos' = LoadedPos(meta', data')
      /\ step' = "idle" /\ sample' = sample
  BY DEF Restart
<1>2. buf' \in Buffers
  BY <1>1, EmptyIsBuffer DEF LoadedBuffer
<1>3. pos' \in 0..Cap
  BY <1>1, RtcCacheAssumption DEF LoadedPos, Metadata
<1> QED
  BY <1>1, <1>2, <1>3 DEF MemoryType, Steps

LEMMA PowerFailureMemory ==
    PowerFailure => meta' = NoMeta /\ meta' \in Metadata /\ data' \in Buffers
<1> SUFFICES ASSUME PowerFailure
             PROVE  meta' = NoMeta /\ meta' \in Metadata /\ data' \in Buffers
  OBVIOUS
<1>1. NoMeta \in Metadata
  BY EmptyIsBuffer, RtcCacheAssumption DEF NoMeta, Metadata
<1>2. [i \in 1..Cap |-> Junk] \in Buffers
  BY DEF Buffers, Cells
<1> QED
  BY <1>1, <1>2, EmptyIsBuffer DEF PowerFailure

LEMMA MemoryStep == MemoryType /\ [Next]_vars => MemoryType'
<1> SUFFICES ASSUME MemoryType, [Next]_vars PROVE MemoryType'
  OBVIOUS
<1> USE RtcCacheAssumption
<1>1. CASE Write
  BY <1>1 DEF Write, MemoryType, Steps
<1>2. CASE Store
  <2>1. sample \in Cells
    BY DEF MemoryType, Cells, SampleIds, Zero
  <2>2. buf' \in Buffers
    BY <1>2, <2>1 DEF Store, MemoryType, Buffers
  <2> QED
    BY <1>2, <2>2 DEF Store, MemoryType, Steps
<1>3. CASE SaveMeta
  <2>1. meta' \in Metadata
    BY <1>3 DEF SaveMeta, MemoryType, Metadata
  <2> QED
    BY <1>3, <2>1 DEF SaveMeta, MemoryType, Steps
<1>4. CASE SaveData
  <2>1. data' \in Buffers
    BY <1>4 DEF SaveData, SavedData, MemoryType, Buffers
  <2>2. step' \in Steps /\ (step' = "store" => pos < Cap)
    BY <1>4 DEF SaveData, MemoryType, Steps
  <2> QED
    BY <1>4, <2>1, <2>2 DEF SaveData, MemoryType
<1>5. CASE FileAction
  BY <1>5 DEF FileAction, MemoryType, Steps
<1>6. CASE Clear
  BY <1>6, EmptyIsBuffer DEF Clear, MemoryType, Steps
<1>7. CASE Reset
  <2>1. Restart({}) /\ meta' \in Metadata /\ data' \in Buffers
    BY <1>7 DEF Reset, MemoryType
  <2> QED
    BY <2>1, Restarted
<1>8. CASE PowerFailure
  <2>1. PICK taken : Restart(taken)
    BY <1>8 DEF PowerFailure
  <2> QED
    BY <1>8, <2>1, PowerFailureMemory, Restarted
<1>9. CASE UNCHANGED vars
  BY <1>9 DEF vars, MemoryType
<1> QED
  BY <1>1, <1>2, <1>3, <1>4, <1>5, <1>6, <1>7, <1>8, <1>9, FileActions DEF Next

LEMMA MemoryTyped == Spec => []MemoryType
BY InitMemory, MemoryStep, PTL DEF Spec

-----------------------------------------------------------------------------
\* What a reset between two calls of write() loads

\* RTC memory beside the buffer, at each step: between the two writes of a save
\* the metadata is ahead of the data by the cells that are to be saved.
Consistent ==
    /\ step = "data" => meta = [valid |-> TRUE, sum |-> buf, pos |-> pos]
    /\ settled =>
         /\ step \in {"meta", "data"} =>
              \A i \in (1..Cap) \ cells : data[i] = buf[i]
         /\ step \notin {"meta", "data"} =>
              data = buf /\ LoadedPos(meta, data) = pos

LEMMA SavedIsBuffer ==
    ASSUME MemoryType, SaveData, Consistent, settled'
    PROVE  data' = buf
<1>1. \A i \in 1..Cap : data'[i] = buf[i]
  BY DEF SaveData, SavedData, Consistent
<1>2. data' = [i \in 1..Cap |-> IF i \in cells THEN buf[i] ELSE data[i]]
  BY DEF SaveData, SavedData
<1> QED
  BY <1>1, <1>2 DEF MemoryType, Buffers

LEMMA ConsistentStep ==
    MemoryType /\ Consistent /\ [Next]_vars => Consistent'
<1> SUFFICES ASSUME MemoryType, Consistent, [Next]_vars PROVE Consistent'
  OBVIOUS
<1>1. CASE Write
  BY <1>1 DEF Write, Consistent, LoadedPos, Loads
<1>2. CASE Store
  <2>1. settled => data = buf
    BY <1>2 DEF Store, Consistent
  <2>2. \A i \in (1..Cap) \ cells' : buf'[i] = buf[i]
    BY <1>2 DEF Store, MemoryType, Buffers
  <2> QED
    BY <1>2, <2>1, <2>2 DEF Store, Consistent
<1>3. CASE SaveMeta
  BY <1>3 DEF SaveMeta, Consistent
<1>4. CASE SaveData
  <2>1. meta = [valid |-> TRUE, sum |-> buf, pos |-> pos]
    BY <1>4 DEF SaveData, Consistent
  <2>2. /\ UNCHANGED <<buf, pos, meta>>
        /\ step' \in {"store", "idle"}
    BY <1>4 DEF SaveData
  <2>3. settled' => data' = buf
    BY <1>4, SavedIsBuffer
  <2>4. settled' => LoadedPos(meta', data') = pos'
    BY <2>1, <2>2, <2>3 DEF LoadedPos, Loads
  <2> QED
    BY <2>2, <2>3, <2>4 DEF Consistent
<1>5. CASE FileAction
  BY <1>5 DEF FileAction, Consistent, LoadedPos, Loads
<1>6. CASE Clear
  BY <1>6 DEF Clear, Consistent
<1>7. CASE Reset
  <2>1. /\ Restart({}) /\ UNCHANGED <<meta, data>>
        /\ settled' = meta.valid
    BY <1>7 DEF Reset
  <2>2. /\ buf' = LoadedBuffer(meta', data') /\ pos' = LoadedPos(meta', data')
        /\ step' = "idle"
    BY <2>1, Restarted DEF MemoryType
  <2> QED
    BY <2>1, <2>2 DEF Consistent, LoadedBuffer
<1>8. CASE PowerFailure
  <2>1. PICK taken : Restart(taken)
    BY <1>8 DEF PowerFailure
  <2>2. step' = "idle"
    BY <1>8, <2>1, PowerFailureMemory, Restarted
  <2>3. settled' = FALSE
    BY <1>8 DEF PowerFailure
  <2> QED
    BY <2>2, <2>3 DEF Consistent
<1>9. CASE UNCHANGED vars
  BY <1>9 DEF vars, Consistent, LoadedPos, Loads
<1> QED
  BY <1>1, <1>2, <1>3, <1>4, <1>5, <1>6, <1>7, <1>8, <1>9, FileActions DEF Next

LEMMA ConsistentAtRest == MemoryType /\ Consistent => RestIsRecoverable
BY DEF MemoryType, Consistent, RestIsRecoverable, LoadedPos, LoadedBuffer, Loads

\* A reset between two calls of write() (the constructor, after any history of
\* saves, flushes, errors, resets and power failures) loads just what was in the
\* buffer, once all cells were saved since the power came on.
THEOREM RestRecovered == Spec => []RestIsRecoverable
<1>1. Init => Consistent
  BY DEF Init, Consistent
<1>2. MemoryType /\ Consistent /\ [Next]_vars => Consistent'
  BY ConsistentStep
<1> QED
  BY <1>1, <1>2, MemoryTyped, ConsistentAtRest, PTL DEF Spec

-----------------------------------------------------------------------------
\* What any reset loads

\* The first p cells of b hold samples up to the n-th, in the order they came.
Genuine(b, p, n) ==
    \A i \in 1..p : b[i] \in 1..n /\ \A j \in 1..(i - 1) : b[j] < b[i]

\* What a checksum was computed of was genuine, and so is the buffer; the sample
\* that is about to be stored is newer than what is in the buffer.
GenuineInv ==
    /\ Genuine(buf, pos, sample)
    /\ step = "store" => Genuine(buf, pos, sample - 1) /\ sample > 0
    /\ step = "flush" => sample > 0
    /\ pos = 0 /\ step \in {"meta", "data"} => sample > 0
    /\ step \in {"file", "clear"} => sample > 0
    /\ meta.valid => Genuine(meta.sum, meta.pos, sample)

LEMMA GenuineOfMore ==
    ASSUME NEW b, NEW p \in Nat, NEW n \in Nat, Genuine(b, p, n)
    PROVE  Genuine(b, p, n + 1)
BY DEF Genuine

LEMMA GenuineEmpty == \A b, n : Genuine(b, 0, n)
BY DEF Genuine

LEMMA GenuineLoaded ==
    ASSUME MemoryType, GenuineInv
    PROVE  Genuine(data, LoadedPos(meta, data), sample)
BY GenuineEmpty DEF GenuineInv, LoadedPos, Loads

LEMMA GenuineStep == MemoryType /\ GenuineInv /\ [Next]_vars => GenuineInv'
<1> SUFFICES ASSUME MemoryType, GenuineInv, [Next]_vars PROVE GenuineInv'
  OBVIOUS
<1>1. CASE Write
  <2>1. /\ UNCHANGED <<buf, pos, meta>> /\ sample' = sample + 1
        /\ step' \in {"store", "flush"}
    BY <1>1 DEF Write
  <2>2. Genuine(buf, pos, sample + 1)
    BY GenuineOfMore DEF MemoryType, GenuineInv
  <2>3. meta.valid => Genuine(meta.sum, meta.pos, sample + 1)
    BY GenuineOfMore DEF MemoryType, GenuineInv, Metadata
  <2>4. sample' > 0 /\ sample' - 1 = sample
    BY <2>1 DEF MemoryType
  <2> QED
    BY <2>1, <2>2, <2>3, <2>4 DEF GenuineInv
<1>2. CASE Store
  <2>1. /\ UNCHANGED <<meta, sample>> /\ pos' = pos + 1 /\ step' = "meta"
        /\ buf' = [buf EXCEPT ![pos + 1] = sample] /\ step = "store"
    BY <1>2 DEF Store
  <2>2. Genuine(buf, pos, sample - 1) /\ sample > 0 /\ pos < Cap
    BY <2>1 DEF GenuineInv, MemoryType
  <2>3. Genuine(buf', pos + 1, sample)
    <3>1. \A i \in 1..pos : buf'[i] = buf[i]
      BY <2>1, <2>2, RtcCacheAssumption DEF MemoryType, Buffers
    <3>2. buf'[pos + 1] = sample
      BY <2>1, <2>2, RtcCacheAssumption DEF MemoryType, Buffers
    <3> QED
      BY <2>2, <3>1, <3>2, RtcCacheAssumption DEF MemoryType, Genuine
  <2>4. pos' # 0
    BY <2>1, RtcCacheAssumption DEF MemoryType
  <2> QED
    BY <2>1, <2>3, <2>4 DEF GenuineInv
<1>3. CASE SaveMeta
  BY <1>3 DEF SaveMeta, GenuineInv
<1>4. CASE SaveData
  <2>1. /\ UNCHANGED <<buf, pos, meta, sample>>
        /\ step = "data" /\ step' \in {"store", "idle"}
        /\ step' = "store" => pos = 0
    BY <1>4 DEF SaveData
  <2> QED
    BY <2>1, GenuineEmpty DEF GenuineInv
<1>5. CASE FileAction
  BY <1>5 DEF FileAction, GenuineInv
<1>6. CASE Clear
  BY <1>6, GenuineEmpty DEF Clear, GenuineInv
<1>7. CASE Reset
  <2>1. Restart({}) /\ UNCHANGED <<meta, data>>
    BY <1>7 DEF Reset
  <2>2. /\ buf' = LoadedBuffer(meta, data) /\ pos' = LoadedPos(meta, data)
        /\ step' = "idle" /\ sample' = sample
    BY <2>1, Restarted DEF MemoryType
  <2>3. pos' = 0 \/ buf' = data
    BY <2>2 DEF LoadedPos, LoadedBuffer, Loads
  <2>4. Genuine(buf', pos', sample)
    BY <2>2, <2>3, GenuineLoaded, GenuineEmpty
  <2> QED
    BY <2>1, <2>2, <2>4 DEF GenuineInv
<1>8. CASE PowerFailure
  <2>1. PICK taken : Restart(taken)
    BY <1>8 DEF PowerFailure
  <2>2. /\ pos' = LoadedPos(meta', data') /\ step' = "idle" /\ meta' = NoMeta
    BY <1>8, <2>1, PowerFailureMemory, Restarted
  <2>3. pos' = 0 /\ ~meta'.valid
    BY <2>2 DEF LoadedPos, Loads, NoMeta
  <2> QED
    BY <2>2, <2>3, GenuineEmpty DEF GenuineInv
<1>9. CASE UNCHANGED vars
  BY <1>9 DEF vars, GenuineInv
<1> QED
  BY <1>1, <1>2, <1>3, <1>4, <1>5, <1>6, <1>7, <1>8, <1>9, FileActions DEF Next

LEMMA AlwaysGenuine == Spec => []GenuineInv
<1>1. Init => GenuineInv
  BY GenuineEmpty DEF Init, GenuineInv, NoMeta
<1>2. MemoryType /\ GenuineInv /\ [Next]_vars => GenuineInv'
  BY GenuineStep
<1> QED
  BY <1>1, <1>2, MemoryTyped, PTL DEF Spec

\* Whatever it interrupts, a reset loads a run of samples in the order in which
\* they were written, never what a half-done save or a power failure has left
\* (loadMetaData() and loadData()).
THEOREM LoadsGenuine == Spec => []LoadedIsGenuine
<1>1. MemoryType /\ GenuineInv => LoadedIsGenuine
  BY GenuineLoaded DEF LoadedIsGenuine, Genuine
<1> QED
  BY <1>1, MemoryTyped, AlwaysGenuine, PTL

-----------------------------------------------------------------------------
\* What happens to an accepted sample

FileMaps == UNION {[D -> Seq(SampleIds)] : D \in SUBSET FileNrs}

\* The last file that was written ends with what is in the buffer.
EndsWithBuffer ==
    /\ fw \in DOMAIN files
    /\ Len(files[fw]) >= pos
    /\ \A i \in 1..pos : files[fw][Len(files[fw]) - pos + i] = buf[i]

KeptInv ==
    /\ files \in FileMaps
    /\ step = "clear" => EndsWithBuffer
    /\ step \in {"meta", "data"} /\ pos # 0 => buf[pos] = sample
    /\ NoSampleForgotten

LEMMA InFilesMeans ==
    ASSUME NEW fs, NEW s
    PROVE  s \in InFiles(fs) <=>
             \E n \in DOMAIN fs : \E i \in 1..Len(fs[n]) : s = fs[n][i]
<1> DEFINE Of(n) == {fs[n][i] : i \in 1..Len(fs[n])}
<1>1. InFiles(fs) = UNION {Of(n) : n \in DOMAIN fs}
  BY Zenon DEF InFiles
<1>2. \A n \in DOMAIN fs : s \in Of(n) <=> \E i \in 1..Len(fs[n]) : s = fs[n][i]
  OBVIOUS
<1> HIDE DEF Of
<1> QED
  BY <1>1, <1>2, SMT

LEMMA FileMapMeans ==
    ASSUME NEW fs
    PROVE  fs \in FileMaps <=>
             /\ fs = [n \in DOMAIN fs |-> fs[n]]
             /\ DOMAIN fs \subseteq FileNrs
             /\ \A n \in DOMAIN fs : fs[n] \in Seq(SampleIds)
<1>1. ASSUME fs \in FileMaps
      PROVE  /\ fs = [n \in DOMAIN fs |-> fs[n]]
             /\ DOMAIN fs \subseteq FileNrs
             /\ \A n \in DOMAIN fs : fs[n] \in Seq(SampleIds)
  <2>1. PICK D \in SUBSET FileNrs : fs \in [D -> Seq(SampleIds)]
    BY <1>1 DEF FileMaps
  <2> QED
    BY <2>1
<1>2. ASSUME /\ fs = [n \in DOMAIN fs |-> fs[n]]
             /\ DOMAIN fs \subseteq FileNrs
             /\ \A n \in DOMAIN fs : fs[n] \in Seq(SampleIds)
      PROVE  fs \in FileMaps
  <2>1. fs \in [DOMAIN fs -> Seq(SampleIds)]
    BY <1>2
  <2> QED
    BY <1>2, <2>1 DEF FileMaps
<1> QED
  BY <1>1, <1>2

LEMMA FilesWithout ==
    ASSUME NEW fs \in FileMaps, NEW D
    PROVE  Without(fs, D) \in FileMaps
BY FileMapMeans DEF Without

LEMMA FilesOpened ==
    ASSUME NEW fs \in FileMaps, NEW n, Open(fs, n)
    PROVE  /\ files' \in FileMaps
           /\ InFiles(fs) \subseteq InFiles(files')
<1>1. /\ DOMAIN files' = DOMAIN fs \cup {n}
      /\ \A m \in DOMAIN fs : files'[m] = fs[m]
      /\ files' = [m \in DOMAIN fs \cup {n} |->
                     IF m \in DOMAIN fs THEN fs[m] ELSE <<>>]
      /\ n \in FileNrs
  BY DEF Open
<1>2. files' \in FileMaps
  <2>1. <<>> \in Seq(SampleIds)
    OBVIOUS
  <2> QED
    BY <1>1, <2>1, FileMapMeans
<1>3. ASSUME NEW s \in InFiles(fs) PROVE s \in InFiles(files')
  <2>1. PICK m \in DOMAIN fs : \E i \in 1..Len(fs[m]) : s = fs[m][i]
    BY <1>3, InFilesMeans
  <2>2. m \in DOMAIN files' /\ files'[m] = fs[m]
    BY <1>1
  <2> QED
    BY <2>1, <2>2, InFilesMeans
<1> QED
  BY <1>2, <1>3

\* flush() has appended the first k samples of the buffer.
LEMMA FilesAppended ==
    ASSUME files \in FileMaps, buf \in Buffers, NEW k \in 0..Cap,
           \A i \in 1..k : buf[i] \in SampleIds,
           fw \in DOMAIN files, files' = Appended(k)
    PROVE  /\ files' \in FileMaps
           /\ InFiles(files) \subseteq InFiles(files')
           /\ fw \in DOMAIN files'
           /\ Len(files'[fw]) >= k
           /\ \A i \in 1..k : files'[fw][Len(files'[fw]) - k + i] = buf[i]
<1> DEFINE old == files[fw]
           part == SubSeq(buf, 1, k)
<1>1. old \in Seq(SampleIds) /\ fw \in FileNrs
  BY FileMapMeans
<1>2. /\ part \in Seq(SampleIds) /\ Len(part) = k
      /\ \A i \in 1..k : part[i] = buf[i]
  <2>1. 1 \in Int /\ k \in Int
    OBVIOUS
  <2>2. /\ SubSeq(buf, 1, k) \in Seq(SampleIds)
        /\ Len(SubSeq(buf, 1, k)) = IF 1 <= k THEN k - 1 + 1 ELSE 0
        /\ \A i \in 1..(k - 1 + 1) : SubSeq(buf, 1, k)[i] = buf[1 + i - 1]
    BY <2>1, SubSeqProperties
  <2> QED
    BY <2>2
<1>3. /\ files' = [files EXCEPT ![fw] = old \o part]
      /\ DOMAIN files' = DOMAIN files
      /\ files'[fw] = old \o part
      /\ \A n \in DOMAIN files \ {fw} : files'[n] = files[n]
  BY FileMapMeans DEF Appended
<1> HIDE DEF old, part
<1>4. /\ old \o part \in Seq(SampleIds)
      /\ Len(old \o part) = Len(old) + Len(part)
      /\ \A i \in 1..(Len(old) + Len(part)) :
           (old \o part)[i] = IF i <= Len(old) THEN old[i]
                                               ELSE part[i - Len(old)]
  BY <1>1, <1>2, ConcatProperties
<1>5. Len(old) \in Nat
  BY <1>1
<1>6. files' \in FileMaps
  <2>1. files' = [n \in DOMAIN files' |-> files'[n]]
    BY <1>3
  <2>2. \A n \in DOMAIN files' : files'[n] \in Seq(SampleIds)
    BY <1>3, <1>4, FileMapMeans
  <2>3. DOMAIN files' \subseteq FileNrs
    BY <1>3, FileMapMeans
  <2> QED
    BY <2>1, <2>2, <2>3, FileMapMeans, Zenon
<1>7. ASSUME NEW s \in InFiles(files) PROVE s \in InFiles(files')
  <2>1. PICK n \in DOMAIN files : \E i \in 1..Len(files[n]) : s = files[n][i]
    BY <1>7, InFilesMeans
  <2>2. PICK i \in 1..Len(files[n]) : s = files[n][i]
    BY <2>1
  <2>3. CASE n = fw
    <3>1. i \in 1..Len(old) /\ s = old[i]
      BY <2>2, <2>3 DEF old
    <3>2. i \in 1..Len(files'[fw]) /\ s = files'[fw][i]
      BY <1>2, <1>3, <1>4, <1>5, <3>1
    <3> QED
      BY <1>3, <3>2, InFilesMeans
  <2>4. CASE n # fw
    BY <1>3, <2>2, <2>4, InFilesMeans
  <2> QED
    BY <2>3, <2>4
<1>8. /\ Len(files'[fw]) = Len(old) + k
      /\ \A i \in 1..k : files'[fw][Len(old) + i] = buf[i]
  BY <1>2, <1>3, <1>4, <1>5
<1>9. /\ fw \in DOMAIN files' /\ Len(files'[fw]) >= k
      /\ Len(files'[fw]) - k = Len(old)
  BY <1>3, <1>5, <1>8
<1> QED
  BY <1>6, <1>7, <1>8, <1>9

\* What a reset takes from the end of a file that was not flushed is still in
\* the buffer.
LEMMA TruncatedFiles ==
    ASSUME files \in FileMaps, MemoryType, step = "clear" => EndsWithBuffer,
           NEW fs \in FilesAfterReset
    PROVE  /\ fs \in FileMaps
           /\ step # "clear" => fs = files
           /\ InFiles(files) \subseteq InFiles(fs) \cup InBuffer(buf, pos)
<1>1. CASE step # "clear"
  <2>1. fs = files
    BY <1>1 DEF FilesAfterReset
  <2> QED
    BY <1>1, <2>1
<1>2. CASE step = "clear"
  <2> DEFINE old == files[fw]
             n == Len(old)
  <2>1. PICK k \in 0..pos :
          fs = [files EXCEPT ![fw] = SubSeq(old, 1, n - k)]
    BY <1>2 DEF FilesAfterReset
  <2>2. fw \in DOMAIN files /\ old \in Seq(SampleIds)
    BY <1>2, FileMapMeans DEF EndsWithBuffer
  <2>3. /\ n \in Nat /\ n >= pos
        /\ \A i \in 1..n : old[i] \in SampleIds
        /\ \A i \in 1..pos : old[n - pos + i] = buf[i]
    BY <1>2, <2>2 DEF EndsWithBuffer
  <2>4. /\ DOMAIN fs = DOMAIN files
        /\ fs = [m \in DOMAIN fs |-> fs[m]]
        /\ fs[fw] = SubSeq(old, 1, n - k)
        /\ \A m \in DOMAIN files \ {fw} : fs[m] = files[m]
    BY <2>1, <2>2, FileMapMeans
  <2> HIDE DEF n, old
  <2>5. pos \in Nat /\ k \in Nat /\ k <= pos /\ n - k \in Nat
    BY <2>3, RtcCacheAssumption DEF MemoryType
  <2>6. /\ fs[fw] \in Seq(SampleIds) /\ Len(fs[fw]) = n - k
        /\ \A i \in 1..(n - k) : fs[fw][i] = old[i]
    <3>1. \A i \in 1..(n - k) : old[i] \in SampleIds
      BY <2>3, <2>5
    <3>2. /\ SubSeq(old, 1, n - k) \in Seq(SampleIds)
          /\ Len(SubSeq(old, 1, n - k)) =
                IF 1 <= n - k THEN n - k - 1 + 1 ELSE 0
          /\ \A i \in 1..(n - k - 1 + 1) :
                SubSeq(old, 1, n - k)[i] = old[1 + i - 1]
      BY <2>5, <3>1, SubSeqProperties
    <3> QED
      BY <2>4, <2>5, <3>2
  <2>7. fs \in FileMaps
    <3>1. \A m \in DOMAIN fs : fs[m] \in Seq(SampleIds)
      BY <2>4, <2>6, FileMapMeans
    <3>2. DOMAIN fs \subseteq FileNrs
      BY <2>4, FileMapMeans
    <3> QED
      BY <2>4, <3>1, <3>2, FileMapMeans, Zenon
  <2>8. ASSUME NEW s \in InFiles(files)
        PROVE  s \in InFiles(fs) \cup InBuffer(buf, pos)
    <3>1. PICK m \in DOMAIN files : \E i \in 1..Len(files[m]) : s = files[m][i]
      BY <2>8, InFilesMeans
    <3>2. PICK i \in 1..Len(files[m]) : s = files[m][i]
      BY <3>1
    <3>3. CASE m # fw
      BY <2>4, <3>2, <3>3, InFilesMeans
    <3>4. CASE m = fw /\ i <= n - k
      <4>1. i \in 1..(n - k) /\ s = old[i]
        BY <2>5, <3>2, <3>4 DEF old
      <4> QED
        BY <2>2, <2>4, <2>6, <4>1, InFilesMeans
    <3>5. CASE m = fw /\ ~(i <= n - k)
      <4>1. i \in Int /\ i <= n /\ s = old[i]
        BY <3>2, <3>5 DEF old, n
      <4>2. i - (n - pos) \in 1..pos
        BY <2>3, <2>5, <3>5, <4>1
      <4>3. old[n - pos + (i - (n - pos))] = buf[i - (n - pos)]
        BY <2>3, <4>2
      <4>4. n - pos + (i - (n - pos)) = i
        BY <2>3, <2>5, <4>1
      <4> QED
        BY <4>1, <4>2, <4>3, <4>4 DEF InBuffer
    <3> QED
      BY <3>3, <3>4, <3>5
  <2> QED
    BY <1>2, <2>7, <2>8
<1> QED
  BY <1>1, <1>2

\* Removing files, with or without opening another one.
LEMMA KeptWhenRemoved ==
    ASSUME NoSampleForgotten, NEW D, Remove(D),
           InFiles(Without(files, D)) \subseteq InFiles(files'),
           UNCHANGED <<buf, pos, accepted, lost>>
    PROVE  NoSampleForgotten'
<1>1. gone' = gone \cup ((InFiles(files) \ InFiles(Without(files, D)))
                            \ InBuffer(buf, pos))
  BY DEF Remove
<1>2. InBuffer(buf', pos') = InBuffer(buf, pos)
  OBVIOUS
<1>3. accepted' = accepted /\ lost' = lost
  OBVIOUS
<1> HIDE DEF InBuffer, InFiles, Without
<1> QED
  BY <1>1, <1>2, <1>3 DEF NoSampleForgotten

\* What opening a file at boot leaves of the files.
LEMMA FilesRestarted ==
    ASSUME NEW fs \in FileMaps, OpenAtBoot(fs)
    PROVE  files' \in FileMaps
<1>1. CASE files' = fs
  BY <1>1
<1>2. CASE \E D \in OldestFiles(fs) :
             \/ files' = Without(fs, D)
             \/ Open(Without(fs, D), NextFile(Without(fs, D)))
  <2>1. PICK D : \/ files' = Without(fs, D)
                 \/ Open(Without(fs, D), NextFile(Without(fs, D)))
    BY <1>2
  <2> QED
    BY <2>1, FilesWithout, FilesOpened
<1> QED
  BY <1>1, <1>2 DEF OpenAtBoot

LEMMA SamplesInBuffer ==
    ASSUME MemoryType, GenuineInv
    PROVE  \A i \in 1..pos : buf[i] \in SampleIds
BY RtcCacheAssumption DEF MemoryType, GenuineInv, Genuine, SampleIds

LEMMA KeptInit == Init => KeptInv
<1> SUFFICES ASSUME Init PROVE KeptInv
  OBVIOUS
<1>1. files \in FileMaps
  <2>1. <<>> \in Seq(SampleIds) /\ <<>> = [n \in {} |-> <<>>]
    OBVIOUS
  <2>2. {} \subseteq FileNrs /\ {1} \subseteq FileNrs
    BY RtcCacheAssumption DEF FileNrs
  <2>3. [n \in {} |-> <<>>] \in [{} -> Seq(SampleIds)]
    OBVIOUS
  <2>4. [n \in {1} |-> <<>>] \in [{1} -> Seq(SampleIds)]
    BY <2>1
  <2>5. files = [n \in {} |-> <<>>] \/ files = [n \in {1} |-> <<>>]
    BY <2>1 DEF Init
  <2> QED
    BY <2>2, <2>3, <2>4, <2>5 DEF FileMaps
<1> QED
  BY <1>1 DEF Init, KeptInv, NoSampleForgotten

LEMMA KeptStep ==
    MemoryType /\ GenuineInv /\ KeptInv /\ [Next]_vars => KeptInv'
<1> SUFFICES ASSUME MemoryType, GenuineInv, KeptInv, [Next]_vars PROVE KeptInv'
  OBVIOUS
<1>0. \A i \in 1..pos : buf[i] \in SampleIds
  BY SamplesInBuffer
<1>1. CASE Write
  BY <1>1 DEF Write, KeptInv, NoSampleForgotten
<1>2. CASE Store
  <2>1. /\ UNCHANGED <<files, accepted, gone, lost, sample>>
        /\ pos' = pos + 1 /\ step' = "meta" /\ step = "store"
        /\ buf' = [buf EXCEPT ![pos + 1] = sample]
    BY <1>2 DEF Store
  <2>2. pos \in Nat /\ pos + 1 \in 1..Cap
    BY <2>1, RtcCacheAssumption DEF MemoryType
  <2>3. /\ buf'[pos + 1] = sample
        /\ \A i \in 1..pos : buf'[i] = buf[i]
    BY <2>1, <2>2 DEF MemoryType, Buffers
  <2>4. InBuffer(buf, pos) \subseteq InBuffer(buf', pos')
    BY <2>1, <2>2, <2>3 DEF InBuffer
  <2>5. NoSampleForgotten'
    BY <2>1, <2>4 DEF KeptInv, NoSampleForgotten
  <2> QED
    BY <2>1, <2>3, <2>5 DEF KeptInv
<1>3. CASE SaveMeta
  BY <1>3 DEF SaveMeta, KeptInv, NoSampleForgotten
<1>4. CASE SaveData
  <2>1. /\ UNCHANGED <<buf, pos, files, gone, lost>>
        /\ step' \in {"store", "idle"} /\ step = "data"
        /\ \/ accepted' = accepted
           \/ pos # 0 /\ accepted' = accepted \cup {sample}
    BY <1>4 DEF SaveData
  <2>2. pos # 0 => sample \in InBuffer(buf, pos)
    <3> SUFFICES ASSUME pos # 0 PROVE sample \in InBuffer(buf, pos)
      OBVIOUS
    <3>1. pos \in 1..pos /\ buf[pos] = sample
      BY <2>1, RtcCacheAssumption DEF MemoryType, KeptInv
    <3> QED
      BY <3>1 DEF InBuffer
  <2>3. NoSampleForgotten'
    BY <2>1, <2>2 DEF KeptInv, NoSampleForgotten
  <2> QED
    BY <2>1, <2>3 DEF KeptInv
<1>5. CASE Flush
  <2>1. /\ step' = "file" /\ UNCHANGED <<buf, pos, accepted, lost>>
        /\ \/ UNCHANGED <<files, gone>>
           \/ \E D : /\ Remove(D)
                     /\ Open(Without(files, D), NextFile(Without(files, D)))
    BY <1>5 DEF Flush, PrepareFile, KeepOpen, OpenNext
  <2>2. CASE UNCHANGED <<files, gone>>
    BY <2>1, <2>2 DEF KeptInv, NoSampleForgotten
  <2>3. CASE \E D : /\ Remove(D)
                   /\ Open(Without(files, D), NextFile(Without(files, D)))
    <3>1. PICK D : /\ Remove(D)
                   /\ Open(Without(files, D), NextFile(Without(files, D)))
      BY <2>3
    <3>2. /\ files' \in FileMaps
          /\ InFiles(Without(files, D)) \subseteq InFiles(files')
      BY <3>1, FilesWithout, FilesOpened DEF KeptInv
    <3>3. NoSampleForgotten'
      BY <2>1, <3>1, <3>2, KeptWhenRemoved DEF KeptInv
    <3> QED
      BY <2>1, <3>2, <3>3 DEF KeptInv
  <2> QED
    BY <2>1, <2>2, <2>3
<1>6. CASE FlushFails \/ DeleteCache
  <2>1. PICK D : files' = Without(files, D) /\ Remove(D)
    BY <1>6 DEF FlushFails, PrepareFails, DeleteCache
  <2>2. step' = "idle" /\ UNCHANGED <<buf, pos, accepted, lost>>
    BY <1>6 DEF FlushFails, DeleteCache
  <2>3. files' \in FileMaps
    BY <2>1, FilesWithout DEF KeptInv
  <2>4. NoSampleForgotten'
    BY <2>1, <2>2, KeptWhenRemoved DEF KeptInv
  <2> QED
    BY <2>2, <2>3, <2>4 DEF KeptInv
<1>7. CASE WriteFile
  <2>1. /\ fw \in DOMAIN files /\ files' = Appended(pos) /\ step' = "clear"
        /\ UNCHANGED <<buf, pos, fw, accepted, gone, lost>>
    BY <1>7 DEF WriteFile
  <2>2. files' \in FileMaps /\ InFiles(files) \subseteq InFiles(files')
    BY <1>0, <2>1, FilesAppended DEF MemoryType, KeptInv
  <2>3. EndsWithBuffer'
    BY <1>0, <2>1, FilesAppended DEF MemoryType, KeptInv, EndsWithBuffer
  <2>4. NoSampleForgotten'
    BY <2>1, <2>2 DEF KeptInv, NoSampleForgotten
  <2> QED
    BY <2>1, <2>2, <2>3, <2>4 DEF KeptInv
<1>8. CASE WriteFileFails
  <2>1. /\ step' = "idle" /\ UNCHANGED <<buf, pos, accepted, gone, lost>>
        /\ \/ /\ fw \in DOMAIN files
              /\ \E k \in 0..(pos - 1) : files' = Appended(k)
           \/ UNCHANGED files
    BY <1>8 DEF WriteFileFails
  <2>2. \A k \in 0..(pos - 1) :
          k \in 0..Cap /\ \A i \in 1..k : buf[i] \in SampleIds
    BY <1>0, RtcCacheAssumption DEF MemoryType
  <2>3. files' \in FileMaps /\ InFiles(files) \subseteq InFiles(files')
    BY <2>1, <2>2, FilesAppended DEF MemoryType, KeptInv
  <2>4. NoSampleForgotten'
    BY <2>1, <2>3 DEF KeptInv, NoSampleForgotten
  <2> QED
    BY <2>1, <2>3, <2>4 DEF KeptInv
<1>9. CASE Clear
  <2>1. /\ UNCHANGED <<files, accepted, gone, lost>>
        /\ pos' = 0 /\ step' = "meta" /\ step = "clear"
    BY <1>9 DEF Clear
  <2>2. ASSUME NEW s \in InBuffer(buf, pos) PROVE s \in InFiles(files)
    <3>1. PICK i \in 1..pos : s = buf[i]
      BY <2>2 DEF InBuffer
    <3> DEFINE j == Len(files[fw]) - pos + i
    <3>2. /\ fw \in DOMAIN files /\ Len(files[fw]) >= pos
          /\ s = files[fw][j]
      BY <2>1, <3>1 DEF KeptInv, EndsWithBuffer
    <3>3. Len(files[fw]) \in Nat
      <4>1. files[fw] \in Seq(SampleIds)
        BY <3>2, FileMapMeans DEF KeptInv
      <4> QED
        BY <4>1
    <3>4. j \in 1..Len(files[fw])
      BY <3>1, <3>2, <3>3, RtcCacheAssumption DEF MemoryType
    <3> QED
      BY <3>2, <3>4, InFilesMeans
  <2>3. NoSampleForgotten'
    BY <2>1, <2>2 DEF KeptInv, NoSampleForgotten
  <2> QED
    BY <2>1, <2>3 DEF KeptInv
<1>10. ASSUME NEW taken, Restart(taken)
       PROVE  files' \in FileMaps /\ step' = "idle"
  <2>1. PICK fs \in FilesAfterReset : OpenAtBoot(fs)
    BY <1>10 DEF Restart
  <2>2. files' \in FileMaps
    BY <2>1, TruncatedFiles, FilesRestarted DEF KeptInv
  <2> QED
    BY <1>10, <2>2 DEF Restart
<1>11. CASE Reset
  <2>1. /\ Restart({}) /\ accepted' = accepted
        /\ lost' = lost \cup {s \in accepted \ gone' :
                       s \notin InFiles(files') \cup InBuffer(buf', pos')}
    BY <1>11 DEF Reset, Restart
  <2>2. NoSampleForgotten'
    BY <2>1 DEF NoSampleForgotten
  <2> QED
    BY <1>10, <2>1, <2>2 DEF KeptInv
<1>12. CASE PowerFailure
  <2> DEFINE taken == {s \in accepted : s \notin InFiles(files')}
  <2>1. Restart(taken) /\ accepted' = accepted
    BY <1>12 DEF PowerFailure, Restart
  <2>2. taken \subseteq gone'
    BY <2>1 DEF Restart
  <2>3. NoSampleForgotten'
    BY <2>1, <2>2 DEF NoSampleForgotten
  <2> QED
    BY <1>10, <2>1, <2>3 DEF KeptInv
<1>13. CASE UNCHANGED vars
  BY <1>13 DEF vars, KeptInv, EndsWithBuffer, NoSampleForgotten
<1> QED
  BY <1>1, <1>2, <1>3, <1>4, <1>5, <1>6, <1>7, <1>8, <1>9, <1>11, <1>12, <1>13
  DEF Next

LEMMA Kept == Spec => []KeptInv
<1>1. MemoryType /\ GenuineInv /\ KeptInv /\ [Next]_vars => KeptInv'
  BY KeptStep
<1> QED
  BY <1>1, KeptInit, MemoryTyped, AlwaysGenuine, PTL DEF Spec

\* A sample for which write() returned true is in the buffer or a file, for any
\* history of failed writes, new, full and removed files, unless it was removed
\* with an old file, or a reset or a power failure has taken it.
THEOREM SamplesKept == Spec => []NoSampleForgotten
<1>1. KeptInv => NoSampleForgotten
  BY DEF KeptInv
<1> QED
  BY <1>1, Kept, PTL

-----------------------------------------------------------------------------
\* What a reset can lose

\* What is not lost if the unit is reset now.
Recoverable == InFiles(files) \cup InBuffer(data, LoadedPos(meta, data))

\* Before a save RTC memory and the files make up for the buffer.
SafeInv ==
    settled /\ step = "meta" =>
        accepted \subseteq Recoverable \cup gone \cup lost

LEMMA SafeAtRest ==
    ASSUME MemoryType, Consistent, NoSampleForgotten, settled,
           step \notin {"meta", "data"}
    PROVE  /\ accepted \subseteq Recoverable \cup gone \cup lost
           /\ InBuffer(data, LoadedPos(meta, data)) = InBuffer(buf, pos)
<1>1. data = buf /\ LoadedPos(meta, data) = pos
  BY DEF Consistent
<1> QED
  BY <1>1 DEF NoSampleForgotten, Recoverable

LEMMA SafeStep ==
    MemoryType /\ Consistent /\ KeptInv /\ SafeInv /\ [Next]_vars => SafeInv'
<1> SUFFICES ASSUME MemoryType, Consistent, KeptInv, SafeInv, [Next]_vars,
                    settled', step' = "meta"
             PROVE  (accepted \subseteq Recoverable \cup gone \cup lost)'
  BY DEF SafeInv
<1>1. CASE Store \/ Clear
  <2>1. /\ UNCHANGED <<meta, data, files, accepted, gone, lost, settled>>
        /\ step \in {"store", "clear"}
    BY <1>1 DEF Store, Clear
  <2>2. accepted \subseteq Recoverable \cup gone \cup lost
    BY <2>1, SafeAtRest DEF KeptInv
  <2>3. Recoverable' = Recoverable
    BY <2>1 DEF Recoverable
  <2> QED
    BY <2>1, <2>2, <2>3
<1>2. CASE UNCHANGED vars
  <2>1. Recoverable' = Recoverable
    BY <1>2 DEF vars, Recoverable
  <2> QED
    BY <1>2, <2>1 DEF vars, SafeInv
<1>3. ASSUME Next, ~Store, ~Clear PROVE FALSE
  <2>1. CASE Reset \/ PowerFailure
    BY <2>1 DEF Reset, PowerFailure, Restart
  <2>2. CASE Write \/ SaveMeta \/ SaveData
    BY <2>2 DEF Write, SaveMeta, SaveData
  <2>3. CASE Flush \/ FlushFails \/ WriteFile \/ WriteFileFails \/ DeleteCache
    BY <2>3 DEF Flush, FlushFails, WriteFile, WriteFileFails, DeleteCache
  <2> QED
    BY <1>3, <2>1, <2>2, <2>3 DEF Next
<1> QED
  BY <1>1, <1>2, <1>3

LEMMA ResetLosesNothing ==
    ASSUME MemoryType, Consistent, KeptInv, SafeInv, Reset,
           settled, step # "data"
    PROVE  lost' = lost
<1>1. /\ Restart({}) /\ UNCHANGED <<meta, data>>
      /\ lost' = lost \cup {s \in accepted \ gone' :
                            s \notin InFiles(files') \cup InBuffer(buf', pos')}
  BY DEF Reset
<1>2. PICK fs \in FilesAfterReset :
        gone' = gone \cup (InFiles(fs) \ InFiles(files')) \cup {}
  BY <1>1 DEF Restart
<1>3. InBuffer(data, LoadedPos(meta, data)) \subseteq InBuffer(buf', pos')
  <2>1. /\ buf' = LoadedBuffer(meta, data)
        /\ pos' = LoadedPos(meta, data)
    BY <1>1, Restarted DEF MemoryType
  <2>2. buf' = data \/ LoadedPos(meta, data) = 0
    BY <2>1 DEF LoadedBuffer, LoadedPos, Loads
  <2> QED
    BY <2>1, <2>2 DEF InBuffer
<1>4. accepted \subseteq InFiles(fs) \cup InBuffer(data, LoadedPos(meta, data))
                          \cup gone \cup lost
  <2>1. CASE step = "meta"
    <3>1. fs = files
      BY <2>1, TruncatedFiles DEF KeptInv
    <3> QED
      BY <2>1, <3>1 DEF SafeInv, Recoverable
  <2>2. CASE step # "meta"
    <3>1. /\ accepted \subseteq Recoverable \cup gone \cup lost
          /\ InBuffer(data, LoadedPos(meta, data)) = InBuffer(buf, pos)
      BY <2>2, SafeAtRest DEF KeptInv
    <3>2. InFiles(files) \subseteq InFiles(fs) \cup InBuffer(buf, pos)
      BY TruncatedFiles DEF KeptInv
    <3> QED
      BY <3>1, <3>2 DEF Recoverable
  <2> QED
    BY <2>1, <2>2
<1>5. {s \in accepted \ gone' :
         s \notin InFiles(files') \cup InBuffer(buf', pos')} \subseteq lost
  BY <1>2, <1>3, <1>4
<1> QED
  BY <1>1, <1>5

\* A reset loses accepted samples only if it comes between the two writes of
\* saveRTCcache(), or before all cells were saved since the power came on:
\* a flush that it interrupts, at whatever write, loses none.
THEOREM OnlyTornSavesLose == Spec => LossNeedsTornSave
<1>1. Init => SafeInv
  BY DEF Init, SafeInv
<1>2. MemoryType /\ Consistent /\ KeptInv /\ SafeInv /\ [Next]_vars => SafeInv'
  BY SafeStep
<1>3. Init => Consistent
  BY DEF Init, Consistent
<1>4. MemoryType /\ Consistent /\ [Next]_vars => Consistent'
  BY ConsistentStep
<1>5. MemoryType /\ Consistent /\ KeptInv /\ SafeInv /\ [Next]_vars
        => [lost' # lost => step = "data" \/ ~settled]_vars
  <2> SUFFICES ASSUME MemoryType, Consistent, KeptInv, SafeInv, Next,
                      lost' # lost, settled, step # "data"
               PROVE  FALSE
    OBVIOUS
  <2>1. ~Reset
    BY ResetLosesNothing
  <2> QED
    BY <2>1 DEF Next, Write, Store, SaveMeta, SaveData, Flush, FlushFails,
                WriteFile, WriteFileFails, Clear, DeleteCache, PowerFailure
<1> QED
  BY <1>1, <1>2, <1>3, <1>4, <1>5, MemoryTyped, Kept, PTL
  DEF Spec, LossNeedsTornSave

-----------------------------------------------------------------------------
\* The type invariant

HistoryType ==
    /\ allocated \in BOOLEAN /\ writeError \in BOOLEAN /\ settled \in BOOLEAN
    /\ fw \in FileNrs \cup {NoFile}
    /\ cells \subseteq 1..Cap
    /\ accepted \subseteq SampleIds /\ gone \subseteq SampleIds
    /\ lost \subseteq SampleIds
    /\ resets \in 0..MaxResets

LEMMA SamplesInFiles ==
    ASSUME NEW fs \in FileMaps PROVE InFiles(fs) \subseteq SampleIds
<1> SUFFICES ASSUME NEW s \in InFiles(fs) PROVE s \in SampleIds
  OBVIOUS
<1>1. PICK n \in DOMAIN fs : \E i \in 1..Len(fs[n]) : s = fs[n][i]
  BY InFilesMeans
<1>2. fs[n] \in Seq(SampleIds)
  BY FileMapMeans
<1> QED
  BY <1>1, <1>2, ElementOfSeq

LEMMA RemovedType ==
    ASSUME NEW D, Remove(D), files \in FileMaps, gone \subseteq SampleIds
    PROVE  gone' \subseteq SampleIds
<1>1. InFiles(files) \subseteq SampleIds
  BY SamplesInFiles
<1> HIDE DEF InFiles
<1> QED
  BY <1>1 DEF Remove

LEMMA RestartedType ==
    ASSUME MemoryType, KeptInv, HistoryType, meta' \in Metadata,
           NEW taken \in SUBSET SampleIds, Restart(taken)
    PROVE  /\ allocated' \in BOOLEAN /\ writeError' \in BOOLEAN
           /\ fw' \in FileNrs \cup {NoFile} /\ cells' \subseteq 1..Cap
           /\ accepted' \subseteq SampleIds /\ gone' \subseteq SampleIds
           /\ resets' \in 0..MaxResets
<1>1. /\ resets' \in 0..MaxResets /\ writeError' = FALSE /\ cells' = {}
      /\ accepted' = accepted
  BY RtcCacheAssumption DEF Restart, HistoryType
<1>2. PICK fs \in FilesAfterReset :
        /\ OpenAtBoot(fs)
        /\ gone' = gone \cup (InFiles(fs) \ InFiles(files')) \cup taken
  BY DEF Restart
<1>3. gone' \subseteq SampleIds
  <2>1. InFiles(fs) \subseteq SampleIds
    BY TruncatedFiles, SamplesInFiles DEF KeptInv
  <2> QED
    BY <1>2, <2>1 DEF HistoryType
<1>4. allocated' \in BOOLEAN /\ fw' \in FileNrs \cup {NoFile}
  BY <1>2 DEF OpenAtBoot, Open, Metadata
<1> QED
  BY <1>1, <1>3, <1>4 DEF HistoryType

LEMMA HistoryStep ==
    MemoryType /\ GenuineInv /\ KeptInv /\ HistoryType /\ [Next]_vars
        => HistoryType'
<1> SUFFICES ASSUME MemoryType, GenuineInv, KeptInv, HistoryType, [Next]_vars
             PROVE  HistoryType'
  OBVIOUS
<1>1. CASE Write \/ SaveMeta \/ WriteFile
  BY <1>1 DEF Write, SaveMeta, WriteFile, HistoryType
<1>2. CASE Store
  <2>1. pos + 1 \in 1..Cap
    BY <1>2, RtcCacheAssumption DEF Store, MemoryType
  <2> QED
    BY <1>2, <2>1 DEF Store, HistoryType
<1>3. CASE SaveData
  <2>1. sample \in SampleIds
    <3>1. sample > 0
      <4>1. CASE pos = 0
        BY <1>3, <4>1 DEF SaveData, GenuineInv
      <4>2. CASE pos # 0
        <5>1. pos \in 1..pos /\ buf[pos] = sample
          BY <1>3, <4>2, RtcCacheAssumption
          DEF SaveData, MemoryType, KeptInv
        <5>2. buf[pos] \in 1..sample
          BY <5>1 DEF GenuineInv, Genuine
        <5> QED
          BY <5>1, <5>2, RtcCacheAssumption DEF MemoryType
      <4> QED
        BY <4>1, <4>2
    <3> QED
      BY <3>1, RtcCacheAssumption DEF MemoryType, SampleIds
  <2>2. settled' \in BOOLEAN
    BY <1>3, Zenon DEF SaveData, HistoryType
  <2>3. /\ accepted' \subseteq accepted \cup {sample}
        /\ UNCHANGED <<allocated, fw, writeError, cells, gone, lost, resets>>
    BY <1>3 DEF SaveData
  <2> QED
    BY <2>1, <2>2, <2>3 DEF HistoryType
<1>4. CASE Flush
  <2>1. UNCHANGED <<allocated, cells, accepted, lost, settled, resets>>
    BY <1>4 DEF Flush
  <2>2. CASE KeepOpen
    BY <2>1, <2>2 DEF KeepOpen, HistoryType
  <2>3. CASE OpenNext
    <3>1. PICK D : /\ Remove(D) /\ fw' \in FileNrs
                   /\ writeError' = (writeError /\ D = {})
      BY <2>3 DEF OpenNext, Open
    <3>2. gone' \subseteq SampleIds
      BY <3>1, RemovedType DEF KeptInv, HistoryType
    <3>3. writeError' \in BOOLEAN
      BY <3>1, Zenon
    <3> QED
      BY <2>1, <3>1, <3>2, <3>3 DEF HistoryType
  <2> QED
    BY <1>4, <2>2, <2>3 DEF Flush, PrepareFile
<1>5. CASE FlushFails
  <2>1. PICK D : Remove(D) /\ writeError' = (writeError /\ D = {})
    BY <1>5 DEF FlushFails, PrepareFails
  <2>2. /\ UNCHANGED <<allocated, cells, accepted, lost, settled, resets>>
        /\ fw' \in {fw, NoFile}
    BY <1>5 DEF FlushFails, PrepareFails
  <2>3. gone' \subseteq SampleIds
    BY <2>1, RemovedType DEF KeptInv, HistoryType
  <2>4. writeError' \in BOOLEAN
    BY <2>1, Zenon
  <2> QED
    BY <2>2, <2>3, <2>4 DEF HistoryType
<1>6. CASE DeleteCache
  <2>1. PICK D : Remove(D)
    BY <1>6 DEF DeleteCache
  <2>2. gone' \subseteq SampleIds
    BY <2>1, RemovedType DEF KeptInv, HistoryType
  <2> QED
    BY <1>6, <2>2 DEF DeleteCache, HistoryType
<1>7. CASE WriteFileFails
  BY <1>7 DEF WriteFileFails, HistoryType
<1>8. CASE Clear
  BY <1>8 DEF Clear, HistoryType
<1>9. CASE Reset
  <2>1. /\ Restart({}) /\ meta' \in Metadata /\ settled' = meta.valid
        /\ lost' \subseteq lost \cup accepted
    BY <1>9 DEF Reset, MemoryType
  <2>2. settled' \in BOOLEAN
    BY <2>1 DEF MemoryType, Metadata
  <2> QED
    BY <2>1, <2>2, RestartedType DEF HistoryType
<1>10. CASE PowerFailure
  <2> DEFINE taken == {s \in accepted : s \notin InFiles(files')}
  <2>1. Restart(taken) /\ meta' \in Metadata /\ settled' = FALSE /\ lost' = lost
    BY <1>10, PowerFailureMemory DEF PowerFailure
  <2>2. taken \subseteq SampleIds
    BY DEF HistoryType
  <2> HIDE DEF taken
  <2> QED
    BY <2>1, <2>2, RestartedType DEF HistoryType
<1>11. CASE UNCHANGED vars
  BY <1>11 DEF vars, HistoryType
<1> QED
  BY <1>1, <1>2, <1>3, <1>4, <1>5, <1>6, <1>7, <1>8, <1>9, <1>10, <1>11 DEF Next

\* The type invariant: in particular no cell that was never written, and none
\* that a power failure has left, gets into a file.
THEOREM TypeCorrect == Spec => []TypeOK
<1>1. Init => HistoryType
  <2> SUFFICES ASSUME Init PROVE HistoryType
    OBVIOUS
  <2>1. 1 \in FileNrs /\ 0 \in 0..MaxResets
    BY RtcCacheAssumption, SMT DEF FileNrs
  <2>2. allocated \in BOOLEAN /\ fw \in {1, NoFile}
    BY Zenon DEF Init
  <2>3. /\ writeError = FALSE /\ settled = FALSE /\ cells = {}
        /\ accepted = {} /\ gone = {} /\ lost = {} /\ resets = 0
    BY DEF Init
  <2> QED
    BY <2>1, <2>2, <2>3 DEF HistoryType
<1>2. MemoryType /\ GenuineInv /\ KeptInv /\ HistoryType /\ [Next]_vars
        => HistoryType'
  BY HistoryStep
<1>3. MemoryType /\ KeptInv /\ HistoryType => TypeOK
  BY FileMapMeans DEF MemoryType, KeptInv, HistoryType, TypeOK
<1> QED
  BY <1>1, <1>2, <1>3, MemoryTyped, AlwaysGenuine, Kept, PTL DEF Spec

-----------------------------------------------------------------------------
\* The order of the samples
\*
\* Files are removed and truncated, so that what makes an older sample a
\* repetition has to be found in the very file that has the newer one.

\* Where the file s has a newer sample than x, it has x before that.
Follows(s, x) ==
    \A i \in 1..Len(s) : s[i] > x => \E k \in 1..(i - 1) : s[k] = x

SelfOrdered(s) ==
    \A i, j \in 1..Len(s) :
       i < j /\ s[i] > s[j] => \E k \in 1..(i - 1) : s[k] = s[j]

FilesInOrder(fs) ==
    \A n \in DOMAIN fs :
       /\ SelfOrdered(fs[n])
       /\ \A m \in DOMAIN fs : n < m =>
            \A j \in 1..Len(fs[m]) : Follows(fs[n], fs[m][j])

BufferFollows(fs, b, p) ==
    \A n \in DOMAIN fs : \A j \in 1..p : Follows(fs[n], b[j])

NoneNewer(fs, x) == \A n \in DOMAIN fs : \A i \in 1..Len(fs[n]) : fs[n][i] <= x

\* The invariant: what a reset would load may come after the files as well as
\* what is in the buffer; between two saves the two are the same.
OrderInv ==
    /\ FilesInOrder(files)
    /\ BufferFollows(files, buf, pos)
    /\ NoneNewer(files, sample)
    /\ Loads(meta, data) =>
         /\ BufferFollows(files, data, meta.pos)
         /\ step \notin {"meta", "data"} => data = buf /\ meta.pos = pos
    /\ fw \in DOMAIN files => \A n \in DOMAIN files : n <= fw

LEMMA FileTypes ==
    ASSUME NEW fs \in FileMaps, NEW n \in DOMAIN fs
    PROVE  /\ n \in 1..MaxFiles /\ n \in Int
           /\ fs[n] \in Seq(SampleIds) /\ Len(fs[n]) \in Nat
           /\ \A i \in 1..Len(fs[n]) : fs[n][i] \in Nat
<1>1. n \in FileNrs /\ fs[n] \in Seq(SampleIds)
  BY FileMapMeans
<1>2. \A i \in 1..Len(fs[n]) : fs[n][i] \in SampleIds
  BY <1>1, ElementOfSeq
<1> QED
  BY <1>1, <1>2, LenProperties, RtcCacheAssumption DEF FileNrs, SampleIds

\* The files fs have nothing but what is in gs, at the same place, and of each
\* file the first samples.
PartOf(fs, gs) ==
    \A n \in DOMAIN fs : \A i \in 1..Len(fs[n]) :
       n \in DOMAIN gs /\ i \in 1..Len(gs[n]) /\ fs[n][i] = gs[n][i]

LEMMA FollowsPart ==
    ASSUME NEW fs \in FileMaps, NEW gs, PartOf(fs, gs), NEW n \in DOMAIN fs,
           NEW x, n \in DOMAIN gs => Follows(gs[n], x)
    PROVE  Follows(fs[n], x)
<1> SUFFICES ASSUME NEW i \in 1..Len(fs[n]), fs[n][i] > x
             PROVE  \E k \in 1..(i - 1) : fs[n][k] = x
  BY DEF Follows
<1>1. n \in DOMAIN gs /\ i \in 1..Len(gs[n]) /\ fs[n][i] = gs[n][i]
  BY DEF PartOf
<1>2. PICK k \in 1..(i - 1) : gs[n][k] = x
  BY <1>1 DEF Follows
<1>3. k \in 1..Len(fs[n])
  BY FileTypes, SMT
<1> QED
  BY <1>2, <1>3 DEF PartOf

LEMMA PartInOrder ==
    ASSUME NEW fs \in FileMaps, NEW gs, PartOf(fs, gs)
    PROVE  /\ FilesInOrder(gs) => FilesInOrder(fs)
           /\ \A b, p : BufferFollows(gs, b, p) => BufferFollows(fs, b, p)
           /\ \A x : NoneNewer(gs, x) => NoneNewer(fs, x)
<1>1. ASSUME FilesInOrder(gs) PROVE FilesInOrder(fs)
  <2>1. ASSUME NEW n \in DOMAIN fs, NEW i \in 1..Len(fs[n]),
               NEW j \in 1..Len(fs[n]), i < j, fs[n][i] > fs[n][j]
        PROVE  \E k \in 1..(i - 1) : fs[n][k] = fs[n][j]
    <3>1. /\ n \in DOMAIN gs /\ i \in 1..Len(gs[n]) /\ j \in 1..Len(gs[n])
          /\ fs[n][i] = gs[n][i] /\ fs[n][j] = gs[n][j]
      BY DEF PartOf
    <3>2. PICK k \in 1..(i - 1) : gs[n][k] = gs[n][j]
      BY <1>1, <2>1, <3>1 DEF FilesInOrder, SelfOrdered
    <3>3. k \in 1..Len(fs[n])
      BY FileTypes, SMT
    <3> QED
      BY <3>1, <3>2, <3>3 DEF PartOf
  <2>2. ASSUME NEW n \in DOMAIN fs, NEW m \in DOMAIN fs, n < m,
               NEW j \in 1..Len(fs[m])
        PROVE  Follows(fs[n], fs[m][j])
    <3>1. /\ m \in DOMAIN gs /\ j \in 1..Len(gs[m])
          /\ fs[m][j] = gs[m][j]
      BY DEF PartOf
    <3>2. n \in DOMAIN gs => Follows(gs[n], gs[m][j])
      BY <1>1, <2>2, <3>1 DEF FilesInOrder
    <3> QED
      BY <3>1, <3>2, FollowsPart
  <2> QED
    BY <2>1, <2>2 DEF FilesInOrder, SelfOrdered
<1>2. ASSUME NEW b, NEW p, BufferFollows(gs, b, p)
      PROVE  BufferFollows(fs, b, p)
  BY <1>2, FollowsPart DEF BufferFollows
<1>3. ASSUME NEW x, NoneNewer(gs, x) PROVE NoneNewer(fs, x)
  BY <1>3 DEF NoneNewer, PartOf
<1> QED
  BY <1>1, <1>2, <1>3

LEMMA PartOfPart ==
    ASSUME NEW fs, NEW gs, NEW hs, PartOf(fs, gs), PartOf(gs, hs)
    PROVE  PartOf(fs, hs)
BY DEF PartOf

LEMMA WithoutIsPart ==
    ASSUME NEW fs, NEW D
    PROVE  PartOf(Without(fs, D), fs) /\ DOMAIN Without(fs, D) \subseteq DOMAIN fs
BY DEF PartOf, Without

LEMMA OpenedIsPart ==
    ASSUME NEW fs \in FileMaps, NEW n, Open(fs, n)
    PROVE  PartOf(files', fs) /\ DOMAIN files' = DOMAIN fs \cup {n}
<1>1. /\ DOMAIN files' = DOMAIN fs \cup {n}
      /\ \A m \in DOMAIN fs : files'[m] = fs[m]
      /\ n \notin DOMAIN fs => files'[n] = <<>>
  BY DEF Open
<1>2. \A m \in DOMAIN files' : m \in DOMAIN fs \/ Len(files'[m]) = 0
  BY <1>1, EmptySeq
<1> QED
  BY <1>1, <1>2, SMT DEF PartOf

LEMMA TruncatedIsPart ==
    ASSUME files \in FileMaps, MemoryType, step = "clear" => EndsWithBuffer,
           NEW fs \in FilesAfterReset
    PROVE  PartOf(fs, files) /\ DOMAIN fs = DOMAIN files
<1>1. CASE step # "clear"
  BY <1>1 DEF FilesAfterReset, PartOf
<1>2. CASE step = "clear"
  <2> DEFINE old == files[fw]
             n == Len(old)
  <2>1. PICK k \in 0..pos :
          fs = [files EXCEPT ![fw] = SubSeq(old, 1, n - k)]
    BY <1>2 DEF FilesAfterReset
  <2>2. /\ fw \in DOMAIN files /\ n \in Nat /\ n >= pos
        /\ \A i \in 1..n : old[i] \in SampleIds
    <3>1. fw \in DOMAIN files /\ n >= pos
      BY <1>2 DEF EndsWithBuffer
    <3>2. old \in Seq(SampleIds)
      BY <3>1, FileMapMeans
    <3> QED
      BY <3>1, <3>2, ElementOfSeq, LenProperties
  <2>3. /\ DOMAIN fs = DOMAIN files
        /\ fs[fw] = SubSeq(old, 1, n - k)
        /\ \A m \in DOMAIN files \ {fw} : fs[m] = files[m]
    BY <2>1, <2>2, FileMapMeans
  <2> HIDE DEF n, old
  <2>4. pos \in Nat /\ k \in Nat /\ k <= pos /\ n - k \in Nat /\ n - k <= n
    BY <2>2, RtcCacheAssumption, SMT DEF MemoryType
  <2>5. Len(fs[fw]) = n - k /\ \A i \in 1..(n - k) : fs[fw][i] = old[i]
    <3>1. \A i \in 1..(n - k) : old[i] \in SampleIds
      BY <2>2, <2>4, SMT
    <3>2. /\ Len(SubSeq(old, 1, n - k)) =
                IF 1 <= n - k THEN n - k - 1 + 1 ELSE 0
          /\ \A i \in 1..(n - k - 1 + 1) :
                SubSeq(old, 1, n - k)[i] = old[1 + i - 1]
      BY <2>4, <3>1, SubSeqProperties
    <3> QED
      BY <2>3, <2>4, <3>2, SMT
  <2>6. ASSUME NEW m \in DOMAIN fs, NEW i \in 1..Len(fs[m])
        PROVE  i \in 1..Len(files[m]) /\ fs[m][i] = files[m][i]
    <3>1. CASE m = fw
      <4>1. i \in 1..(n - k) /\ i \in 1..n
        BY <2>2, <2>4, <2>5, <3>1, SMT
      <4> QED
        BY <2>5, <3>1, <4>1 DEF n, old
    <3>2. CASE m # fw
      BY <2>3, <3>2
    <3> QED
      BY <3>1, <3>2
  <2> QED
    BY <2>3, <2>6 DEF PartOf
<1> QED
  BY <1>1, <1>2

\* The number of the file to be written next is not less than any other.
LEMMA HighestExists ==
    ASSUME NEW S \in SUBSET FileNrs, S # {}
    PROVE  \E n \in S : \A m \in S : m <= n
<1> DEFINE Less == {p \in Nat \X Nat : p[1] < p[2]}
           Left == {MaxFiles - n : n \in S}
<1>1. \A n \in S : n \in Int /\ MaxFiles - n \in Nat
  BY RtcCacheAssumption, SMT DEF FileNrs
<1>2. Left \subseteq Nat /\ Left # {}
  BY <1>1
<1>3. IsWellFoundedOn(Less, Nat)
  BY NatLessThanWellFounded DEF OpToRel
<1> HIDE DEF Less, Left
<1>4. PICK x \in Left : \A y \in Left : <<y, x>> \notin Less
  BY <1>2, <1>3, WFMin
<1>5. PICK n \in S : x = MaxFiles - n
  BY <1>4 DEF Left
<1>6. ASSUME NEW m \in S PROVE m <= n
  <2>1. MaxFiles - m \in Left
    BY DEF Left
  <2>2. ~(MaxFiles - m < MaxFiles - n)
    BY <1>1, <1>4, <1>5, <2>1 DEF Less
  <2> QED
    BY <1>1, <2>2, RtcCacheAssumption, SMT
<1> QED
  BY <1>6

LEMMA NextIsHighest ==
    ASSUME NEW fs \in FileMaps
    PROVE  \A n \in DOMAIN fs : n <= NextFile(fs)
<1> SUFFICES ASSUME DOMAIN fs # {}, NEW n \in DOMAIN fs
             PROVE  n <= NextFile(fs)
  OBVIOUS
<1> DEFINE top == CHOOSE h \in DOMAIN fs : \A m \in DOMAIN fs : m <= h
<1>1. DOMAIN fs \in SUBSET FileNrs
  BY FileMapMeans
<1>2. top \in DOMAIN fs /\ \A m \in DOMAIN fs : m <= top
  BY <1>1, HighestExists
<1>3. NextFile(fs) = IF Full(fs, top) THEN top + 1 ELSE top
  BY DEF NextFile
<1> HIDE DEF top
<1>4. n \in Int /\ top \in Int /\ n <= top
  BY <1>2, FileTypes
<1> QED
  BY <1>3, <1>4, SMT

\* Opening the next file: it becomes the last one.
LEMMA OpenedIsLast ==
    ASSUME NEW fs \in FileMaps, Open(fs, NextFile(fs))
    PROVE  /\ PartOf(files', fs) /\ files' \in FileMaps
           /\ \A n \in DOMAIN files' : n <= fw'
<1>1. /\ PartOf(files', fs) /\ files' \in FileMaps
      /\ DOMAIN files' = DOMAIN fs \cup {NextFile(fs)}
  BY OpenedIsPart, FilesOpened
<1>2. fw' = NextFile(fs) /\ fw' \in Int
  BY RtcCacheAssumption, SMT DEF Open, FileNrs
<1> QED
  BY <1>1, <1>2, NextIsHighest, SMT

\* A file to which the first k samples of the buffer are appended.
Extends(t, s, b, k) ==
    /\ Len(t) = Len(s) + k
    /\ \A i \in 1..(Len(s) + k) : t[i] = IF i <= Len(s) THEN s[i]
                                         ELSE b[i - Len(s)]

LEMMA AppendedExtends ==
    ASSUME files \in FileMaps, buf \in Buffers, NEW k \in 0..Cap,
           \A i \in 1..k : buf[i] \in SampleIds,
           fw \in DOMAIN files, files' = Appended(k)
    PROVE  /\ DOMAIN files' = DOMAIN files
           /\ \A n \in DOMAIN files \ {fw} : files'[n] = files[n]
           /\ Extends(files'[fw], files[fw], buf, k)
<1> DEFINE old == files[fw]
           part == SubSeq(buf, 1, k)
<1>1. old \in Seq(SampleIds)
  BY FileMapMeans
<1>2. /\ part \in Seq(SampleIds) /\ Len(part) = k
      /\ \A i \in 1..k : part[i] = buf[i]
  <2>1. 1 \in Int /\ k \in Int
    OBVIOUS
  <2>2. /\ SubSeq(buf, 1, k) \in Seq(SampleIds)
        /\ Len(SubSeq(buf, 1, k)) = IF 1 <= k THEN k - 1 + 1 ELSE 0
        /\ \A i \in 1..(k - 1 + 1) : SubSeq(buf, 1, k)[i] = buf[1 + i - 1]
    BY <2>1, SubSeqProperties
  <2> QED
    BY <2>2
<1>3. /\ DOMAIN files' = DOMAIN files
      /\ files'[fw] = old \o part
      /\ \A n \in DOMAIN files \ {fw} : files'[n] = files[n]
  BY FileMapMeans DEF Appended
<1> HIDE DEF old, part
<1>4. /\ Len(old \o part) = Len(old) + Len(part)
      /\ \A i \in 1..(Len(old) + Len(part)) :
           (old \o part)[i] = IF i <= Len(old) THEN old[i]
                                               ELSE part[i - Len(old)]
  BY <1>1, <1>2, ConcatProperties
<1>5. ASSUME NEW i \in 1..(Len(old) + k), ~(i <= Len(old))
      PROVE  i - Len(old) \in 1..k
  BY <1>1, <1>5, LenProperties, SMT
<1>6. Extends(files'[fw], old, buf, k)
  BY <1>2, <1>3, <1>4, <1>5 DEF Extends
<1> QED
  BY <1>3, <1>6 DEF old

\* The places of a file that was extended.
LEMMA ExtendedPlaces ==
    ASSUME NEW s, Len(s) \in Nat, NEW b, NEW k \in Nat, NEW t,
           Extends(t, s, b, k), NEW i \in 1..Len(t)
    PROVE  \/ i \in 1..Len(s) /\ t[i] = s[i]
           \/ /\ i > Len(s) /\ i - Len(s) \in 1..k
              /\ t[i] = b[i - Len(s)]
BY SMT DEF Extends

\* The buffer repeats itself, in its own order.
LEMMA ExtendedFollows ==
    ASSUME NEW s, Len(s) \in Nat, NEW b, NEW p \in Nat, NEW n \in Nat,
           Genuine(b, p, n), NEW k \in 0..p, NEW t, Extends(t, s, b, k),
           \A j \in 1..p : Follows(s, b[j]),
           NEW j \in 1..p
    PROVE  Follows(t, b[j])
<1> SUFFICES ASSUME NEW i \in 1..Len(t), t[i] > b[j]
             PROVE  \E h \in 1..(i - 1) : t[h] = b[j]
  BY DEF Follows
<1>1. k \in Nat /\ Len(t) = Len(s) + k
  BY SMT DEF Extends
<1>2. CASE i \in 1..Len(s) /\ t[i] = s[i]
  <2>1. PICK h \in 1..(i - 1) : s[h] = b[j]
    BY <1>2 DEF Follows
  <2>2. h \in 1..(Len(s) + k) /\ h <= Len(s)
    BY <1>1, <1>2, SMT
  <2>3. t[h] = s[h]
    BY <2>2 DEF Extends
  <2> QED
    BY <2>1, <2>3
<1>3. CASE i > Len(s) /\ i - Len(s) \in 1..k /\ t[i] = b[i - Len(s)]
  <2> DEFINE c == i - Len(s)
  <2>1. c \in 1..p /\ b[c] > b[j] /\ c \in Int /\ j \in Int
    BY <1>1, <1>3, SMT
  <2>2. /\ b[c] \in 1..n /\ b[j] \in 1..n
        /\ \A h \in 1..(j - 1) : b[h] < b[j]
    BY <2>1 DEF Genuine
  <2>3. j < c
    <3>1. ASSUME c < j PROVE FALSE
      <4>1. c \in 1..(j - 1)
        BY <2>1, <3>1, SMT
      <4> HIDE DEF c
      <4> QED
        BY <2>1, <2>2, <4>1, SMT
    <3>2. c # j
      BY <2>1, <2>2, SMT
    <3> QED
      BY <2>1, <3>1, <3>2, SMT
  <2> DEFINE h == Len(s) + j
  <2>4. /\ h \in 1..(i - 1) /\ h \in 1..(Len(s) + k)
        /\ ~(h <= Len(s)) /\ h - Len(s) = j
    BY <1>1, <1>3, <2>1, <2>3, SMT
  <2>5. t[h] = b[j]
    BY <2>4 DEF Extends
  <2> QED
    BY <2>4, <2>5
<1> QED
  BY <1>1, <1>2, <1>3, ExtendedPlaces

LEMMA ExtendedInOrder ==
    ASSUME NEW s, Len(s) \in Nat, NEW b, NEW p \in Nat, NEW n \in Nat,
           Genuine(b, p, n), NEW k \in 0..p, NEW t, Extends(t, s, b, k),
           \A j \in 1..p : Follows(s, b[j]), SelfOrdered(s)
    PROVE  SelfOrdered(t)
<1> SUFFICES ASSUME NEW i \in 1..Len(t), NEW j \in 1..Len(t),
                    i < j, t[i] > t[j]
             PROVE  \E h \in 1..(i - 1) : t[h] = t[j]
  BY DEF SelfOrdered
<1>1. k \in Nat /\ Len(t) = Len(s) + k
  BY SMT DEF Extends
<1>2. CASE j \in 1..Len(s) /\ t[j] = s[j]
  <2>1. i \in 1..Len(s) /\ i \in 1..(Len(s) + k) /\ i <= Len(s)
    BY <1>1, <1>2, SMT
  <2>2. t[i] = s[i]
    BY <2>1 DEF Extends
  <2>3. PICK h \in 1..(i - 1) : s[h] = s[j]
    BY <1>2, <2>1, <2>2 DEF SelfOrdered
  <2>4. h \in 1..(Len(s) + k) /\ h <= Len(s)
    BY <1>1, <2>1, SMT
  <2>5. t[h] = s[h]
    BY <2>4 DEF Extends
  <2> QED
    BY <1>2, <2>3, <2>5
<1>3. CASE j > Len(s) /\ j - Len(s) \in 1..k /\ t[j] = b[j - Len(s)]
  <2>1. j - Len(s) \in 1..p
    BY <1>3, SMT
  <2>2. Follows(t, t[j])
    BY <1>3, <2>1, ExtendedFollows
  <2> QED
    BY <2>2 DEF Follows
<1> QED
  BY <1>1, <1>2, <1>3, ExtendedPlaces

\* flush() has appended to the last file: all is still in order.
LEMMA AppendedInOrder ==
    ASSUME MemoryType, GenuineInv, files \in FileMaps, OrderInv,
           NEW k \in 0..pos, fw \in DOMAIN files, files' = Appended(k)
    PROVE  /\ FilesInOrder(files')
           /\ BufferFollows(files', buf, pos)
           /\ NoneNewer(files', sample)
           /\ \A n \in DOMAIN files' : n <= fw
<1>1. /\ buf \in Buffers /\ pos \in Nat /\ k \in 0..Cap /\ k \in Nat
      /\ sample \in Nat /\ Genuine(buf, pos, sample)
      /\ \A i \in 1..k : buf[i] \in SampleIds /\ i \in 1..pos
      /\ \A i \in 1..pos : buf[i] <= sample
  <2>1. /\ buf \in Buffers /\ pos \in Nat /\ k \in 0..Cap /\ k \in Nat
        /\ sample \in Nat /\ Genuine(buf, pos, sample)
    BY RtcCacheAssumption, SMT DEF MemoryType, GenuineInv
  <2>2. \A i \in 1..k : i \in 1..pos
    BY <2>1, SMT
  <2>3. ASSUME NEW i \in 1..pos PROVE buf[i] <= sample
    BY <2>1, SMT DEF Genuine
  <2> QED
    BY <2>1, <2>2, <2>3, SamplesInBuffer
<1>2. /\ DOMAIN files' = DOMAIN files
      /\ \A n \in DOMAIN files \ {fw} : files'[n] = files[n]
      /\ Extends(files'[fw], files[fw], buf, k)
  BY <1>1, AppendedExtends
<1>3. Len(files[fw]) \in Nat /\ SelfOrdered(files[fw])
      /\ \A j \in 1..pos : Follows(files[fw], buf[j])
  BY FileTypes DEF OrderInv, FilesInOrder, BufferFollows
<1>4. \A n \in DOMAIN files : n \in Int /\ n <= fw
  BY FileTypes DEF OrderInv
<1>5. \A n \in DOMAIN files' : \A j \in 1..pos : Follows(files'[n], buf[j])
  BY <1>1, <1>2, <1>3, ExtendedFollows DEF OrderInv, BufferFollows
<1>6. \A n \in DOMAIN files' : SelfOrdered(files'[n])
  BY <1>1, <1>2, <1>3, ExtendedInOrder DEF OrderInv, FilesInOrder
<1>7. ASSUME NEW n \in DOMAIN files', NEW m \in DOMAIN files', n < m,
             NEW j \in 1..Len(files'[m])
      PROVE  Follows(files'[n], files'[m][j])
  <2>1. n # fw /\ files'[n] = files[n]
    BY <1>2, <1>4, <1>7, SMT
  <2>2. CASE m # fw
    BY <1>2, <1>7, <2>1, <2>2 DEF OrderInv, FilesInOrder
  <2>3. CASE m = fw
    <3>1. \/ j \in 1..Len(files[fw]) /\ files'[fw][j] = files[fw][j]
          \/ /\ j - Len(files[fw]) \in 1..k
             /\ files'[fw][j] = buf[j - Len(files[fw])]
      BY <1>1, <1>2, <1>3, <2>3, ExtendedPlaces
    <3>2. CASE j \in 1..Len(files[fw]) /\ files'[fw][j] = files[fw][j]
      BY <1>2, <1>7, <2>1, <2>3, <3>2 DEF OrderInv, FilesInOrder
    <3>3. CASE /\ j - Len(files[fw]) \in 1..k
               /\ files'[fw][j] = buf[j - Len(files[fw])]
      BY <1>1, <1>2, <2>1, <2>3, <3>3 DEF OrderInv, BufferFollows
    <3> QED
      BY <3>1, <3>2, <3>3
  <2> QED
    BY <2>2, <2>3
<1>8. ASSUME NEW n \in DOMAIN files', NEW i \in 1..Len(files'[n])
      PROVE  files'[n][i] <= sample
  <2>1. CASE n # fw
    BY <1>2, <2>1 DEF OrderInv, NoneNewer
  <2>2. CASE n = fw
    <3>1. \/ i \in 1..Len(files[fw]) /\ files'[fw][i] = files[fw][i]
          \/ /\ i - Len(files[fw]) \in 1..k
             /\ files'[fw][i] = buf[i - Len(files[fw])]
      BY <1>1, <1>2, <1>3, <2>2, ExtendedPlaces
    <3> QED
      BY <1>1, <1>2, <2>2, <3>1 DEF OrderInv, NoneNewer
  <2> QED
    BY <2>1, <2>2
<1> QED
  BY <1>2, <1>4, <1>5, <1>6, <1>7, <1>8
  DEF FilesInOrder, BufferFollows, NoneNewer

\* Files were removed, and the last one is open or none is.
LEMMA FewerInOrder ==
    ASSUME OrderInv, files' \in FileMaps, PartOf(files', files)
    PROVE  /\ FilesInOrder(files')
           /\ BufferFollows(files', buf, pos)
           /\ NoneNewer(files', sample)
           /\ Loads(meta, data) => BufferFollows(files', data, meta.pos)
BY PartInOrder DEF OrderInv

LEMMA NoFileIsNone == ASSUME NEW fs \in FileMaps PROVE NoFile \notin DOMAIN fs
<1>1. NoFile \notin 1..MaxFiles
  BY SMT DEF NoFile
<1> QED
  BY <1>1, FileTypes

LEMMA RestartedFiles ==
    ASSUME MemoryType, KeptInv, NEW taken, Restart(taken)
    PROVE  /\ files' \in FileMaps /\ PartOf(files', files)
           /\ fw' \in DOMAIN files' => \A n \in DOMAIN files' : n <= fw'
<1>1. PICK fs \in FilesAfterReset : OpenAtBoot(fs)
  BY DEF Restart
<1>2. fs \in FileMaps /\ PartOf(fs, files)
  BY TruncatedFiles, TruncatedIsPart DEF KeptInv
<1>3. /\ files' \in FileMaps /\ PartOf(files', fs)
      /\ fw' \in DOMAIN files' => \A n \in DOMAIN files' : n <= fw'
  <2>1. CASE files' = fs /\ fw' = NoFile
    BY <1>2, <2>1, NoFileIsNone DEF PartOf
  <2>2. CASE \E D : files' = Without(fs, D) /\ fw' = NoFile
    BY <1>2, <2>2, NoFileIsNone, FilesWithout, WithoutIsPart
  <2>3. CASE \E D : Open(Without(fs, D), NextFile(Without(fs, D)))
    BY <1>2, <2>3, FilesWithout, WithoutIsPart, OpenedIsLast, PartOfPart
  <2> QED
    BY <1>1, <2>1, <2>2, <2>3 DEF OpenAtBoot
<1> QED
  BY <1>2, <1>3, PartOfPart

LEMMA OrderInit == Init => OrderInv
<1> SUFFICES ASSUME Init PROVE OrderInv
  OBVIOUS
<1>1. files \in FileMaps
  BY KeptInit DEF KeptInv
<1>2. \A n \in DOMAIN files : files[n] = <<>> /\ n = 1
  <2>1. CASE files = <<>>
    BY <2>1
  <2>2. CASE files = [n \in {1} |-> <<>>]
    BY <2>2
  <2> QED
    BY <2>1, <2>2 DEF Init
<1>3. \A n \in DOMAIN files : Len(files[n]) = 0
  BY <1>2, EmptySeq
<1>4. pos = 0 /\ ~Loads(meta, data) /\ fw \in {NoFile, 1}
  BY DEF Init, Loads, NoMeta
<1>5. \A n \in DOMAIN files : n <= fw \/ fw = NoFile
  BY <1>2, <1>4, SMT
<1>6. FilesInOrder(files) /\ NoneNewer(files, sample)
  BY <1>3, SMT DEF FilesInOrder, SelfOrdered, Follows, NoneNewer
<1>7. BufferFollows(files, buf, pos)
  BY <1>4, SMT DEF BufferFollows
<1> QED
  BY <1>1, <1>4, <1>5, <1>6, <1>7, NoFileIsNone DEF OrderInv

LEMMA OrderStep ==
    ASSUME MemoryType, GenuineInv, Consistent, KeptInv, OrderInv, [Next]_vars
    PROVE  OrderInv'
<1>0. files \in FileMaps
  BY DEF KeptInv
<1>1. CASE Write
  <2>1. /\ UNCHANGED <<buf, pos, meta, data, files, fw>>
        /\ sample' = sample + 1
        /\ step \notin {"meta", "data"}
    BY <1>1 DEF Write
  <2>2. NoneNewer(files, sample')
    BY <1>0, <2>1, FileTypes, SMT DEF OrderInv, NoneNewer, MemoryType
  <2> QED
    BY <2>1, <2>2 DEF OrderInv, Loads
<1>2. CASE Store
  <2>1. /\ UNCHANGED <<meta, data, files, fw, sample>>
        /\ step' = "meta" /\ step = "store" /\ pos' = pos + 1
        /\ buf' = [buf EXCEPT ![pos + 1] = sample]
    BY <1>2 DEF Store
  <2>2. pos \in Nat /\ pos + 1 \in 1..Cap /\ sample \in Nat
    BY <2>1, RtcCacheAssumption, SMT DEF MemoryType
  <2>3. ASSUME NEW n \in DOMAIN files, NEW j \in 1..(pos + 1)
        PROVE  Follows(files[n], buf'[j])
    <3>1. CASE j \in 1..pos
      <4>1. buf'[j] = buf[j]
        BY <2>1, <2>2, <3>1, SMT DEF MemoryType, Buffers
      <4> QED
        BY <3>1, <4>1 DEF OrderInv, BufferFollows
    <3>2. CASE j = pos + 1
      <4>1. buf'[j] = sample
        BY <2>1, <2>2, <3>2 DEF MemoryType, Buffers
      <4>2. \A i \in 1..Len(files[n]) : ~(files[n][i] > sample)
        BY <1>0, <2>2, FileTypes, SMT DEF OrderInv, NoneNewer
      <4> QED
        BY <4>1, <4>2 DEF Follows
    <3> QED
      BY <2>2, <3>1, <3>2, SMT
  <2>4. BufferFollows(files, buf', pos')
    BY <2>1, <2>3 DEF BufferFollows
  <2> QED
    BY <2>1, <2>4 DEF OrderInv, Loads
<1>3. CASE SaveMeta
  <2>1. /\ UNCHANGED <<buf, pos, data, files, fw, sample>> /\ step' = "data"
        /\ meta' = [valid |-> TRUE, sum |-> buf, pos |-> pos]
    BY <1>3 DEF SaveMeta
  <2>2. Loads(meta', data) => data = buf /\ meta'.pos = pos
    BY <2>1 DEF Loads
  <2> QED
    BY <2>1, <2>2 DEF OrderInv, Loads
<1>4. CASE SaveData
  <2>1. /\ UNCHANGED <<buf, pos, meta, files, fw, sample>>
        /\ meta = [valid |-> TRUE, sum |-> buf, pos |-> pos]
    BY <1>4 DEF SaveData, Consistent
  <2>2. Loads(meta, data') => data' = buf /\ meta.pos = pos
    BY <2>1 DEF Loads
  <2> QED
    BY <2>1, <2>2 DEF OrderInv, Loads
<1>5. CASE Flush
  <2>1. /\ UNCHANGED <<buf, pos, meta, data, sample>> /\ step = "flush"
    BY <1>5 DEF Flush
  <2>2. CASE KeepOpen
    BY <2>1, <2>2 DEF KeepOpen, OrderInv, Loads
  <2>3. CASE OpenNext
    <3>1. PICK D : Open(Without(files, D), NextFile(Without(files, D)))
      BY <2>3 DEF OpenNext
    <3>2. /\ files' \in FileMaps /\ PartOf(files', files)
          /\ \A n \in DOMAIN files' : n <= fw'
      BY <1>0, <3>1, FilesWithout, WithoutIsPart, OpenedIsLast, PartOfPart
    <3> QED
      BY <2>1, <3>2, FewerInOrder DEF OrderInv, Loads
  <2> QED
    BY <1>5, <2>2, <2>3 DEF Flush, PrepareFile
<1>6. CASE FlushFails \/ DeleteCache
  <2>1. /\ UNCHANGED <<buf, pos, meta, data, sample>>
        /\ step \notin {"meta", "data"}
        /\ fw' \in {fw, NoFile}
        /\ \E D : files' = Without(files, D)
    BY <1>6 DEF FlushFails, PrepareFails, DeleteCache
  <2>2. /\ files' \in FileMaps /\ PartOf(files', files)
        /\ DOMAIN files' \subseteq DOMAIN files
    BY <1>0, <2>1, FilesWithout, WithoutIsPart
  <2>3. fw' \in DOMAIN files' => \A n \in DOMAIN files' : n <= fw'
    BY <2>1, <2>2, NoFileIsNone DEF OrderInv
  <2> QED
    BY <2>1, <2>2, <2>3, FewerInOrder DEF OrderInv, Loads
<1>7. CASE WriteFile
  <2>1. /\ UNCHANGED <<buf, pos, meta, data, fw, sample>> /\ step = "file"
        /\ fw \in DOMAIN files /\ files' = Appended(pos)
    BY <1>7 DEF WriteFile
  <2>2. pos \in 0..pos
    BY RtcCacheAssumption, SMT DEF MemoryType
  <2>3. /\ FilesInOrder(files') /\ BufferFollows(files', buf, pos)
        /\ NoneNewer(files', sample) /\ \A n \in DOMAIN files' : n <= fw
    BY <1>0, <2>1, <2>2, AppendedInOrder
  <2>4. Loads(meta, data) => data = buf /\ meta.pos = pos
    BY <2>1 DEF OrderInv
  <2> QED
    BY <2>1, <2>3, <2>4 DEF OrderInv, Loads
<1>8. CASE WriteFileFails
  <2>1. /\ UNCHANGED <<buf, pos, meta, data, sample>> /\ step = "file"
        /\ fw' = NoFile
        /\ \/ /\ fw \in DOMAIN files
              /\ \E k \in 0..(pos - 1) : files' = Appended(k)
           \/ files' = files
    BY <1>8 DEF WriteFileFails
  <2>2. \A k \in 0..(pos - 1) : k \in 0..pos
    BY RtcCacheAssumption, SMT DEF MemoryType
  <2>3. Loads(meta, data) => data = buf /\ meta.pos = pos
    BY <2>1 DEF OrderInv
  <2>4. /\ FilesInOrder(files') /\ BufferFollows(files', buf, pos)
        /\ NoneNewer(files', sample)
    <3>1. CASE files' = files
      BY <3>1 DEF OrderInv
    <3>2. CASE /\ fw \in DOMAIN files
               /\ \E k \in 0..(pos - 1) : files' = Appended(k)
      BY <1>0, <2>2, <3>2, AppendedInOrder
    <3> QED
      BY <2>1, <3>1, <3>2
  <2>5. fw' \notin DOMAIN files'
    <3>1. files' \in FileMaps
      BY <1>8, KeptStep DEF KeptInv, Next
    <3> QED
      BY <2>1, <3>1, NoFileIsNone
  <2> QED
    BY <2>1, <2>3, <2>4, <2>5 DEF OrderInv, Loads
<1>9. CASE Clear
  <2>1. /\ UNCHANGED <<meta, data, files, fw, sample>>
        /\ pos' = 0 /\ step' = "meta"
    BY <1>9 DEF Clear
  <2>2. BufferFollows(files, buf', 0)
    BY SMT DEF BufferFollows
  <2> QED
    BY <2>1, <2>2 DEF OrderInv, Loads
<1>10. ASSUME NEW taken, Restart(taken)
       PROVE  /\ files' \in FileMaps /\ PartOf(files', files)
              /\ fw' \in DOMAIN files' => \A n \in DOMAIN files' : n <= fw'
              /\ buf' = LoadedBuffer(meta', data')
              /\ pos' = LoadedPos(meta', data') /\ sample' = sample
  BY <1>10, RestartedFiles DEF Restart
<1>11. \A fs, b : BufferFollows(fs, b, 0)
  BY SMT DEF BufferFollows
<1>12. CASE Reset
  <2>1. Restart({}) /\ UNCHANGED <<meta, data>>
    BY <1>12 DEF Reset
  <2>2. CASE Loads(meta, data)
    <3>1. buf' = data /\ pos' = meta.pos
      BY <1>10, <2>1, <2>2 DEF LoadedBuffer, LoadedPos, Loads
    <3> QED
      BY <1>10, <2>1, <2>2, <3>1, FewerInOrder DEF OrderInv, Loads
  <2>3. CASE ~Loads(meta, data)
    <3>1. pos' = 0
      BY <1>10, <2>1, <2>3 DEF LoadedPos
    <3>2. ~Loads(meta', data')
      BY <2>1, <2>3
    <3> QED
      BY <1>10, <1>11, <2>1, <3>1, <3>2, FewerInOrder DEF OrderInv, Loads
  <2> QED
    BY <2>2, <2>3
<1>13. CASE PowerFailure
  <2>1. (\E taken : Restart(taken)) /\ meta' = NoMeta
    BY <1>13 DEF PowerFailure
  <2>2. ~Loads(meta', data')
    BY <2>1 DEF Loads, NoMeta
  <2>3. pos' = 0
    BY <1>10, <2>1, <2>2 DEF LoadedPos
  <2> QED
    BY <1>10, <1>11, <2>1, <2>2, <2>3, FewerInOrder DEF OrderInv, Loads
<1>14. CASE UNCHANGED vars
  BY <1>14 DEF vars, OrderInv, Loads
<1> QED
  BY <1>1, <1>2, <1>3, <1>4, <1>5, <1>6, <1>7, <1>8, <1>9, <1>12, <1>13, <1>14
  DEF Next

\* The journal: the files, and the buffer after them.
LEMMA JournalMeans ==
    ASSUME MemoryType, GenuineInv, files \in FileMaps
    PROVE  /\ \A n \in DOMAIN files :
                n \in DOMAIN Journal /\ Journal[n] = files[n] /\ n <= MaxFiles
           /\ MaxFiles + 1 \in DOMAIN Journal
           /\ Len(Journal[MaxFiles + 1]) = pos
           /\ \A i \in 1..pos : Journal[MaxFiles + 1][i] = buf[i]
           /\ DOMAIN Journal = DOMAIN files \cup {MaxFiles + 1}
<1>1. \A n \in DOMAIN files : n <= MaxFiles /\ n \in Int
  BY FileTypes, RtcCacheAssumption, SMT
<1>2. MaxFiles + 1 \notin DOMAIN files
  BY <1>1, RtcCacheAssumption, SMT
<1>3. /\ DOMAIN Journal = DOMAIN files \cup {MaxFiles + 1}
      /\ \A n \in DOMAIN files : Journal[n] = files[n]
      /\ Journal[MaxFiles + 1] = SubSeq(buf, 1, pos)
  BY <1>2 DEF Journal
<1>4. Len(SubSeq(buf, 1, pos)) = pos
      /\ \A i \in 1..pos : SubSeq(buf, 1, pos)[i] = buf[i]
  <2>1. 1 \in Int /\ pos \in Int /\ pos \in Nat
    BY RtcCacheAssumption, SMT DEF MemoryType
  <2>2. \A i \in 1..pos : buf[i] \in SampleIds
    BY SamplesInBuffer
  <2>3. /\ Len(SubSeq(buf, 1, pos)) = IF 1 <= pos THEN pos - 1 + 1 ELSE 0
        /\ \A i \in 1..(pos - 1 + 1) : SubSeq(buf, 1, pos)[i] = buf[1 + i - 1]
    BY <2>1, <2>2, SubSeqProperties
  <2> QED
    BY <2>1, <2>3, SMT
<1> QED
  BY <1>1, <1>3, <1>4

LEMMA PlacesMean ==
    /\ \A p \in Places : /\ p = <<p[1], p[2]>> /\ p[1] \in DOMAIN Journal
                         /\ p[2] \in 1..Len(Journal[p[1]])
    /\ \A n \in DOMAIN Journal : \A i \in 1..Len(Journal[n]) :
         <<n, i>> \in Places
<1> DEFINE Of(n) == {n} \X (1..Len(Journal[n]))
<1>1. Places = UNION {Of(n) : n \in DOMAIN Journal}
  BY Zenon DEF Places
<1>2. ASSUME NEW p \in Places
      PROVE  /\ p = <<p[1], p[2]>> /\ p[1] \in DOMAIN Journal
             /\ p[2] \in 1..Len(Journal[p[1]])
  <2> HIDE DEF Of
  <2>1. PICK n \in DOMAIN Journal : p \in Of(n)
    BY <1>1
  <2> QED
    BY <2>1 DEF Of
<1>3. ASSUME NEW n \in DOMAIN Journal, NEW i \in 1..Len(Journal[n])
      PROVE  <<n, i>> \in Places
  <2>1. <<n, i>> \in Of(n)
    OBVIOUS
  <2> HIDE DEF Of
  <2> QED
    BY <1>1, <2>1
<1> QED
  BY <1>2, <1>3

LEMMA OrderMeans ==
    ASSUME MemoryType, GenuineInv, files \in FileMaps, OrderInv
    PROVE  OlderIsRepeated
<1> SUFFICES ASSUME NEW p \in Places, NEW q \in Places,
                    Before(p, q), At(p) > At(q)
             PROVE  \E r \in Places : Before(r, p) /\ At(r) = At(q)
  BY DEF OlderIsRepeated
<1> DEFINE n == p[1]
           m == q[1]
           i == p[2]
           j == q[2]
           last == MaxFiles + 1
<1>1. /\ n \in DOMAIN Journal /\ i \in 1..Len(Journal[n])
      /\ m \in DOMAIN Journal /\ j \in 1..Len(Journal[m])
      /\ At(p) = Journal[n][i] /\ At(q) = Journal[m][j]
      /\ n < m \/ (n = m /\ i < j)
  BY PlacesMean DEF Before, At
<1>2. /\ \A f \in DOMAIN files : Journal[f] = files[f] /\ f <= MaxFiles
      /\ Len(Journal[last]) = pos
      /\ \A h \in 1..pos : Journal[last][h] = buf[h]
      /\ DOMAIN Journal = DOMAIN files \cup {last}
  BY JournalMeans
<1>3. \A f \in DOMAIN Journal : Len(Journal[f]) \in Nat
  BY <1>2, FileTypes, RtcCacheAssumption, SMT DEF MemoryType
<1> HIDE DEF n, m, i, j, last
<1>4. \E k \in 1..(i - 1) : Journal[n][k] = At(q)
  <2>1. CASE n \in DOMAIN files /\ m \in DOMAIN files
    <3>1. /\ Journal[n] = files[n] /\ Journal[m] = files[m]
          /\ i \in 1..Len(files[n]) /\ j \in 1..Len(files[m])
          /\ files[n][i] > files[m][j] /\ At(q) = files[m][j]
      BY <1>1, <1>2, <2>1
    <3>2. CASE n < m
      BY <2>1, <3>1, <3>2 DEF OrderInv, FilesInOrder, Follows
    <3>3. CASE n = m /\ i < j
      BY <2>1, <3>1, <3>3 DEF OrderInv, FilesInOrder, SelfOrdered
    <3> QED
      BY <1>1, <3>2, <3>3
  <2>2. CASE n \in DOMAIN files /\ m = last
    <3>1. /\ Journal[n] = files[n] /\ i \in 1..Len(files[n])
          /\ j \in 1..pos /\ files[n][i] > buf[j] /\ At(q) = buf[j]
      BY <1>1, <1>2, <2>2
    <3> QED
      BY <2>2, <3>1 DEF OrderInv, BufferFollows, Follows
  <2>3. CASE n = last
    <3>1. m = last /\ i < j /\ i \in 1..pos /\ j \in 1..pos
      <4>1. ~(last < m)
        BY <1>1, <1>2, FileTypes, RtcCacheAssumption, SMT DEF last
      <4> QED
        BY <1>1, <1>2, <2>3, <4>1
    <3>2. i \in 1..(j - 1) /\ At(p) = buf[i] /\ At(q) = buf[j]
      <4>1. i \in 1..(j - 1)
        BY <3>1, RtcCacheAssumption, SMT DEF MemoryType
      <4> QED
        BY <1>1, <1>2, <2>3, <3>1, <4>1
    <3>3. buf[i] < buf[j] /\ buf[i] \in Int /\ buf[j] \in Int
      <4>1. buf[i] \in 1..sample /\ buf[j] \in 1..sample
        BY <3>1 DEF GenuineInv, Genuine
      <4> QED
        BY <3>1, <3>2, <4>1, SMT DEF GenuineInv, Genuine
    <3> QED
      BY <3>2, <3>3, SMT
  <2> QED
    BY <1>1, <1>2, <2>1, <2>2, <2>3
<1>5. PICK k \in 1..(i - 1) : Journal[n][k] = At(q)
  BY <1>4
<1>6. k \in 1..Len(Journal[n]) /\ k < i
  BY <1>1, <1>3, SMT
<1>7. <<n, k>> \in Places
  BY <1>1, <1>6, PlacesMean
<1>8. Before(<<n, k>>, p) /\ At(<<n, k>>) = At(q)
  BY <1>5, <1>6 DEF Before, At, n, i
<1> QED
  BY <1>7, <1>8

\* The cache files and the buffer after them (write(), flush(), the constructor,
\* deleteOldestCacheBlock()) have the samples in the order in which they came,
\* for any history of failed writes, removed files, resets and power failures:
\* an older sample after a newer one repeats one that stands before both.
THEOREM SamplesInOrder == Spec => []OlderIsRepeated
<1>1. (MemoryType /\ GenuineInv /\ Consistent /\ KeptInv /\ OrderInv
       /\ [Next]_vars)
        => OrderInv'
  BY OrderStep
<1>2. MemoryType /\ GenuineInv /\ KeptInv /\ OrderInv => OlderIsRepeated
  BY OrderMeans DEF KeptInv
<1>3. Spec => []Consistent
  <2>1. Init => Consistent
    BY DEF Init, Consistent
  <2> QED
    BY <2>1, ConsistentStep, MemoryTyped, PTL DEF Spec
<1> QED
  BY <1>1, <1>2, <1>3, OrderInit, MemoryTyped, AlwaysGenuine, Kept, PTL
  DEF Spec

=============================================================================
