------------------------------- MODULE RtcCache -------------------------------
(***************************************************************************)
(* The cache of controller C016: RTC_cache_handler_struct.                 *)
(*                                                                         *)
(* Samples are collected in a buffer that is copied to RTC memory, which   *)
(* keeps its content when the unit is reset but not when the power fails.  *)
(* When the buffer is full it is appended to the newest of a series of     *)
(* files.  RTC memory is written in two parts, metadata with checksums and *)
(* data, and a reset can come between any two writes.                      *)
(*                                                                         *)
(* The unit of data is one sample (24 bytes).  A checksum is modelled by   *)
(* what it is computed of: it fits nothing else.  File numbers are those   *)
(* updateRTC_filenameCounters() finds in the file system, which is called  *)
(* whenever they are used.  ESP32 has no such memory and is left out.      *)
(***************************************************************************)
EXTENDS Integers, Sequences, FiniteSets

CONSTANTS
    Cap,         \* samples in RTC memory (RTC_CACHE_DATA_SIZE)
    FileMax,     \* samples in a file that is full (CACHE_FILE_MAX_SIZE)
    MaxSamples,  \* bound: number of samples
    MaxFiles,    \* bound: number of files
    MaxResets    \* bound: number of resets

ASSUME RtcCacheAssumption ==
    /\ Cap \in Nat \ {0} /\ FileMax \in Nat \ {0}
    /\ MaxSamples \in Nat /\ MaxFiles \in Nat \ {0} /\ MaxResets \in Nat

SampleIds == 1..MaxSamples
FileNrs   == 1..MaxFiles

\* What a cell of the buffer can hold: a sample, nothing, or what happens to be
\* in RTC memory after a power failure.
Zero  == 0
Junk  == -1
Cells == SampleIds \cup {Zero, Junk}

Buffers   == [1..Cap -> Cells]
Empty     == [i \in 1..Cap |-> Zero]
NoFile    == 0
NoMeta    == [valid |-> FALSE, sum |-> Empty, pos |-> 0]
Metadata  == [valid : BOOLEAN, sum : Buffers, pos : 0..Cap]

VARIABLES
    buf,         \* RTC_cache_data
    allocated,   \* the size of RTC_cache_data is not 0
    pos,         \* RTC_cache.writePos
    meta,        \* RTC memory: the metadata, valid if its checksum fits
    data,        \* RTC memory: the data
    files,       \* the cache files, by number
    fw,          \* the file opened to write, or NoFile
    writeError,  \* writeerror
    step,        \* what write() does next
    cells,       \* the cells saveRTCcache() is to save
    sample,      \* the last sample passed to write()
    accepted,    \* history: samples for which write() returned true
    gone,        \* history: samples removed with old files or a power failure
    lost,        \* history: accepted samples that a reset has lost
    settled,     \* history: the cells in RTC memory are those of buf, beyond
                 \* what was saved since the power came on
    resets       \* history: number of resets

vars == <<buf, allocated, pos, meta, data, files, fw, writeError, step, cells,
          sample, accepted, gone, lost, settled, resets>>

Steps == {"idle", "flush", "file", "clear", "store", "meta", "data"}

InFiles(fs)   == UNION {{fs[n][i] : i \in 1..Len(fs[n])} : n \in DOMAIN fs}
InBuffer(b, p) == {b[i] : i \in 1..p}

Init ==
    /\ buf = Empty /\ pos = 0
    /\ meta = NoMeta
    /\ data \in {Empty, [i \in 1..Cap |-> Junk]}
    /\ \/ files = <<>> /\ fw = NoFile /\ allocated \in BOOLEAN
       \/ files = [n \in {1} |-> <<>>] /\ fw = 1 /\ allocated = TRUE
    /\ writeError = FALSE
    /\ step = "idle" /\ cells = {}
    /\ sample = 0
    /\ accepted = {} /\ gone = {} /\ lost = {}
    /\ settled = FALSE
    /\ resets = 0

-----------------------------------------------------------------------------
\* write(): the sample is stored, after a flush when the buffer is full.
Write ==
    /\ step = "idle"
    /\ sample < MaxSamples
    /\ sample' = sample + 1
    /\ step' = IF pos < Cap THEN "store" ELSE "flush"
    /\ UNCHANGED <<buf, allocated, pos, meta, data, files, fw, writeError,
                   cells, accepted, gone, lost, settled, resets>>

\* When the file system was full as the constructor called flush(), there is no
\* buffer to store a sample in: the unit crashes, and Reset is all that follows.
Store ==
    /\ step = "store"
    /\ allocated
    /\ buf' = [buf EXCEPT ![pos + 1] = sample]
    /\ pos' = pos + 1
    /\ cells' = {pos + 1}
    /\ step' = "meta"
    /\ UNCHANGED <<allocated, meta, data, files, fw, writeError, sample,
                   accepted, gone, lost, settled, resets>>

\* saveRTCcache(): the metadata, with both checksums, ...
SaveMeta ==
    /\ step = "meta"
    /\ meta' = [valid |-> TRUE, sum |-> buf, pos |-> pos]
    /\ step' = "data"
    /\ UNCHANGED <<buf, allocated, pos, data, files, fw, writeError, cells,
                   sample, accepted, gone, lost, settled, resets>>

\* Mutant: the cells in front of those that have changed are saved.
SavedTooEarly == [i \in 1..Cap |-> IF i + 1 \in cells THEN buf[i] ELSE data[i]]

\* ... and then the cells that have changed, or all of them after a flush.
SavedData == [i \in 1..Cap |-> IF i \in cells THEN buf[i] ELSE data[i]]

SaveData ==
    /\ step = "data"
    /\ data' = SavedData
    /\ settled' = (settled \/ cells = 1..Cap)
    /\ IF pos = 0
         THEN step' = "store" /\ UNCHANGED accepted
         ELSE step' = "idle" /\ accepted' = accepted \cup {sample}
    /\ UNCHANGED <<buf, allocated, pos, meta, files, fw, writeError, cells,
                   sample, gone, lost, resets>>

-----------------------------------------------------------------------------
\* The files

Full(fs, n) == Len(fs[n]) >= FileMax

\* Mutant: when the newest file is full, the first free number is used.
NextIsFirstFree(fs) ==
    LET free == (1..MaxFiles + 1) \ DOMAIN fs
    IN  IF \E n \in DOMAIN fs : ~Full(fs, n)
          THEN CHOOSE n \in DOMAIN fs : ~Full(fs, n)
          ELSE CHOOSE n \in free : \A m \in free : n <= m

\* updateRTC_filenameCounters(): the file to write next.
NextFile(fs) ==
    IF DOMAIN fs = {} THEN 1
    ELSE LET highest == CHOOSE n \in DOMAIN fs : \A m \in DOMAIN fs : m <= n
         IN  IF Full(fs, highest) THEN highest + 1 ELSE highest

\* What calls of deleteOldestCacheBlock() can remove: the oldest files, but not
\* the one that is to be written next.
OldestFiles(fs) ==
    {D \in SUBSET DOMAIN fs :
        /\ NextFile(fs) \notin D
        /\ \A n \in D, m \in DOMAIN fs \ D : n < m}

Without(fs, D) == [n \in DOMAIN fs \ D |-> fs[n]]

Remove(D) ==
    gone' = gone \cup ((InFiles(files) \ InFiles(Without(files, D)))
                         \ InBuffer(buf, pos))

\* A file is opened to append; it is created when it does not exist.
Open(fs, n) ==
    /\ n \in FileNrs
    /\ fw' = n
    /\ files' = [m \in DOMAIN fs \cup {n} |->
                   IF m \in DOMAIN fs THEN fs[m] ELSE <<>>]

HasRoom == fw \in DOMAIN files /\ ~Full(files, fw)

\* prepareFileForWrite(): the file system is full, the open file has room, or
\* the next file is opened.  At most three tries; each removes the oldest file
\* when there is little space left or the last write has failed.
PrepareFails ==
    /\ \E D \in OldestFiles(files) :
         /\ Cardinality(D) <= 3
         /\ D # {} => ~HasRoom
         /\ files' = Without(files, D)
         /\ Remove(D)
         /\ writeError' = (writeError /\ D = {})
    /\ fw' \in IF HasRoom THEN {fw} ELSE {NoFile}
         \cup (IF files' = files THEN {fw} ELSE {})

OpenNext ==
    \E D \in OldestFiles(files) :
       /\ Cardinality(D) <= 3
       /\ writeError => D # {} \/ OldestFiles(files) = {{}}
       /\ Open(Without(files, D), NextFile(Without(files, D)))
       /\ Remove(D)
       /\ writeError' = (writeError /\ D = {})

\* The open file has been deleted: what its size is then is up to the library.
KeepOpen ==
    /\ HasRoom \/ (fw # NoFile /\ fw \notin DOMAIN files)
    /\ UNCHANGED <<files, fw, gone, writeError>>

PrepareFile == KeepOpen \/ (~HasRoom /\ OpenNext)

\* flush() fails, and so does write(): the sample is dropped.
FlushFails ==
    /\ step = "flush"
    /\ PrepareFails
    /\ step' = "idle"
    /\ UNCHANGED <<buf, allocated, pos, meta, data, cells, sample, accepted,
                   lost, settled, resets>>

Flush ==
    /\ step = "flush"
    /\ PrepareFile
    /\ step' = "file"
    /\ UNCHANGED <<buf, allocated, pos, meta, data, cells, sample, accepted,
                   lost, settled, resets>>

Appended(k) == [files EXCEPT ![fw] = @ \o SubSeq(buf, 1, k)]

WriteFile ==
    /\ step = "file"
    /\ fw \in DOMAIN files
    /\ files' = Appended(pos)
    /\ step' = "clear"
    /\ UNCHANGED <<buf, allocated, pos, meta, data, fw, writeError, cells,
                   sample, accepted, gone, lost, settled, resets>>

\* Mutant: the error is noticed, but the buffer is emptied all the same.
WriteFileFailsIgnored ==
    /\ step = "file"
    /\ IF fw \in DOMAIN files
         THEN \E k \in 0..(pos - 1) : files' = Appended(k)
         ELSE UNCHANGED files
    /\ fw' = NoFile
    /\ writeError' \in {writeError, TRUE}
    /\ step' = "clear"
    /\ UNCHANGED <<buf, allocated, pos, meta, data, cells, sample, accepted,
                   gone, lost, settled, resets>>

\* Only k samples were written: the file is closed, and the next one to open it
\* removes an old file if garbage collection has not helped.
WriteFileFails ==
    /\ step = "file"
    /\ IF fw \in DOMAIN files
         THEN \E k \in 0..(pos - 1) : files' = Appended(k)
         ELSE UNCHANGED files
    /\ fw' = NoFile
    /\ writeError' \in {writeError, TRUE}
    /\ step' = "idle"
    /\ UNCHANGED <<buf, allocated, pos, meta, data, cells, sample, accepted,
                   gone, lost, settled, resets>>

\* Mutant: the buffer is marked as empty, but RTC memory is not told.
ClearOnly ==
    /\ step = "clear"
    /\ buf' = Empty
    /\ pos' = 0
    /\ step' = "store"
    /\ UNCHANGED <<allocated, meta, data, files, fw, writeError, cells, sample,
                   accepted, gone, lost, settled, resets>>

\* fw.flush(); the buffer is emptied and all of it is to be saved.
Clear ==
    /\ step = "clear"
    /\ buf' = Empty
    /\ pos' = 0
    /\ cells' = 1..Cap
    /\ step' = "meta"
    /\ UNCHANGED <<allocated, meta, data, files, fw, writeError, sample,
                   accepted, gone, lost, settled, resets>>

\* The file list page removes old cache files.
DeleteCache ==
    /\ step = "idle"
    /\ \E D \in OldestFiles(files) \ {{}} :
         /\ files' = Without(files, D)
         /\ Remove(D)
    /\ writeError' = FALSE
    /\ UNCHANGED <<buf, allocated, pos, meta, data, fw, step, cells, sample,
                   accepted, lost, settled, resets>>

-----------------------------------------------------------------------------
\* Resets

\* Mutant: the checksum of the data is not compared.
LoadsMetaOnly(m, d) == m.valid

\* loadMetaData() and loadData() succeed.
Loads(m, d) == m.valid /\ m.sum = d

\* What the constructor leaves in the buffer, and how much of it counts.
LoadedBuffer(m, d) == IF m.valid THEN d ELSE Empty
LoadedPos(m, d)    == IF Loads(m, d) THEN m.pos ELSE 0

\* What was written to a file, but not flushed, may be missing after a reset.
FilesAfterReset ==
    IF step = "clear"
      THEN {[files EXCEPT ![fw] = SubSeq(@, 1, Len(@) - k)] : k \in 0..pos}
      ELSE {files}

\* After a failed load the constructor calls flush(), which opens a file, having
\* removed the oldest ones when there is little space.  That fails early when the
\* file system is full: if the metadata was not valid either, nothing has
\* allocated the buffer then.
OpenAtBoot(fs) ==
    \/ files' = fs /\ fw' = NoFile /\ allocated' \in {meta'.valid, TRUE}
    \/ /\ ~Loads(meta', data')
       /\ allocated' = TRUE
       /\ \E D \in OldestFiles(fs) :
            /\ Cardinality(D) <= 3
            /\ \/ files' = Without(fs, D) /\ fw' = NoFile
               \/ Open(Without(fs, D), NextFile(Without(fs, D)))

Restart(taken) ==
    /\ resets < MaxResets
    /\ resets' = resets + 1
    /\ buf' = LoadedBuffer(meta', data')
    /\ pos' = LoadedPos(meta', data')
    /\ \E fs \in FilesAfterReset :
         /\ OpenAtBoot(fs)
         /\ gone' = gone \cup (InFiles(fs) \ InFiles(files')) \cup taken
    /\ writeError' = FALSE
    /\ step' = "idle" /\ cells' = {}
    /\ UNCHANGED <<sample, accepted>>

\* A crash, a watchdog or a reboot: RTC memory keeps its content.
Reset ==
    /\ UNCHANGED <<meta, data>>
    /\ Restart({})
    /\ settled' = meta.valid
    /\ lost' = lost \cup {s \in accepted \ gone' :
                            s \notin InFiles(files') \cup InBuffer(buf', pos')}

\* The power fails: RTC memory has a random content when it is back.
PowerFailure ==
    /\ meta' = NoMeta
    /\ data' \in {Empty, [i \in 1..Cap |-> Junk]}
    /\ Restart({s \in accepted : s \notin InFiles(files')})
    /\ settled' = FALSE
    /\ UNCHANGED lost

Next ==
    \/ Write \/ Store \/ SaveMeta \/ SaveData
    \/ Flush \/ FlushFails
    \/ WriteFile \/ WriteFileFails \/ Clear
    \/ DeleteCache
    \/ Reset \/ PowerFailure

Spec == Init /\ [][Next]_vars

-----------------------------------------------------------------------------
\* Properties

TypeOK ==
    /\ buf \in Buffers /\ allocated \in BOOLEAN /\ pos \in 0..Cap
    /\ meta \in Metadata
    /\ data \in Buffers
    /\ DOMAIN files \subseteq FileNrs
    /\ \A n \in DOMAIN files : files[n] \in Seq(SampleIds)
    /\ fw \in FileNrs \cup {NoFile}
    /\ writeError \in BOOLEAN
    /\ step \in Steps /\ cells \subseteq 1..Cap
    /\ sample \in 0..MaxSamples
    /\ accepted \subseteq SampleIds /\ gone \subseteq SampleIds
    /\ lost \subseteq SampleIds
    /\ settled \in BOOLEAN
    /\ resets \in 0..MaxResets

\* Whenever the unit is reset, what it loads is a run of samples in the order
\* in which they came, never what a half-done save or a power failure left.
LoadedIsGenuine ==
    \A i \in 1..LoadedPos(meta, data) :
        /\ data[i] \in 1..sample
        /\ \A j \in 1..(i - 1) : data[j] < data[i]

\* A reset between two calls of write() loads just what was in the buffer, once
\* all cells were saved since the power came on.
RestIsRecoverable ==
    step = "idle" /\ settled =>
        /\ LoadedPos(meta, data) = pos
        /\ pos > 0 => LoadedBuffer(meta, data) = buf

\* An accepted sample is in the buffer or a file, unless it was removed with an
\* old file or a reset has taken it.
NoSampleForgotten ==
    accepted \subseteq InBuffer(buf, pos) \cup InFiles(files) \cup gone \cup lost

\* A reset loses samples only if it comes between the two writes of a save, or
\* before all cells were saved since the power came on.
LossNeedsTornSave ==
    [][lost' # lost => step = "data" \/ ~settled]_vars

\* The files in order of their numbers, and the buffer after them.
Journal ==
    [n \in DOMAIN files \cup {MaxFiles + 1} |->
        IF n \in DOMAIN files THEN files[n] ELSE SubSeq(buf, 1, pos)]

Places == UNION {{n} \X (1..Len(Journal[n])) : n \in DOMAIN Journal}

Before(p, q) == p[1] < q[1] \/ (p[1] = q[1] /\ p[2] < q[2])
At(p)        == Journal[p[1]][p[2]]

\* The files and then the buffer have the samples in the order in which they
\* came: an older one after a newer one is a repetition (of a flush that a reset
\* or an error interrupted), across failed writes, new files and removed ones.
OlderIsRepeated ==
    \A p, q \in Places : Before(p, q) /\ At(p) > At(q) =>
        \E r \in Places : Before(r, p) /\ At(r) = At(q)

=============================================================================
