--------------------------- MODULE Reconciliation ---------------------------
(***************************************************************************)
(* From recorded audio to text (screenpipe-audio, batch mode).  The audio   *)
(* receiver writes every 30 s segment to a file and registers it in         *)
(* audio_chunks; speech heard outside a session is also transcribed on the  *)
(* spot.  Whatever stays pending is picked up ten minutes later by a        *)
(* reconciliation sweep, which joins the files of neighbouring chunks into  *)
(* the first one, stores the text of the whole batch there and deletes the  *)
(* other chunks (reconciliation.rs).                                        *)
(*                                                                          *)
(* One device is modelled.  Chunk i is the i-th segment recorded.  A        *)
(* recording is abstracted to the segments in it and those in it more than  *)
(* once, and its transcription to those of them that are speech, so that    *)
(* text and audio can be compared.  A step is the code between two awaits.  *)
(***************************************************************************)
EXTENDS Naturals, FiniteSets, FiniteSetsExt

CONSTANTS
    Segments,     \* bound: segments recorded are 1..Segments
    Speech,       \* those in which somebody speaks
    MaxBatch,     \* chunks per batch: max_duration_secs / 30
    MaxGap,       \* MAX_GAP_BETWEEN_CHUNKS_SECS, in segments
    SweepLimit,   \* RECONCILIATION_CHUNKS_PER_SWEEP
    MaxAttempts,  \* MAX_TRANSCRIPTION_ATTEMPTS
    MaxDbErrors,  \* MAX_CONSECUTIVE_DB_ERRORS
    Users,        \* requests considered: subset of {"drop", "retranscribe"}
    SlowLive,     \* live transcription may take more than ten minutes
    Faults,       \* failures considered: subset of FaultKinds
    MaxFaults,    \* bound: failures in a behaviour
    Empty         \* segments whose file decodes to no samples at all

\* "db" a statement fails; "stt" the engine fails; "disk" a write to disk
\* fails; "rename" both renames of the merged file fail; "read" a file that is
\* there cannot be read; "crash" the process dies.
FaultKinds == {"db", "stt", "disk", "rename", "read", "crash"}

Chunks   == 1..Segments
Sweepers == {"loop", "receiver"}   \* the 120 s loop; the session-end call

ASSUME ConstantsAssumption ==
    /\ {Segments, MaxBatch, MaxGap, SweepLimit, MaxAttempts, MaxDbErrors} \subseteq Nat \ {0}
    /\ MaxFaults \in Nat
    /\ Speech \subseteq Chunks
    /\ Users \subseteq {"drop", "retranscribe"}
    /\ SlowLive \in BOOLEAN
    /\ Faults \subseteq FaultKinds
    /\ Empty \subseteq Chunks \ Speech

VARIABLES
    captured,    \* segments recorded so far
    ripe, stale, \* the oldest `ripe` are over 10 minutes old, `stale` over 2 h
    file,        \* the segments in the audio file of each chunk
    row,         \* transcription_status in audio_chunks, "none": no row
    attempts,    \* transcription_attempts
    text,        \* the chunk's rows in audio_transcriptions
    pend,        \* pending-transcriptions/chunk-<id>.json
    renewed,     \* chunks whose row was made anew, under another id
    inflight,    \* speech on its way through the live transcription
    running,     \* RECONCILIATION_RUNNING
    sweep,       \* where each caller of reconcile_untranscribed stands
    retrans,     \* the retranscribe request: its chunk and the audio it read
    dropping,    \* the drop request: its chunk and what its file held when checked
    owed,        \* history: registered speech the user has not dropped
    faults

store == <<file, row, renewed, attempts, text, pend>>
time  == <<ripe, stale>>
vars  == <<captured, time, store, inflight, running, sweep, retrans, dropping, owed, faults>>

\* What a recording, or the text made from it, holds once and more than once.
Recordings == [segs : SUBSET Chunks, again : SUBSET Chunks]
Texts      == [segs : SUBSET Speech, again : SUBSET Speech]
Only(k) == [segs |-> {k}, again |-> {}]
NoFile  == [segs |-> {}, again |-> {}]

NoPend == [state |-> "none", heard |-> NoFile, secs |-> {}]
Torn   == [NoPend EXCEPT !.state = "torn"]
NoJob  == [chunk |-> 0, heard |-> NoFile, secs |-> {}]
Idle   == [pc |-> "idle", retries |-> {}, todo |-> {}, valid |-> {},
           audio |-> NoFile, job |-> NoJob, retrying |-> FALSE, errs |-> 0]
NoRetrans == [chunk |-> 0, audio |-> NoFile]
NoDrop    == [chunk |-> 0, segs |-> {}]

Places == {"idle", "retry", "query", "batch", "stt", "merge", "save", "store",
           "unpend", "clean"}

Jobs == [chunk : Chunks \cup {0}, heard : Texts, secs : SUBSET Chunks]
Sweeps == [pc : Places, retries : SUBSET Chunks, todo : SUBSET Chunks,
           valid : SUBSET Chunks, audio : Recordings, job : Jobs,
           retrying : BOOLEAN, errs : 0..(MaxDbErrors + 1)]

TypeOK ==
    /\ captured \in 0..Segments /\ ripe \in 0..captured /\ stale \in 0..ripe
    /\ file \in [Chunks -> Recordings]
    /\ row \in [Chunks -> {"none", "pending", "transcribed", "silent", "failed"}]
    /\ attempts \in [Chunks -> 0..MaxAttempts]
    /\ text \in [Chunks -> SUBSET Texts]
    /\ pend \in [Chunks -> [state : {"none", "torn", "saved"}, heard : Texts,
                            secs : SUBSET Chunks]]
    /\ renewed \subseteq Chunks /\ inflight \subseteq Speech /\ owed \subseteq Speech
    /\ running \in BOOLEAN
    /\ sweep \in [Sweepers -> Sweeps]
    /\ retrans \in [chunk : Chunks \cup {0}, audio : Recordings]
    /\ dropping \in [chunk : Chunks \cup {0}, segs : SUBSET Chunks]
    /\ faults \in 0..MaxFaults

Init ==
    /\ captured = 0 /\ ripe = 0 /\ stale = 0
    /\ file = [i \in Chunks |-> NoFile]
    /\ row = [i \in Chunks |-> "none"]
    /\ attempts = [i \in Chunks |-> 0]
    /\ text = [i \in Chunks |-> {}]
    /\ pend = [i \in Chunks |-> NoPend]
    /\ inflight = {} /\ owed = {} /\ renewed = {}
    /\ running = FALSE
    /\ sweep = [w \in Sweepers |-> Idle]
    /\ retrans = NoRetrans /\ dropping = NoDrop
    /\ faults = 0

-----------------------------------------------------------------------------
(* Vocabulary.                                                              *)

\* The text of a recording, and the recording of the files of S put together.
Heard(audio) == [segs |-> audio.segs \cap Speech, again |-> audio.again \cap Speech]
Joined(S) ==
    [segs  |-> UNION {file[i].segs : i \in S},
     again |-> (UNION {file[i].again : i \in S})
                 \cup {s \in Chunks : \E i, j \in S :
                          i # j /\ s \in file[i].segs \cap file[j].segs}]

\* The row that an id read by a sweep, a pending file or a request names.
Alive(i) == row[i] # "none" /\ i \notin renewed

\* Bound: attempts are counted up to the limit that the code compares them to.
OneMore(n) == IF n < MaxAttempts THEN n + 1 ELSE n

\* What the transcription rows of chunk i speak of, and the chunks a segment
\* can still be transcribed from.
Said(i)    == UNION {t.segs : t \in text[i]}
Spoken(s)  == \E i \in Chunks : row[i] # "none" /\ s \in Said(i)
WaitsIn(s) == {i \in Chunks : row[i] \in {"pending", "failed"} /\ s \in file[i].segs}

NoFault == UNCHANGED faults
Hit(kind) ==
    /\ kind \in Faults /\ faults < MaxFaults
    /\ faults' = faults + 1

At(w, place) == sweep[w].pc = place
Go(w, place) == sweep' = [sweep EXCEPT ![w].pc = place]

-----------------------------------------------------------------------------
(* Recording and live transcription.                                        *)

\* The receiver handler: the file is written, then the row, in at most three
\* tries; speech is transcribed at once unless a live meeting or an audio
\* session defers it.  The handler records nothing while it sweeps itself.
Capture ==
    /\ captured < Segments /\ At("receiver", "idle")
    /\ captured' = captured + 1
    /\ LET k == captured' IN
       /\ file' = [file EXCEPT ![k] = Only(k)]
       /\ \/ /\ NoFault
             /\ row' = [row EXCEPT ![k] = "pending"]
             /\ owed' = owed \cup ({k} \cap Speech)
          \/ /\ Hit("db")
             /\ UNCHANGED <<row, owed>>
       /\ inflight' \in {inflight, inflight \cup ({k} \cap Speech)}
    /\ UNCHANGED <<time, attempts, text, pend, renewed, running, sweep, retrans, dropping>>

\* InsertAudioChunkAndTranscription, keyed by the file's path: the row is made
\* when it is not there, and ids are not used twice (AUTOINCREMENT).  Text that
\* repeats what another device has just told is not stored: one device is
\* modelled; the text of speech is not empty.
LiveInsert(k) ==
    /\ k \in inflight
    /\ inflight' = inflight \ {k}
    /\ \/ /\ NoFault
          /\ row' = [row EXCEPT ![k] = "transcribed"]
          /\ text' = [text EXCEPT ![k] = @ \cup {Only(k)}]
          /\ attempts' = [attempts EXCEPT ![k] = OneMore(@)]
          /\ owed' = owed \cup {k}
          /\ renewed' = IF row[k] = "none" THEN renewed \cup {k} ELSE renewed
       \/ /\ Hit("db")                                  \* all three tries
          /\ UNCHANGED <<row, text, attempts, owed, renewed>>
    /\ UNCHANGED <<captured, time, file, pend, running, sweep, retrans, dropping>>

\* Mutation: the window runs past the chunks there are.
RipenAny ==
    /\ ripe <= captured /\ ripe < Segments
    /\ ripe' = ripe + 1
    /\ UNCHANGED <<captured, stale, store, inflight, running, sweep, retrans, dropping, owed, faults>>

\* RECONCILIATION_FRESHNESS_DELAY_SECS, and the two hours after which silent
\* audio is deleted.
Ripen ==
    /\ ripe < captured
    /\ SlowLive \/ ripe + 1 \notin inflight
    /\ ripe' = ripe + 1
    /\ UNCHANGED <<captured, stale, store, inflight, running, sweep, retrans, dropping, owed, faults>>

GoStale ==
    /\ stale < ripe
    /\ stale' = stale + 1
    /\ UNCHANGED <<captured, ripe, store, inflight, running, sweep, retrans, dropping, owed, faults>>

-----------------------------------------------------------------------------
(* The sweep: reconcile_untranscribed.                                      *)

\* Mutation: a second caller sweeps too.
BeginSweepAnyway(w) ==
    /\ At(w, "idle")
    /\ running' = TRUE
    /\ sweep' = [sweep EXCEPT ![w].pc = "retry",
                              ![w].retries = {i \in Chunks : pend[i].state # "none"}]
    /\ UNCHANGED <<captured, time, store, inflight, retrans, dropping, owed, faults>>

\* A second caller returns at once.
BeginSweep(w) ==
    /\ At(w, "idle") /\ ~running
    /\ running' = TRUE
    /\ sweep' = [sweep EXCEPT ![w].pc = "retry",
                              ![w].retries = {i \in Chunks : pend[i].state # "none"}]
    /\ UNCHANGED <<captured, time, store, inflight, retrans, dropping, owed, faults>>

\* The Guard is dropped.
EndSweep(w) ==
    /\ sweep' = [sweep EXCEPT ![w] = Idle]
    /\ running' = FALSE

\* retry_pending_transcriptions, one file: a torn one is removed, so is one
\* whose chunk is gone (or seems so: audio_chunk_exists(..).unwrap_or(false)),
\* any other goes through finalize_batch again, without the secondary paths.
RetryPending(w) ==
    /\ At(w, "retry")
    /\ \E i \in sweep[w].retries :
       LET left == sweep[w].retries \ {i} IN
       \/ /\ \/ pend[i].state = "torn" /\ NoFault
             \/ pend[i].state = "saved" /\ ~Alive(i) /\ NoFault
             \/ pend[i].state = "saved" /\ Hit("db")
          /\ pend' = [pend EXCEPT ![i] = NoPend]
          /\ sweep' = [sweep EXCEPT ![w].retries = left]
       \/ /\ pend[i].state = "saved" /\ Alive(i) /\ NoFault
          /\ sweep' = [sweep EXCEPT ![w] =
                [@ EXCEPT !.pc = "store", !.retries = left, !.retrying = TRUE,
                          !.job = [chunk |-> i, heard |-> pend[i].heard,
                                   secs |-> pend[i].secs]]]
          /\ UNCHANGED pend
    /\ UNCHANGED <<captured, time, file, row, attempts, text, renewed, inflight, running, retrans, dropping, owed>>

RetriesDone(w) ==
    /\ At(w, "retry") /\ sweep[w].retries = {}
    /\ Go(w, "query")
    /\ UNCHANGED <<captured, time, store, inflight, running, retrans, dropping, owed, faults>>

\* get_reconciliation_candidate_chunks, oldest first.
Candidate(i) == row[i] = "pending" /\ attempts[i] < MaxAttempts /\ i <= ripe
Oldest(S, n)  == {i \in S : Cardinality({j \in S : j <= i}) <= n}
Candidates    == Oldest({i \in Chunks : Candidate(i)}, SweepLimit)

\* group_chunks_by_device, taken one batch at a time: a batch ends when it is
\* full or a gap follows.
NextBatch(S) ==
    {i \in Oldest(S, MaxBatch) :
        \A j \in S : j < i => \E k \in S : j < k /\ k <= i /\ k - j <= MaxGap}

QueryCandidates(w) ==
    /\ At(w, "query")
    /\ \/ /\ Candidates # {} /\ NoFault
          /\ sweep' = [sweep EXCEPT ![w].pc = "batch", ![w].todo = Candidates]
          /\ UNCHANGED running
       \/ Candidates = {} /\ NoFault /\ EndSweep(w)
       \/ Hit("db") /\ EndSweep(w)
    /\ UNCHANGED <<captured, time, store, inflight, retrans, dropping, owed>>

\* No batch left, or too many database errors in a row.
LastBatch(w) ==
    /\ At(w, "batch")
    /\ sweep[w].todo = {} \/ sweep[w].errs >= MaxDbErrors
    /\ EndSweep(w)
    /\ UNCHANGED <<captured, time, store, inflight, retrans, dropping, owed, faults>>

DeleteRows(S) ==
    LET named == {i \in S : Alive(i)} IN
    /\ row' = [i \in Chunks |-> IF i \in named THEN "none" ELSE row[i]]
    /\ text' = [i \in Chunks |-> IF i \in named THEN {} ELSE text[i]]
    /\ attempts' = [i \in Chunks |-> IF i \in named THEN 0 ELSE attempts[i]]

\* The files of a batch are read and joined; chunks without a readable file
\* are orphans and their rows are deleted.  A batch without a sample is passed
\* over, and no attempt is counted.
ReadBatch(w) ==
    /\ At(w, "batch") /\ sweep[w].todo # {} /\ sweep[w].errs < MaxDbErrors
    /\ LET b       == NextBatch(sweep[w].todo)
           missing == {i \in b : file[i] = NoFile}
           Read(orphans, errs) ==
               LET valid == b \ orphans IN
               sweep' = [sweep EXCEPT ![w] =
                   [@ EXCEPT !.pc = IF Joined(valid).segs \subseteq Empty THEN "batch" ELSE "stt",
                             !.todo = sweep[w].todo \ b, !.valid = valid, !.errs = errs,
                             !.audio = Joined(valid)]]
       IN \/ /\ missing = {} /\ NoFault
             /\ Read({}, sweep[w].errs)
             /\ UNCHANGED <<row, text, attempts>>
          \/ /\ missing # {} /\ NoFault
             /\ Read(missing, 0)
             /\ DeleteRows(missing)
          \/ /\ missing # {} /\ Hit("db")
             /\ Read(missing, sweep[w].errs + 1)
             /\ UNCHANGED <<row, text, attempts>>
          \/ /\ Hit("read")
             /\ \E i \in b \ missing :
                   Read(missing \cup {i}, 0) /\ DeleteRows(missing \cup {i})
    /\ UNCHANGED <<captured, time, file, pend, renewed, inflight, running, retrans, dropping, owed>>

\* Mutation: one attempt too many leaves the chunk pending.
RecordFailedLate(S) ==
    /\ attempts' = [i \in Chunks |->
                       IF i \in S /\ Alive(i) THEN OneMore(attempts[i]) ELSE attempts[i]]
    /\ row' = [i \in Chunks |->
                  IF i \in S /\ Alive(i) /\ attempts[i] + 1 > MaxAttempts
                  THEN "failed" ELSE row[i]]

\* record_chunk_outcome(Failed): one more attempt, the last one is final.
RecordFailed(S) ==
    /\ attempts' = [i \in Chunks |->
                       IF i \in S /\ Alive(i) THEN OneMore(attempts[i]) ELSE attempts[i]]
    /\ row' = [i \in Chunks |->
                  IF i \in S /\ Alive(i) /\ attempts[i] + 1 >= MaxAttempts
                  THEN "failed" ELSE row[i]]

\* The batch is given up.  No attempt is counted where the engine opens no
\* session, nor for a chunk whose outcome cannot be recorded (only logged).
TranscribeFails(w) ==
    /\ At(w, "stt") /\ Hit("stt")
    /\ \E recorded \in SUBSET sweep[w].valid : RecordFailed(recorded)
    /\ Go(w, "batch")
    /\ UNCHANGED <<captured, time, file, text, pend, renewed, inflight, running, retrans, dropping, owed>>

\* Mutation: an empty result is not recorded.
RecordSilentNot(recent, old) == UNCHANGED <<row, attempts, text>>

\* record_chunk_outcome(Silent) for some chunks, the rows of others deleted.
RecordSilent(recent, old) ==
    LET silent == {i \in recent : Alive(i)}
        gone   == {i \in old : Alive(i)}
    IN /\ row' = [i \in Chunks |-> CASE i \in gone -> "none"
                                     [] i \in silent -> "silent"
                                     [] OTHER -> row[i]]
       /\ attempts' = [i \in Chunks |-> CASE i \in gone -> 0
                                          [] i \in silent -> OneMore(attempts[i])
                                          [] OTHER -> attempts[i]]
       /\ text' = [i \in Chunks |-> IF i \in gone THEN {} ELSE text[i]]

\* An empty transcription: chunks under two hours old become silent, older
\* ones are deleted with their files.
BatchSilent(w) ==
    /\ At(w, "stt") /\ Heard(sweep[w].audio).segs = {}
    /\ LET S == sweep[w].valid
           old == {i \in S : i <= stale}
       IN \/ /\ NoFault
             /\ RecordSilent(S \ old, old)
             /\ file' = [i \in Chunks |-> IF i \in old THEN NoFile ELSE file[i]]
             /\ sweep' = [sweep EXCEPT ![w].pc = "batch", ![w].errs = 0]
          \/ /\ Hit("db")                              \* none is recorded
             /\ sweep' = [sweep EXCEPT ![w].pc = "batch", ![w].errs = @ + 1]
             /\ UNCHANGED <<row, attempts, text, file>>
    /\ UNCHANGED <<captured, time, pend, renewed, inflight, running, retrans, dropping, owed>>

\* Mutation: the files are not merged.
TranscribedUnmerged(w) ==
    /\ At(w, "stt") /\ Heard(sweep[w].audio).segs # {}
    /\ LET valid == sweep[w].valid IN
       sweep' = [sweep EXCEPT ![w] =
           [@ EXCEPT !.pc = "save", !.retrying = FALSE,
                     !.job = [chunk |-> Min(valid), heard |-> Heard(sweep[w].audio),
                              secs |-> valid \ {Min(valid)}]]]
    /\ UNCHANGED <<captured, time, store, inflight, running, retrans, dropping, owed, faults>>

\* Mutation: the first chunk counts among those to delete.
TranscribedAll(w) ==
    /\ At(w, "stt") /\ Heard(sweep[w].audio).segs # {}
    /\ LET valid == sweep[w].valid IN
       sweep' = [sweep EXCEPT ![w] =
           [@ EXCEPT !.pc = IF valid # {Min(valid)} THEN "merge" ELSE "save",
                     !.retrying = FALSE,
                     !.job = [chunk |-> Min(valid), heard |-> Heard(sweep[w].audio),
                              secs |-> valid]]]
    /\ UNCHANGED <<captured, time, store, inflight, running, retrans, dropping, owed, faults>>

\* Text: it will go to the first chunk of the batch.
Transcribed(w) ==
    /\ At(w, "stt") /\ Heard(sweep[w].audio).segs # {}
    /\ LET valid == sweep[w].valid IN
       sweep' = [sweep EXCEPT ![w] =
           [@ EXCEPT !.pc = IF valid # {Min(valid)} THEN "merge" ELSE "save",
                     !.retrying = FALSE,
                     !.job = [chunk |-> Min(valid), heard |-> Heard(sweep[w].audio),
                              secs |-> valid \ {Min(valid)}]]]
    /\ UNCHANGED <<captured, time, store, inflight, running, retrans, dropping, owed, faults>>

\* replace_with_merged_audio: written beside and renamed over the primary.
\* When the rename fails the primary is removed before the second try.  After
\* an error the sweep moves on and counts no attempt.
Merge(w) ==
    /\ At(w, "merge")
    /\ LET p == sweep[w].job.chunk IN
       \/ /\ NoFault
          /\ file' = [file EXCEPT ![p] = sweep[w].audio]
          /\ Go(w, "save")
       \/ Hit("disk") /\ UNCHANGED file /\ Go(w, "batch")
       \/ Hit("rename") /\ file' = [file EXCEPT ![p] = NoFile] /\ Go(w, "batch")
    /\ UNCHANGED <<captured, time, row, attempts, text, pend, renewed, inflight, running, retrans, dropping, owed>>

\* write_pending; the database is tried even when it fails.
SavePending(w) ==
    /\ At(w, "save")
    /\ LET job == sweep[w].job IN
       \/ /\ NoFault
          /\ pend' = [pend EXCEPT ![job.chunk] =
                         [state |-> "saved", heard |-> job.heard, secs |-> job.secs]]
       \/ /\ Hit("disk")
          /\ \E p \in {pend[job.chunk], Torn} : pend' = [pend EXCEPT ![job.chunk] = p]
    /\ Go(w, "store")
    /\ UNCHANGED <<captured, time, file, row, attempts, text, renewed, inflight, running, retrans, dropping, owed>>

-----------------------------------------------------------------------------
(* finalize_batch, for a batch and for a retry.                             *)

\* record_chunk_outcome(Transcribed): the chunk's text is replaced and its
\* status set in one transaction, which the foreign key fails without a row.
ReplaceText(i, heard) ==
    /\ text' = [text EXCEPT ![i] = {heard}]
    /\ row' = [row EXCEPT ![i] = "transcribed"]
    /\ attempts' = [attempts EXCEPT ![i] = OneMore(@)]

StoreText(w) ==
    /\ At(w, "store") /\ Alive(sweep[w].job.chunk) /\ NoFault
    /\ ReplaceText(sweep[w].job.chunk, sweep[w].job.heard)
    /\ Go(w, "unpend")
    /\ UNCHANGED <<captured, time, file, pend, renewed, inflight, running, retrans, dropping, owed>>

AfterFinalize(w, errs) ==
    sweep' = [sweep EXCEPT ![w] =
        IF @.retrying THEN [@ EXCEPT !.pc = "retry"]
        ELSE [@ EXCEPT !.pc = "batch", !.errs = errs]]

\* Mutation: finalize_batch goes on after a failed store.
StoreFailsGoesOn(w) ==
    /\ At(w, "store")
    /\ (~Alive(sweep[w].job.chunk) /\ NoFault) \/ Hit("db")
    /\ Go(w, "unpend")
    /\ UNCHANGED <<captured, time, store, inflight, running, retrans, dropping, owed>>

StoreFails(w) ==
    /\ At(w, "store")
    /\ (~Alive(sweep[w].job.chunk) /\ NoFault) \/ Hit("db")
    /\ AfterFinalize(w, sweep[w].errs + 1)
    /\ UNCHANGED <<captured, time, store, inflight, running, retrans, dropping, owed>>

RemovePending(w) ==
    /\ At(w, "unpend")
    /\ pend' = [pend EXCEPT ![sweep[w].job.chunk] = NoPend]
    /\ Go(w, "clean")
    /\ UNCHANGED <<captured, time, file, row, attempts, text, renewed, inflight, running, retrans, dropping, owed, faults>>

\* The other chunks of the batch go.  A failed delete is only logged, and
\* their files are removed all the same; a retry does not know the files.
DeleteSecondaries(w) ==
    /\ At(w, "clean")
    /\ LET secs == sweep[w].job.secs IN
       /\ \/ NoFault /\ DeleteRows(secs)
          \/ secs # {} /\ Hit("db") /\ UNCHANGED <<row, text, attempts>>
       /\ file' = [i \in Chunks |-> IF i \in secs /\ ~sweep[w].retrying THEN NoFile ELSE file[i]]
    /\ AfterFinalize(w, 0)
    /\ UNCHANGED <<captured, time, pend, renewed, inflight, running, retrans, dropping, owed>>

-----------------------------------------------------------------------------
(* Requests, and the end of the process.                                    *)

\* drop_audio_reconciliation_chunk_handler: only a chunk still waiting.  The
\* check and the deletion are two calls, and a sweep may come in between.
DropCheck(i) ==
    /\ "drop" \in Users /\ dropping = NoDrop /\ Candidate(i)
    /\ dropping' = [chunk |-> i, segs |-> file[i].segs]
    /\ UNCHANGED <<captured, time, store, inflight, running, sweep, retrans, owed, faults>>

\* delete_audio_chunk, whatever has become of the chunk, or it fails.  What the
\* user gave up is the chunk's speech, and what had been merged into it alone.
DropDelete ==
    /\ dropping # NoDrop
    /\ dropping' = NoDrop
    /\ LET i == dropping.chunk IN
       \/ /\ DeleteRows({i})
          /\ owed' = {s \in owed \ {i} : s \in dropping.segs => WaitsIn(s) \ {i} # {}}
       \/ UNCHANGED <<row, text, attempts, owed>>
    /\ UNCHANGED <<captured, time, file, pend, renewed, inflight, running, sweep, retrans, faults>>

\* retranscribe_handler: the file is read, the engine runs, and the chunk's
\* text is replaced; an empty result only sets the status.
RetranscribeRead(i) ==
    /\ "retranscribe" \in Users /\ retrans = NoRetrans
    /\ Alive(i) /\ file[i] # NoFile
    /\ retrans' = [chunk |-> i, audio |-> file[i]]
    /\ UNCHANGED <<captured, time, store, inflight, running, sweep, dropping, owed, faults>>

RetranscribeStore ==
    /\ retrans # NoRetrans
    /\ retrans' = NoRetrans
    /\ LET i == retrans.chunk  heard == Heard(retrans.audio) IN
       \/ Alive(i) /\ heard.segs # {} /\ ReplaceText(i, heard)
       \/ heard.segs = {} /\ RecordSilent({i}, {})
       \/ ~Alive(i) /\ UNCHANGED <<row, attempts, text>>
    /\ UNCHANGED <<captured, time, renewed, file, pend, inflight, running, sweep, dropping, owed, faults>>

\* The process dies and is started again: tasks and statics are gone, and a
\* pending file being written may be cut short.
Crash ==
    /\ Hit("crash")
    /\ inflight' = {} /\ running' = FALSE
    /\ retrans' = NoRetrans /\ dropping' = NoDrop
    /\ sweep' = [w \in Sweepers |-> Idle]
    /\ \E cut \in SUBSET {sweep[w].job.chunk : w \in {v \in Sweepers : At(v, "save")}} :
          pend' = [i \in Chunks |-> IF i \in cut THEN Torn ELSE pend[i]]
    /\ UNCHANGED <<captured, time, file, row, attempts, text, renewed, owed>>

-----------------------------------------------------------------------------
Sweep(w) ==
    \/ RetryPending(w) \/ RetriesDone(w) \/ QueryCandidates(w)
    \/ LastBatch(w) \/ ReadBatch(w)
    \/ TranscribeFails(w) \/ BatchSilent(w) \/ Transcribed(w)
    \/ Merge(w) \/ SavePending(w)
    \/ StoreText(w) \/ StoreFails(w) \/ RemovePending(w) \/ DeleteSecondaries(w)

Next ==
    \/ Capture \/ Ripen \/ GoStale
    \/ \E k \in Chunks : LiveInsert(k) \/ RetranscribeRead(k) \/ DropCheck(k)
    \/ RetranscribeStore \/ DropDelete \/ Crash
    \/ \E w \in Sweepers : BeginSweep(w) \/ Sweep(w)

Spec == Init /\ [][Next]_vars

\* Time passes, the live pipeline answers, the loop sweeps every 120 s and a
\* sweep runs on.  (Sweeps are skipped in an audio session: sessions end.)
Fairness ==
    /\ WF_vars(Ripen)
    /\ \A k \in Chunks : WF_vars(LiveInsert(k))
    /\ WF_vars(BeginSweep("loop"))
    /\ \A w \in Sweepers : WF_vars(Sweep(w))

FairSpec == Spec /\ Fairness

-----------------------------------------------------------------------------
(* Properties.                                                              *)

\* Speech that was registered is never lost: it is in the text of some chunk,
\* or in the audio of a chunk that is still to be transcribed or was kept
\* after the last attempt failed - whatever the step between the merge of a
\* batch and the deletion of its other chunks at which the process dies.
\* (Where nobody drops a chunk and no database error comes on top: RC_drop.cfg
\* and RC_lost.cfg.)
NoLoss ==
    \A s \in owed : Spoken(s) \/ WaitsIn(s) # {}

\* Between sweeps no speech is told twice, by two chunks or twice by one:
\* "Delete the remaining chunks (and their files) to avoid duplicates".
TextOnce ==
    ~running => \A i, j \in Chunks : \A t \in text[i], u \in text[j] :
        /\ t.again = {}
        /\ (i # j \/ t # u) => t.segs \cap u.segs = {}

\* What the text of a chunk says can be played from its file, while it has one: the merged
\* audio is in place before the text of a batch, "so UI playback and displayed
\* duration describe the same media".
TextPlayable ==
    \A i \in Chunks : row[i] = "transcribed" /\ file[i] # NoFile
                          => Said(i) \subseteq file[i].segs

\* A chunk that is pending can be picked: the attempts that exclude it from
\* the query have made it failed.
NoZombie ==
    \A i \in Chunks : row[i] = "pending" => attempts[i] < MaxAttempts

\* Every recorded chunk leaves the pending state, given that the failures are
\* finitely many and every file holds samples: nothing counts an attempt for a
\* batch without any (RC_stuck.cfg).
Settles == \A i \in Chunks : row[i] = "pending" ~> row[i] # "pending"

-----------------------------------------------------------------------------
(* What the archive promises, whatever the chunk a piece of speech is in.   *)

\* How far each piece of speech has come; "lost" is no stage of the ledger.
Stage == [s \in Speech |-> IF s \notin owed THEN "unheard"
                          ELSE IF Spoken(s) THEN "told"
                          ELSE IF WaitsIn(s) # {} THEN "waiting" ELSE "lost"]

Ledger == INSTANCE SpeechLedger WITH stage <- Stage

\* Recording, live transcription, sweeps, retries and restarts implement the ledger: what
\* is registered waits until it is told, and what is told stays told when its text is
\* replaced or its chunk deleted with its batch.  (Where nobody drops a chunk: a drop
\* may take along what a sweep has just merged into it, RC_drop.cfg.)
ImplementsSpeechLedger == Ledger!Spec

=============================================================================
