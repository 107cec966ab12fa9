----------------------- MODULE Reconciliation_proofs -----------------------
(***************************************************************************)
(* Theorems about Reconciliation, for any number of segments and faults and *)
(* any batch, gap, sweep and attempt limits.                                *)
(***************************************************************************)
EXTENDS Reconciliation, LeastElement, TLAPS

Rows     == {"none", "pending", "transcribed", "silent", "failed"}
Pendings == [state : {"none", "torn", "saved"}, heard : Texts, secs : SUBSET Chunks]
Requests == {NoRetrans} \cup [chunk : Chunks, audio : Recordings]
Drops    == {NoDrop} \cup [chunk : Chunks, segs : SUBSET Chunks]

\* The type invariant, by the variables that change together.
TimeTypes  == captured \in 0..Segments /\ ripe \in 0..captured /\ stale \in 0..ripe
FileTypes  == file \in [Chunks -> Recordings]
RowTypes   == /\ row \in [Chunks -> Rows]
              /\ attempts \in [Chunks -> 0..MaxAttempts]
              /\ text \in [Chunks -> SUBSET Texts]
PendTypes  == pend \in [Chunks -> Pendings]
LiveTypes  == renewed \subseteq Chunks /\ inflight \subseteq Speech /\ owed \subseteq Speech
SweepTypes == running \in BOOLEAN /\ sweep \in [Sweepers -> Sweeps]
RestTypes  == retrans \in Requests /\ dropping \in Drops /\ faults \in 0..MaxFaults

Types == /\ TimeTypes /\ FileTypes /\ RowTypes /\ PendTypes
         /\ LiveTypes /\ SweepTypes /\ RestTypes

-----------------------------------------------------------------------------
(* The constants, and the operators of the model.                           *)

LEMMA Constants ==
    /\ {Segments, MaxBatch, MaxGap, SweepLimit, MaxAttempts, MaxDbErrors} \subseteq Nat \ {0}
    /\ MaxFaults \in Nat /\ Speech \subseteq Chunks /\ Chunks \subseteq Nat \ {0}
    /\ Segments \in Nat /\ MaxAttempts \in Nat \ {0} /\ MaxDbErrors \in Nat \ {0}
  BY ConstantsAssumption DEF Chunks

LEMMA Recorded ==
    /\ NoFile \in Recordings /\ NoFile \in Texts
    /\ \A k \in Chunks : Only(k) \in Recordings /\ Only(k).segs = {k} /\ Only(k) # NoFile
    /\ \A k \in Speech : Only(k) \in Texts
    /\ \A a \in Recordings : Heard(a) \in Texts /\ Heard(a).segs = a.segs \cap Speech
    /\ NoPend \in Pendings /\ Torn \in Pendings /\ NoJob \in Jobs /\ Idle \in Sweeps
    /\ NoPend.state = "none" /\ NoPend.secs = {} /\ Torn.state = "torn" /\ Torn.secs = {}
    /\ Idle.pc = "idle" /\ Idle.errs = 0 /\ NoRetrans \in Requests /\ NoRetrans.chunk = 0
    /\ NoDrop \in Drops /\ NoDrop.chunk = 0
<1>1. NoFile \in Recordings /\ NoFile \in Texts
  BY DEF NoFile, Recordings, Texts
<1>2. \A k \in Chunks : Only(k) \in Recordings /\ Only(k).segs = {k} /\ Only(k) # NoFile
  BY DEF NoFile, Recordings, Only
<1>3. \A k \in Speech : Only(k) \in Texts
  BY DEF Texts, Only
<1>4. \A a \in Recordings : Heard(a) \in Texts /\ Heard(a).segs = a.segs \cap Speech
  BY DEF Recordings, Texts, Heard
<1>5. NoPend \in Pendings /\ NoPend.state = "none" /\ NoPend.secs = {}
  BY <1>1 DEF NoPend, Pendings
<1>6. Torn \in Pendings /\ Torn.state = "torn" /\ Torn.secs = {}
  BY <1>1 DEF NoPend, Torn, Pendings
<1>7. NoJob \in Jobs
  BY <1>1 DEF NoJob, Jobs
<1>8. Idle \in Sweeps /\ Idle.pc = "idle" /\ Idle.errs = 0
  BY <1>1, <1>7, Constants DEF Idle, Sweeps, Places
<1>9. NoRetrans \in Requests /\ NoRetrans.chunk = 0 /\ NoDrop \in Drops /\ NoDrop.chunk = 0
  BY DEF NoRetrans, Requests, NoDrop, Drops
<1>. QED
  BY <1>1, <1>2, <1>3, <1>4, <1>5, <1>6, <1>7, <1>8, <1>9

\* Files joined hold what each of them holds.
LEMMA JoinedHolds ==
    ASSUME FileTypes, NEW S \in SUBSET Chunks
    PROVE  /\ Joined(S) \in Recordings
           /\ Joined(S).segs = UNION {file[i].segs : i \in S}
           /\ \A i \in S : file[i].segs \subseteq Joined(S).segs
<1>1. \A i \in Chunks : file[i].segs \subseteq Chunks /\ file[i].again \subseteq Chunks
  BY DEF FileTypes, Recordings
<1>. DEFINE a == UNION {file[i].segs : i \in S}
            b == (UNION {file[i].again : i \in S})
                   \cup {s \in Chunks : \E i, j \in S :
                            i # j /\ s \in file[i].segs \cap file[j].segs}
<1>0. UNION {file[i].again : i \in S} \subseteq Chunks /\ UNION {file[i].segs : i \in S} \subseteq Chunks
  BY <1>1, Zenon
<1>2. a \subseteq Chunks /\ b \subseteq Chunks /\ \A i \in S : file[i].segs \subseteq a
  BY <1>0, <1>1
<1>3. Joined(S) = [segs |-> a, again |-> b]
  BY DEF Joined
<1>. HIDE DEF a, b
<1>4. Joined(S) \in Recordings /\ Joined(S).segs = a
  BY <1>2, <1>3 DEF Recordings
<1>. QED
  BY <1>2, <1>4 DEF a

LEMMA JoinedSame ==
    ASSUME NEW S \in SUBSET Chunks, \A i \in S : file'[i] = file[i]
    PROVE  Joined(S)' = Joined(S)
<1>1. {file'[i].segs : i \in S} = {file[i].segs : i \in S}
  OBVIOUS
<1>2. {file'[i].again : i \in S} = {file[i].again : i \in S}
  OBVIOUS
<1>3. {s \in Chunks : \E i, j \in S : i # j /\ s \in file'[i].segs \cap file'[j].segs}
      = {s \in Chunks : \E i, j \in S : i # j /\ s \in file[i].segs \cap file[j].segs}
  OBVIOUS
<1>. QED
  BY <1>1, <1>2, <1>3 DEF Joined

LEMMA FirstOf ==
    ASSUME NEW S \in SUBSET Chunks, S # {}
    PROVE  Min(S) \in S
<1>1. \E x \in S : \A y \in S : x <= y
  BY Least, Constants
<1>. QED
  BY <1>1 DEF Min

LEMMA NextBatchSmaller ==
    ASSUME NEW S
    PROVE  NextBatch(S) \subseteq S
  BY DEF NextBatch, Oldest

-----------------------------------------------------------------------------
(* What a step does to the row of one chunk.                                *)

RowSame(i) == row'[i] = row[i] /\ attempts'[i] = attempts[i] /\ text'[i] = text[i]
RowGone(i) == Alive(i) /\ row'[i] = "none" /\ attempts'[i] = 0 /\ text'[i] = {}
RowSilent(i) ==
    Alive(i) /\ row'[i] = "silent" /\ attempts'[i] = OneMore(attempts[i]) /\ text'[i] = text[i]
RowTried(i) ==
    /\ Alive(i) /\ attempts'[i] = OneMore(attempts[i]) /\ text'[i] = text[i]
    /\ IF attempts[i] + 1 >= MaxAttempts THEN row'[i] = "failed" ELSE row'[i] = row[i]
RowTold(i, t) ==
    Alive(i) /\ row'[i] = "transcribed" /\ attempts'[i] = OneMore(attempts[i]) /\ text'[i] = {t}

LEMMA OneMoreTypes ==
    ASSUME NEW n \in 0..MaxAttempts
    PROVE  OneMore(n) \in 0..MaxAttempts
  BY Constants DEF OneMore

LEMMA DeleteRowsMoves ==
    ASSUME RowTypes, NEW S \in SUBSET Chunks, DeleteRows(S)
    PROVE  /\ RowTypes'
           /\ \A i \in Chunks : IF i \in S /\ Alive(i) THEN RowGone(i) ELSE RowSame(i)
<1>1. \A i \in Chunks : IF i \in S /\ Alive(i) THEN RowGone(i) ELSE RowSame(i)
  BY DEF DeleteRows, RowGone, RowSame
<1>2. row' \in [Chunks -> Rows]
  BY DEF DeleteRows, RowTypes, Rows
<1>3. attempts' \in [Chunks -> 0..MaxAttempts]
  BY Constants DEF DeleteRows, RowTypes
<1>4. text' \in [Chunks -> SUBSET Texts]
  BY DEF DeleteRows, RowTypes
<1>. QED
  BY <1>1, <1>2, <1>3, <1>4 DEF RowTypes

LEMMA RecordFailedMoves ==
    ASSUME RowTypes, NEW S \in SUBSET Chunks, RecordFailed(S), UNCHANGED text
    PROVE  /\ RowTypes'
           /\ \A i \in Chunks : IF i \in S /\ Alive(i) THEN RowTried(i) ELSE RowSame(i)
<1>1. \A i \in Chunks : IF i \in S /\ Alive(i) THEN RowTried(i) ELSE RowSame(i)
  BY DEF RecordFailed, RowTried, RowSame
<1>2. row' \in [Chunks -> Rows]
  BY DEF RecordFailed, RowTypes, Rows
<1>3. attempts' \in [Chunks -> 0..MaxAttempts]
  BY OneMoreTypes DEF RecordFailed, RowTypes
<1>. QED
  BY <1>1, <1>2, <1>3 DEF RowTypes

LEMMA RecordSilentMoves ==
    ASSUME RowTypes, NEW R \in SUBSET Chunks, NEW O \in SUBSET Chunks, R \cap O = {},
           RecordSilent(R, O)
    PROVE  /\ RowTypes'
           /\ \A i \in Chunks : IF i \in O /\ Alive(i) THEN RowGone(i)
                                ELSE IF i \in R /\ Alive(i) THEN RowSilent(i) ELSE RowSame(i)
<1>1. \A i \in Chunks : IF i \in O /\ Alive(i) THEN RowGone(i)
                        ELSE IF i \in R /\ Alive(i) THEN RowSilent(i) ELSE RowSame(i)
  <2>. SUFFICES ASSUME NEW i \in Chunks
                PROVE  IF i \in O /\ Alive(i) THEN RowGone(i)
                       ELSE IF i \in R /\ Alive(i) THEN RowSilent(i) ELSE RowSame(i)
    OBVIOUS
  <2>1. CASE i \in O /\ Alive(i)
    <3>1. row'[i] = "none" /\ attempts'[i] = 0 /\ text'[i] = {}
      BY <2>1 DEF RecordSilent
    <3>. QED
      BY <2>1, <3>1 DEF RowGone
  <2>2. CASE ~(i \in O /\ Alive(i)) /\ i \in R /\ Alive(i)
    BY <2>2 DEF RecordSilent, RowSilent
  <2>3. CASE ~(i \in O /\ Alive(i)) /\ ~(i \in R /\ Alive(i))
    BY <2>3 DEF RecordSilent, RowSame
  <2>. QED
    BY <2>1, <2>2, <2>3
<1>2. row' \in [Chunks -> Rows]
  BY DEF RecordSilent, RowTypes, Rows
<1>3. attempts' \in [Chunks -> 0..MaxAttempts]
  BY OneMoreTypes, Constants DEF RecordSilent, RowTypes
<1>4. text' \in [Chunks -> SUBSET Texts]
  BY DEF RecordSilent, RowTypes
<1>. QED
  BY <1>1, <1>2, <1>3, <1>4 DEF RowTypes

LEMMA ReplaceTextMoves ==
    ASSUME RowTypes, NEW i \in Chunks, NEW t \in Texts, Alive(i), ReplaceText(i, t)
    PROVE  /\ RowTypes' /\ RowTold(i, t)
           /\ \A j \in Chunks \ {i} : RowSame(j)
<1>1. RowTold(i, t) /\ \A j \in Chunks \ {i} : RowSame(j)
  BY DEF ReplaceText, RowTypes, RowTold, RowSame
<1>2. row' \in [Chunks -> Rows]
  BY DEF ReplaceText, RowTypes, Rows
<1>3. attempts' \in [Chunks -> 0..MaxAttempts]
  BY OneMoreTypes DEF ReplaceText, RowTypes
<1>4. text' \in [Chunks -> SUBSET Texts]
  BY DEF ReplaceText, RowTypes
<1>. QED
  BY <1>1, <1>2, <1>3, <1>4 DEF RowTypes

-----------------------------------------------------------------------------
(* What a step does to the sweeps: those of the other callers are left alone.*)

Others(w) == \A v \in Sweepers \ {w} : sweep'[v] = sweep[v]

LEMMA SweepMoves ==
    ASSUME SweepTypes, running' \in BOOLEAN, NEW w \in Sweepers, NEW r \in Sweeps,
           sweep' = [sweep EXCEPT ![w] = r]
    PROVE  SweepTypes' /\ sweep'[w] = r /\ Others(w)
  BY DEF SweepTypes, Others

LEMMA GoMoves ==
    ASSUME SweepTypes, running' \in BOOLEAN, NEW w \in Sweepers, NEW p \in Places, Go(w, p)
    PROVE  /\ SweepTypes' /\ Others(w)
           /\ sweep[w] \in Sweeps /\ sweep'[w] = [sweep[w] EXCEPT !.pc = p]
<1>1. sweep[w] \in Sweeps
  BY DEF SweepTypes
<1>2. [sweep[w] EXCEPT !.pc = p] \in Sweeps
  BY <1>1 DEF Sweeps
<1>3. sweep' = [sweep EXCEPT ![w] = [sweep[w] EXCEPT !.pc = p]]
  BY DEF Go
<1>. QED
  BY <1>1, <1>2, <1>3, SweepMoves

LEMMA EndMoves ==
    ASSUME SweepTypes, NEW w \in Sweepers, EndSweep(w)
    PROVE  SweepTypes' /\ Others(w) /\ sweep'[w] = Idle /\ running' = FALSE
  BY SweepMoves, Recorded DEF EndSweep

\* A batch is left for the next one, a retry for the next retry.
Finalized(r, n) ==
    IF r.retrying THEN [r EXCEPT !.pc = "retry"] ELSE [r EXCEPT !.pc = "batch", !.errs = n]

LEMMA AfterMoves ==
    ASSUME SweepTypes, UNCHANGED running, NEW w \in Sweepers, NEW n \in 0..(MaxDbErrors + 1),
           AfterFinalize(w, n)
    PROVE  /\ SweepTypes' /\ Others(w)
           /\ sweep[w] \in Sweeps /\ sweep'[w] = Finalized(sweep[w], n)
<1>1. sweep[w] \in Sweeps /\ running' \in BOOLEAN
  BY DEF SweepTypes
<1>2. Finalized(sweep[w], n) \in Sweeps
  BY <1>1 DEF Sweeps, Finalized, Places
<1>3. sweep' = [sweep EXCEPT ![w] = Finalized(sweep[w], n)]
  BY DEF AfterFinalize, Finalized
<1>. QED
  BY <1>1, <1>2, <1>3, SweepMoves

-----------------------------------------------------------------------------
(* The invariant that holds whatever fails and whoever asks.                *)

Active(w) == sweep[w].pc # "idle"
Job(w)    == sweep[w].job
Jobbing   == {"merge", "save", "store", "unpend", "clean"}

\* The audio a text or a recording a was made from is still in the file f.
Within(a, f) == f = NoFile \/ a.segs \subseteq f.segs

\* RECONCILIATION_RUNNING lets one caller sweep at a time.
Solo == \A v, w \in Sweepers : Active(v) /\ Active(w) => v = w

\* What a sweep knows: the flag is its own; it has read files that are still there; the
\* text it is about to store was made from the audio in the file of its chunk.
Sound(w) ==
    /\ Active(w) => running
    /\ sweep[w].pc # "batch" => sweep[w].errs <= MaxDbErrors
    /\ sweep[w].pc \in {"stt", "merge"} =>
          /\ sweep[w].valid # {} /\ \A i \in sweep[w].valid : file[i] # NoFile
          /\ sweep[w].audio = Joined(sweep[w].valid)
    /\ sweep[w].pc = "merge" =>
          /\ Job(w).chunk \in sweep[w].valid /\ Job(w).heard = Heard(sweep[w].audio)
          /\ Job(w).secs = sweep[w].valid \ {Job(w).chunk}
    /\ sweep[w].pc \in Jobbing => Job(w).chunk \in 1..captured /\ Job(w).secs \subseteq 1..captured
    /\ sweep[w].pc \in {"save", "store"} => Within(Job(w).heard, file[Job(w).chunk])

SweepInv == Solo /\ \A w \in Sweepers : Sound(w)

\* Nothing names a segment that is not recorded yet.
Blank ==
    /\ \A i \in Chunks : i > captured =>
          row[i] = "none" /\ file[i] = NoFile /\ pend[i] = NoPend /\ retrans.chunk # i
    /\ inflight \subseteq 1..captured
    /\ \A i \in Chunks : pend[i].secs \subseteq 1..captured

RowInv == \A i \in Chunks :
    /\ row[i] = "none" => text[i] = {} /\ attempts[i] = 0
    /\ row[i] = "pending" => attempts[i] < MaxAttempts
    /\ i \in renewed => row[i] = "transcribed"

\* A file holds its own segment; texts, saved or stored, and the audio that a request has
\* read were made from what the file holds.
AudioInv == \A i \in Chunks :
    /\ file[i] # NoFile => i \in file[i].segs
    /\ \A t \in text[i] : Within(t, file[i])
    /\ pend[i].state = "saved" => Within(pend[i].heard, file[i])
    /\ retrans.chunk = i => Within(retrans.audio, file[i])

Inv1 == Types /\ SweepInv /\ Blank /\ RowInv /\ AudioInv

LEMMA Start1 ==
    ASSUME Init
    PROVE  Inv1
<1>1. Types
  <2>1. TimeTypes /\ LiveTypes
    BY Constants DEF Init, TimeTypes, LiveTypes
  <2>2. FileTypes /\ PendTypes
    BY Recorded DEF Init, FileTypes, PendTypes
  <2>3. RowTypes
    BY Constants DEF Init, RowTypes, Rows
  <2>4. SweepTypes /\ RestTypes
    <3>1. running \in BOOLEAN /\ sweep \in [Sweepers -> Sweeps] /\ retrans \in Requests
          /\ dropping \in Drops
      BY Recorded DEF Init
    <3>2. faults \in 0..MaxFaults
      BY Constants DEF Init
    <3>. QED
      BY <3>1, <3>2 DEF SweepTypes, RestTypes
  <2>. QED
    BY <2>1, <2>2, <2>3, <2>4 DEF Types
<1>2. SweepInv
  BY Recorded, Constants DEF Init, SweepInv, Solo, Sound, Active, Jobbing
<1>3. Blank /\ RowInv /\ AudioInv
  BY Recorded, Constants DEF Init, Blank, RowInv, AudioInv
<1>. QED
  BY <1>1, <1>2, <1>3 DEF Inv1

\* While w sweeps the others are idle, so that only w has anything to know.
LEMMA OneSweeps ==
    ASSUME Types, SweepInv, NEW w \in Sweepers, Active(w) \/ ~running, Others(w)
    PROVE  /\ \A v \in Sweepers \ {w} : sweep[v].pc = "idle" /\ sweep'[v] = sweep[v]
           /\ Sound(w)' => SweepInv'
<1>1. \A v \in Sweepers \ {w} : sweep[v].pc = "idle" /\ sweep'[v] = sweep[v]
  BY DEF SweepInv, Solo, Sound, Active, Others
<1>2. \A v \in Sweepers \ {w} : sweep[v].errs <= MaxDbErrors
  BY <1>1 DEF SweepInv, Sound
<1>3. \A v \in Sweepers \ {w} : Sound(v)'
  BY <1>1, <1>2 DEF Sound, Active, Jobbing
<1>4. Solo'
  BY <1>1 DEF Solo, Active
<1>. QED
  BY <1>1, <1>3, <1>4 DEF SweepInv

-----------------------------------------------------------------------------
(* What any step does to the store, one chunk at a time, and that the parts *)
(* of the invariant about the store survive it.                             *)

FileMoved(i) ==
    \/ file'[i] = file[i]
    \/ file'[i] = NoFile
    \/ i > captured /\ captured' = i /\ file'[i] = Only(i)
    \/ file[i] # NoFile /\ file'[i] # NoFile /\ file[i].segs \subseteq file'[i].segs

RowNew(i)  == i > captured /\ captured' = i /\ row'[i] = "pending"
                  /\ attempts'[i] = attempts[i] /\ text'[i] = text[i]
RowLive(i) == i \in inflight /\ row'[i] = "transcribed" /\ text'[i] = text[i] \cup {Only(i)}
                  /\ (row[i] = "none" => i \in renewed')
RowMoved(i) ==
    \/ RowSame(i) \/ RowNew(i) \/ RowLive(i) \/ RowGone(i) \/ RowSilent(i) \/ RowTried(i)
    \/ \E t \in Texts : RowTold(i, t) /\ Within(t, file[i])

PendMoved(i) ==
    \/ pend'[i] = pend[i]
    \/ pend'[i] = NoPend
    \/ i <= captured /\ pend'[i] = Torn
    \/ i <= captured /\ pend'[i].secs \subseteq 1..captured /\ Within(pend'[i].heard, file[i])

StoreStep ==
    /\ captured' \in {captured, captured + 1} /\ inflight' \subseteq 1..captured'
    /\ \A i \in Chunks : FileMoved(i) /\ RowMoved(i) /\ PendMoved(i)
    /\ renewed \subseteq renewed'
    /\ \A i \in Chunks : i \in renewed' => i \in renewed \/ (RowLive(i) /\ row[i] = "none")
    /\ \/ retrans' = retrans
       \/ retrans' = NoRetrans
       \/ /\ retrans'.chunk \in 1..captured /\ Alive(retrans'.chunk)
          /\ retrans'.audio = file[retrans'.chunk] /\ UNCHANGED file

LEMMA StaysWithin ==
    ASSUME Inv1, NEW i \in Chunks, i <= captured, FileMoved(i), NEW a, Within(a, file[i])
    PROVE  Within(a, file'[i])
<1>1. i \in Nat /\ captured \in Nat
  BY Constants DEF Inv1, Types, TimeTypes
<1>. QED
  BY <1>1 DEF FileMoved, Within

LEMMA StoreKept ==
    ASSUME Inv1, StoreStep, RowTypes'
    PROVE  (Blank /\ RowInv /\ AudioInv)'
<1>1. captured \in Nat /\ captured' \in Nat /\ Chunks \subseteq Nat /\ captured <= captured'
  BY Constants DEF Inv1, Types, TimeTypes, StoreStep
<1>2. ASSUME NEW i \in Chunks
      PROVE  /\ row'[i] = "none" => text'[i] = {} /\ attempts'[i] = 0
             /\ row'[i] = "pending" => attempts'[i] < MaxAttempts
             /\ i \in renewed' => row'[i] = "transcribed"
  <2>1. /\ row[i] = "none" => text[i] = {} /\ attempts[i] = 0
        /\ row[i] = "pending" => attempts[i] < MaxAttempts
        /\ i \in renewed => row[i] = "transcribed"
        /\ i > captured => row[i] = "none"
    BY DEF Inv1, RowInv, Blank
  <2>2. RowMoved(i) /\ (i \in renewed' => i \in renewed \/ RowLive(i))
    BY DEF StoreStep
  <2>3. CASE RowSame(i)
    BY <2>1, <2>2, <2>3 DEF RowSame, RowLive
  <2>4. CASE RowNew(i)
    BY <2>1, <2>2, <2>4, Constants DEF RowNew, RowLive
  <2>5. CASE RowLive(i)
    BY <2>5 DEF RowLive
  <2>6. CASE RowGone(i) \/ RowSilent(i) \/ \E t \in Texts : RowTold(i, t)
    BY <2>2, <2>6 DEF RowGone, RowSilent, RowTold, RowLive, Alive
  <2>7. CASE RowTried(i)
    <3>1. attempts[i] \in Nat
      BY DEF Inv1, Types, RowTypes
    <3>. QED
      BY <2>1, <2>2, <2>7, <3>1, Constants DEF RowTried, RowLive, Alive, OneMore
  <2>. QED
    BY <2>2, <2>3, <2>4, <2>5, <2>6, <2>7 DEF RowMoved
<1>3. RowInv'
  BY <1>2 DEF RowInv
<1>4. ASSUME NEW i \in Chunks, i > captured'
      PROVE  row'[i] = "none" /\ file'[i] = NoFile /\ pend'[i] = NoPend /\ retrans'.chunk # i
  <2>1. i \in Nat /\ i > captured /\ ~(i <= captured) /\ captured' # i /\ i \notin 1..captured
    BY <1>1, <1>4
  <2>2. row[i] = "none" /\ file[i] = NoFile /\ pend[i] = NoPend /\ retrans.chunk # i
        /\ i \notin inflight
    BY <2>1 DEF Inv1, Blank
  <2>3. row'[i] = "none"
    <3>1. RowMoved(i)
      BY DEF StoreStep
    <3>. QED
      BY <2>1, <2>2, <3>1
         DEF RowMoved, RowSame, RowNew, RowLive, RowGone, RowSilent, RowTried, RowTold, Alive
  <2>4. file'[i] = NoFile /\ pend'[i] = NoPend
    BY <2>1, <2>2 DEF StoreStep, FileMoved, PendMoved
  <2>5. retrans'.chunk # i
    BY <2>1, <2>2, Recorded, Constants DEF StoreStep
  <2>. QED
    BY <2>3, <2>4, <2>5
<1>5. ASSUME NEW i \in Chunks
      PROVE  pend'[i].secs \subseteq 1..captured'
  <2>1. 1..captured \subseteq 1..captured' /\ pend[i].secs \subseteq 1..captured
    BY <1>1 DEF Inv1, Blank
  <2>. QED
    BY <2>1, Recorded DEF StoreStep, PendMoved
<1>6. Blank'
  BY <1>4, <1>5 DEF Blank, StoreStep
<1>7. ASSUME NEW i \in Chunks
      PROVE  /\ file'[i] # NoFile => i \in file'[i].segs
             /\ \A t \in text'[i] : Within(t, file'[i])
             /\ pend'[i].state = "saved" => Within(pend'[i].heard, file'[i])
             /\ retrans'.chunk = i => Within(retrans'.audio, file'[i])
  <2>1. /\ file[i] # NoFile => i \in file[i].segs
        /\ \A t \in text[i] : Within(t, file[i])
        /\ pend[i].state = "saved" => Within(pend[i].heard, file[i])
        /\ retrans.chunk = i => Within(retrans.audio, file[i])
    BY DEF Inv1, AudioInv
  <2>2. FileMoved(i) /\ RowMoved(i) /\ PendMoved(i) /\ i \in Nat
    BY <1>1 DEF StoreStep
  <2>3. CASE i <= captured
    <3>1. file'[i] # NoFile => i \in file'[i].segs
      BY <1>1, <2>1, <2>2, <2>3 DEF FileMoved
    <3>2. ASSUME NEW t \in text'[i]
          PROVE  Within(t, file[i])
      <4>1. ~RowNew(i)
        BY <1>1, <2>2, <2>3 DEF RowNew
      <4>2. CASE RowSame(i) \/ RowGone(i) \/ RowSilent(i) \/ RowTried(i)
        BY <2>1, <3>2, <4>2 DEF RowSame, RowGone, RowSilent, RowTried
      <4>3. CASE RowLive(i)
        BY <2>1, <3>2, <4>3, Recorded DEF RowLive, Within
      <4>4. CASE \E u \in Texts : RowTold(i, u) /\ Within(u, file[i])
        BY <3>2, <4>4 DEF RowTold
      <4>. QED
        BY <2>2, <4>1, <4>2, <4>3, <4>4 DEF RowMoved
    <3>3. pend'[i].state = "saved" => Within(pend'[i].heard, file[i])
      BY <2>1, <2>2, Recorded DEF PendMoved
    <3>4. retrans'.chunk = i => Within(retrans'.audio, file[i])
      BY <2>1, Recorded, Constants DEF StoreStep, Within
    <3>. QED
      BY <2>2, <2>3, <3>1, <3>2, <3>3, <3>4, StaysWithin
  <2>4. CASE i > captured
    <3>1. /\ row[i] = "none" /\ file[i] = NoFile /\ pend[i] = NoPend /\ retrans.chunk # i
          /\ text[i] = {} /\ i \notin inflight /\ i \notin 1..captured
      BY <1>1, <2>2, <2>4 DEF Inv1, Blank, RowInv
    <3>2. file'[i] # NoFile => i \in file'[i].segs
      BY <2>2, <3>1, Recorded DEF FileMoved
    <3>3. text'[i] = {}
      BY <2>2, <3>1
         DEF RowMoved, RowSame, RowNew, RowLive, RowGone, RowSilent, RowTried, RowTold, Alive
    <3>4. pend'[i].state # "saved"
      BY <1>1, <2>2, <2>4, <3>1, Recorded DEF PendMoved
    <3>5. retrans'.chunk # i
      BY <3>1, Recorded, Constants DEF StoreStep
    <3>. QED
      BY <3>2, <3>3, <3>4, <3>5
  <2>. QED
    BY <1>1, <2>2, <2>3, <2>4
<1>8. AudioInv'
  BY <1>7 DEF AudioInv
<1>. QED
  BY <1>3, <1>6, <1>8

-----------------------------------------------------------------------------
(* Recording, time, requests and the end of the process.                    *)

\* What a step leaves alone keeps its types and has not moved.
LEMMA Unmoved ==
    ASSUME Inv1
    PROVE  /\ UNCHANGED <<captured, time>> => TimeTypes'
           /\ UNCHANGED file => FileTypes' /\ \A i \in Chunks : FileMoved(i)
           /\ UNCHANGED <<row, attempts, text>> => RowTypes' /\ \A i \in Chunks : RowMoved(i)
           /\ UNCHANGED pend => PendTypes' /\ \A i \in Chunks : PendMoved(i)
           /\ UNCHANGED <<renewed, inflight, owed>> => LiveTypes'
           /\ UNCHANGED <<running, sweep>> => SweepTypes'
           /\ UNCHANGED <<retrans, dropping, faults>> => RestTypes'
           /\ UNCHANGED captured =>
                /\ captured' \in {captured, captured + 1}
                /\ UNCHANGED inflight => inflight' \subseteq 1..captured'
<1>1. UNCHANGED <<captured, time>> => TimeTypes'
  BY DEF Inv1, Types, TimeTypes, time
<1>2. UNCHANGED file => FileTypes' /\ \A i \in Chunks : FileMoved(i)
  BY DEF Inv1, Types, FileTypes, FileMoved
<1>3. UNCHANGED <<row, attempts, text>> => RowTypes' /\ \A i \in Chunks : RowMoved(i)
  BY DEF Inv1, Types, RowTypes, RowMoved, RowSame
<1>4. UNCHANGED pend => PendTypes' /\ \A i \in Chunks : PendMoved(i)
  BY DEF Inv1, Types, PendTypes, PendMoved
<1>5. UNCHANGED <<renewed, inflight, owed>> => LiveTypes'
  BY DEF Inv1, Types, LiveTypes
<1>6. UNCHANGED <<running, sweep>> => SweepTypes'
  BY DEF Inv1, Types, SweepTypes
<1>7. UNCHANGED <<retrans, dropping, faults>> => RestTypes'
  BY DEF Inv1, Types, RestTypes
<1>8. UNCHANGED captured => /\ captured' \in {captured, captured + 1}
                            /\ UNCHANGED inflight => inflight' \subseteq 1..captured'
  BY DEF Inv1, Blank
<1>. QED
  BY <1>1, <1>2, <1>3, <1>4, <1>5, <1>6, <1>7, <1>8

\* Failures are counted up to the bound.
LEMMA Counted ==
    ASSUME Types
    PROVE  /\ NoFault => faults' \in 0..MaxFaults
           /\ \A kind : Hit(kind) => faults' \in 0..MaxFaults
<1>1. faults \in 0..MaxFaults
  BY DEF Types, RestTypes
<1>. QED
  BY <1>1, Constants DEF NoFault, Hit

\* The files of recorded chunks, and the sweeps, are left alone.
LEMMA SweepKept ==
    ASSUME Inv1, UNCHANGED <<running, sweep>>, captured' \in {captured, captured + 1},
           \A i \in 1..captured : file'[i] = file[i]
    PROVE  SweepInv'
<1>1. captured \in Nat /\ 1..captured \subseteq 1..captured' /\ 1..captured \subseteq Chunks
  <2>1. captured \in Nat /\ captured <= Segments /\ Segments \in Nat
    BY Constants DEF Inv1, Types, TimeTypes
  <2>. QED
    BY <2>1 DEF Chunks
<1>2. ASSUME NEW w \in Sweepers
      PROVE  Sound(w)'
  <2>0. sweep[w] \in Sweeps /\ sweep[w].valid \subseteq Chunks
    BY DEF Inv1, Types, SweepTypes, Sweeps
  <2>1. Sound(w)
    BY DEF Inv1, SweepInv
  <2>2. ASSUME sweep[w].pc \in {"stt", "merge"}
        PROVE  \A i \in sweep[w].valid : file'[i] = file[i]
    <3>1. \A i \in sweep[w].valid : i \in Chunks /\ ~(i > captured)
      BY <2>0, <2>1, <2>2 DEF Sound, Inv1, Blank
    <3>2. \A i \in sweep[w].valid : i \in Nat \ {0}
      BY <2>0, Constants
    <3>3. \A i \in sweep[w].valid : i \in 1..captured
      BY <1>1, <3>1, <3>2
    <3>. QED
      BY <3>3
  <2>3. sweep[w].pc \in {"stt", "merge"} => Joined(sweep[w].valid)' = Joined(sweep[w].valid)
    BY <2>0, <2>2, JoinedSame
  <2>4. sweep[w].pc \in Jobbing => file'[Job(w).chunk] = file[Job(w).chunk]
    BY <2>1 DEF Sound
  <2>. QED
    BY <1>1, <2>1, <2>2, <2>3, <2>4 DEF Sound, Active, Job, Jobbing
<1>. QED
  BY <1>2 DEF Inv1, SweepInv, Solo, Active

Good1 == Types' /\ SweepInv' /\ StoreStep

LEMMA CaptureGood ==
    ASSUME Inv1, Capture
    PROVE  Good1
<1>. DEFINE k == captured + 1
<1>1. /\ captured \in Nat /\ captured' = k /\ k \in Chunks /\ k > captured
      /\ 1..captured \subseteq Chunks \ {k} /\ 1..captured \subseteq 1..k /\ k \in 1..k
      /\ \A i \in Chunks : i > captured => i = k \/ i > k
  <2>1. captured \in Nat /\ captured < Segments /\ Segments \in Nat /\ captured' = captured + 1
    BY Constants DEF Inv1, Types, TimeTypes, Capture
  <2>. QED
    BY <2>1 DEF Chunks
<1>2. /\ file' = [file EXCEPT ![k] = Only(k)]
      /\ \/ row' = [row EXCEPT ![k] = "pending"] /\ NoFault /\ owed' = owed \cup ({k} \cap Speech)
         \/ UNCHANGED <<row, owed>> /\ Hit("db")
      /\ inflight' \in {inflight, inflight \cup ({k} \cap Speech)}
      /\ UNCHANGED <<time, attempts, text, pend, renewed, running, sweep, retrans, dropping>>
  BY <1>1 DEF Capture
<1>. HIDE DEF k
<1>3. TimeTypes'
  <2>1. ripe \in 0..captured /\ stale \in 0..ripe /\ ripe' = ripe /\ stale' = stale /\ captured \in Nat
    BY <1>2 DEF Inv1, Types, TimeTypes, time
  <2>2. captured' \in 0..Segments
    BY <1>1, Constants DEF Chunks
  <2>. QED
    BY <1>1, <2>1, <2>2 DEF TimeTypes
<1>4. FileTypes' /\ (\A i \in Chunks : FileMoved(i)) /\ \A i \in 1..captured : file'[i] = file[i]
  BY <1>1, <1>2, Recorded DEF Inv1, Types, FileTypes, FileMoved
<1>5. RowTypes' /\ \A i \in Chunks : RowMoved(i)
  <2>1. CASE UNCHANGED row
    BY <1>2, <2>1, Unmoved
  <2>2. CASE row' = [row EXCEPT ![k] = "pending"]
    BY <1>1, <1>2, <2>2 DEF Inv1, Types, RowTypes, Rows, RowMoved, RowNew, RowSame
  <2>. QED
    BY <1>2, <2>1, <2>2
<1>6. LiveTypes' /\ inflight' \subseteq 1..captured'
  <2>1. renewed \subseteq Chunks /\ inflight \subseteq Speech /\ owed \subseteq Speech
    BY DEF Inv1, Types, LiveTypes
  <2>2. inflight \subseteq 1..captured
    BY DEF Inv1, Blank
  <2>3. owed' \subseteq Speech
    BY <1>2, <2>1
  <2>4. inflight' \subseteq Speech /\ inflight' \subseteq inflight \cup {k}
    BY <1>2, <2>1
  <2>5. inflight' \subseteq 1..k
    BY <1>1, <2>2, <2>4
  <2>. QED
    BY <1>1, <1>2, <2>1, <2>3, <2>4, <2>5 DEF LiveTypes
<1>7. RestTypes'
  BY <1>2, Counted DEF Inv1, Types, RestTypes
<1>8. PendTypes' /\ SweepTypes' /\ \A i \in Chunks : PendMoved(i)
  BY <1>2, Unmoved
<1>9. captured' \in {captured, captured + 1}
  BY <1>1 DEF k
<1>10. SweepInv'
  BY <1>2, <1>4, <1>9, SweepKept
<1>11. StoreStep
  BY <1>2, <1>4, <1>5, <1>6, <1>8, <1>9 DEF StoreStep
<1>. QED
  BY <1>3, <1>4, <1>5, <1>6, <1>7, <1>8, <1>10, <1>11 DEF Good1, Types

LEMMA TimeGood ==
    ASSUME Inv1, Ripen \/ GoStale
    PROVE  Good1
<1>1. UNCHANGED <<captured, store, inflight, running, sweep, retrans, dropping, owed, faults>>
  BY DEF Ripen, GoStale
<1>2. TimeTypes'
  <2>1. captured \in Nat /\ ripe \in Nat /\ stale \in Nat /\ stale <= ripe /\ ripe <= captured
        /\ captured \in 0..Segments
    BY DEF Inv1, Types, TimeTypes
  <2>2. \/ ripe < captured /\ ripe' = ripe + 1 /\ stale' = stale
        \/ stale < ripe /\ stale' = stale + 1 /\ ripe' = ripe
    BY DEF Ripen, GoStale
  <2>. QED
    BY <1>1, <2>1, <2>2 DEF TimeTypes
<1>3. Types'
  BY <1>1, <1>2, Unmoved DEF Types, store
<1>4. StoreStep
  BY <1>1, Unmoved DEF StoreStep, store
<1>5. SweepInv'
  BY <1>1, SweepKept DEF store
<1>. QED
  BY <1>3, <1>4, <1>5 DEF Good1

LEMMA LiveInsertGood ==
    ASSUME Inv1, NEW k \in Chunks, LiveInsert(k)
    PROVE  Good1
<1>1. /\ k \in inflight /\ k \in Speech /\ inflight' = inflight \ {k}
      /\ UNCHANGED <<captured, time, file, pend, running, sweep, retrans, dropping>>
  BY DEF LiveInsert, Inv1, Types, LiveTypes
<1>2. inflight' \subseteq 1..captured' /\ SweepInv'
  BY <1>1, SweepKept DEF Inv1, Blank
<1>3. renewed \subseteq Chunks /\ inflight \subseteq Speech /\ owed \subseteq Speech
  BY DEF Inv1, Types, LiveTypes
<1>4. RestTypes'
  BY <1>1, Counted DEF LiveInsert, Inv1, Types, RestTypes
<1>5. CASE UNCHANGED <<row, text, attempts, owed, renewed>>
  <2>1. LiveTypes'
    BY <1>1, <1>3, <1>5 DEF LiveTypes
  <2>2. Types'
    BY <1>1, <1>4, <1>5, <2>1, Unmoved DEF Types
  <2>3. StoreStep
    BY <1>1, <1>2, <1>5, Unmoved DEF StoreStep
  <2>. QED
    BY <1>2, <2>2, <2>3 DEF Good1
<1>6. CASE /\ row' = [row EXCEPT ![k] = "transcribed"]
           /\ text' = [text EXCEPT ![k] = @ \cup {Only(k)}]
           /\ attempts' = [attempts EXCEPT ![k] = OneMore(@)]
           /\ owed' = owed \cup {k}
           /\ renewed' = IF row[k] = "none" THEN renewed \cup {k} ELSE renewed
  <2>1. LiveTypes'
    BY <1>1, <1>3, <1>6 DEF LiveTypes
  <2>2. row' \in [Chunks -> Rows] /\ row'[k] = "transcribed" /\ \A i \in Chunks \ {k} : row'[i] = row[i]
    BY <1>6 DEF Inv1, Types, RowTypes, Rows
  <2>3. /\ text' \in [Chunks -> SUBSET Texts] /\ text'[k] = text[k] \cup {Only(k)}
        /\ \A i \in Chunks \ {k} : text'[i] = text[i]
    BY <1>1, <1>6, Recorded DEF Inv1, Types, RowTypes
  <2>4. attempts' \in [Chunks -> 0..MaxAttempts] /\ \A i \in Chunks \ {k} : attempts'[i] = attempts[i]
    BY <1>6, OneMoreTypes DEF Inv1, Types, RowTypes
  <2>5. \A i \in Chunks : RowMoved(i)
    BY <1>1, <1>6, <2>2, <2>3, <2>4 DEF RowMoved, RowLive, RowSame
  <2>6. /\ renewed \subseteq renewed'
        /\ \A i \in Chunks : i \in renewed' => i \in renewed \/ (RowLive(i) /\ row[i] = "none")
    BY <1>1, <1>6, <2>2, <2>3 DEF RowLive
  <2>7. RowTypes'
    BY <2>2, <2>3, <2>4 DEF RowTypes
  <2>8. Types'
    BY <1>1, <1>4, <2>1, <2>7, Unmoved DEF Types
  <2>9. StoreStep
    BY <1>1, <1>2, <2>5, <2>6, Unmoved DEF StoreStep
  <2>. QED
    BY <1>2, <2>8, <2>9 DEF Good1
<1>. QED
  BY <1>5, <1>6 DEF LiveInsert

\* A chunk that can be picked is in the table under its own id.
LEMMA CandidateAlive ==
    ASSUME Inv1, NEW i \in Chunks, row[i] \in {"pending", "failed"}
    PROVE  Alive(i)
  BY DEF Inv1, RowInv, Alive

LEMMA DropCheckGood ==
    ASSUME Inv1, NEW k \in Chunks, DropCheck(k)
    PROVE  Good1
<1>1. /\ dropping' = [chunk |-> k, segs |-> file[k].segs]
      /\ UNCHANGED <<captured, time, store, inflight, running, sweep, retrans, owed, faults>>
  BY DEF DropCheck
<1>2. file[k].segs \in SUBSET Chunks
  BY DEF Inv1, Types, FileTypes, Recordings
<1>3. RestTypes'
  BY <1>1, <1>2 DEF Inv1, Types, RestTypes, Drops
<1>4. Types'
  BY <1>1, <1>3, Unmoved DEF Types, store
<1>5. StoreStep
  BY <1>1, Unmoved DEF StoreStep, store
<1>6. SweepInv'
  BY <1>1, SweepKept DEF store
<1>. QED
  BY <1>4, <1>5, <1>6 DEF Good1

\* The chunk of a drop goes, whatever it holds by then, or the deletion fails.
LEMMA DropDeleteGood ==
    ASSUME Inv1, DropDelete
    PROVE  /\ Good1 /\ dropping.chunk \in Chunks
           /\ \A i \in Chunks : RowSame(i) \/ (i = dropping.chunk /\ RowGone(i))
<1>1. /\ dropping # NoDrop /\ dropping' = NoDrop
      /\ DeleteRows({dropping.chunk}) \/ UNCHANGED <<row, text, attempts>>
      /\ owed' \subseteq owed
      /\ UNCHANGED <<captured, time, file, pend, renewed, inflight, running, sweep, retrans, faults>>
  BY DEF DropDelete
<1>2. dropping.chunk \in Chunks
  <2>1. dropping \in Drops
    BY DEF Inv1, Types, RestTypes
  <2>. QED
    BY <1>1, <2>1 DEF Drops
<1>3. RowTypes' /\ \A i \in Chunks : RowSame(i) \/ (i = dropping.chunk /\ RowGone(i))
  <2>1. CASE DeleteRows({dropping.chunk})
    <3>1. {dropping.chunk} \in SUBSET Chunks
      BY <1>2
    <3>2. RowTypes' /\ \A i \in Chunks : IF i \in {dropping.chunk} /\ Alive(i) THEN RowGone(i) ELSE RowSame(i)
      BY <2>1, <3>1, DeleteRowsMoves DEF Inv1, Types
    <3>. QED
      BY <3>2
  <2>2. CASE UNCHANGED <<row, text, attempts>>
    BY <2>2, Unmoved DEF RowSame
  <2>. QED
    BY <1>1, <2>1, <2>2
<1>4. LiveTypes' /\ RestTypes'
  BY <1>1, Recorded DEF Inv1, Types, LiveTypes, RestTypes
<1>5. Types'
  BY <1>1, <1>3, <1>4, Unmoved DEF Types
<1>6. StoreStep
  BY <1>1, <1>3, Unmoved DEF StoreStep, RowMoved
<1>7. SweepInv'
  BY <1>1, SweepKept
<1>. QED
  BY <1>2, <1>3, <1>5, <1>6, <1>7 DEF Good1

\* A row that is there is that of a recorded segment.
LEMMA AliveRecorded ==
    ASSUME Inv1, NEW i \in Chunks, row[i] # "none" \/ file[i] # NoFile
    PROVE  i \in 1..captured
<1>1. i \in Nat \ {0} /\ captured \in Nat /\ ~(i > captured)
  BY Constants DEF Inv1, Types, TimeTypes, Blank
<1>. QED
  BY <1>1

LEMMA RetranscribeReadGood ==
    ASSUME Inv1, NEW k \in Chunks, RetranscribeRead(k)
    PROVE  Good1
<1>1. /\ retrans' = [chunk |-> k, audio |-> file[k]] /\ file[k] # NoFile /\ Alive(k)
      /\ UNCHANGED <<captured, time, store, inflight, running, sweep, dropping, owed, faults>>
  BY DEF RetranscribeRead
<1>2. RestTypes'
  BY <1>1 DEF Inv1, Types, RestTypes, FileTypes, Requests
<1>3. Types'
  BY <1>1, <1>2, Unmoved DEF Types, store
<1>4. StoreStep
  BY <1>1, Unmoved, AliveRecorded DEF StoreStep, store
<1>5. SweepInv'
  BY <1>1, SweepKept DEF store
<1>. QED
  BY <1>3, <1>4, <1>5 DEF Good1

LEMMA RetranscribeStoreGood ==
    ASSUME Inv1, RetranscribeStore
    PROVE  Good1
<1>1. /\ retrans' = NoRetrans
      /\ UNCHANGED <<captured, time, renewed, file, pend, inflight, running, sweep, dropping, owed, faults>>
      /\ \/ Alive(retrans.chunk) /\ Heard(retrans.audio).segs # {}
              /\ ReplaceText(retrans.chunk, Heard(retrans.audio))
         \/ RecordSilent({retrans.chunk}, {})
         \/ UNCHANGED <<row, attempts, text>>
  BY DEF RetranscribeStore
<1>2. retrans.chunk \in Chunks /\ retrans.audio \in Recordings
  <2>1. retrans \in Requests
    BY DEF Inv1, Types, RestTypes
  <2>. QED
    BY <1>1, <2>1 DEF Requests, RetranscribeStore
<1>3. RowTypes' /\ \A i \in Chunks : RowMoved(i)
  <2>1. CASE Alive(retrans.chunk) /\ ReplaceText(retrans.chunk, Heard(retrans.audio))
    <3>1. Within(Heard(retrans.audio), file[retrans.chunk]) /\ Heard(retrans.audio) \in Texts
      BY <1>2, Recorded DEF Inv1, AudioInv, Within
    <3>. QED
      BY <1>2, <2>1, <3>1, ReplaceTextMoves DEF RowMoved, Inv1, Types
  <2>2. CASE RecordSilent({retrans.chunk}, {})
    BY <1>2, <2>2, RecordSilentMoves DEF RowMoved, Inv1, Types
  <2>3. CASE UNCHANGED <<row, attempts, text>>
    BY <2>3, Unmoved
  <2>. QED
    BY <1>1, <2>1, <2>2, <2>3
<1>4. Types'
  <2>1. RestTypes'
    BY <1>1, Recorded DEF Inv1, Types, RestTypes
  <2>. QED
    BY <1>1, <1>3, <2>1, Unmoved DEF Types
<1>5. StoreStep
  BY <1>1, <1>3, Unmoved DEF StoreStep
<1>6. SweepInv'
  BY <1>1, SweepKept
<1>. QED
  BY <1>4, <1>5, <1>6 DEF Good1

LEMMA CrashGood ==
    ASSUME Inv1, Crash
    PROVE  Good1
<1>1. /\ Hit("crash") /\ inflight' = {} /\ running' = FALSE
      /\ retrans' = NoRetrans /\ dropping' = NoDrop
      /\ sweep' = [w \in Sweepers |-> Idle]
      /\ UNCHANGED <<captured, time, file, row, attempts, text, renewed, owed>>
  BY DEF Crash
<1>2. PICK cut \in SUBSET {sweep[w].job.chunk : w \in {v \in Sweepers : At(v, "save")}} :
          pend' = [i \in Chunks |-> IF i \in cut THEN Torn ELSE pend[i]]
  BY DEF Crash
<1>3. cut \subseteq 1..captured
  BY DEF At, Inv1, SweepInv, Sound, Jobbing, Job
<1>4. PendTypes' /\ \A i \in Chunks : PendMoved(i)
  <2>1. PendTypes'
    BY <1>2, Recorded DEF Inv1, Types, PendTypes
  <2>2. \A i \in 1..captured : i <= captured
    OBVIOUS
  <2>. QED
    BY <1>2, <1>3, <2>1, <2>2 DEF PendMoved
<1>5. SweepTypes' /\ SweepInv'
  <2>1. \A w \in Sweepers : sweep'[w] = Idle
    BY <1>1
  <2>2. SweepTypes'
    BY <1>1, Recorded DEF SweepTypes
  <2>. QED
    BY <2>1, <2>2, Recorded, Constants DEF SweepInv, Solo, Sound, Active, Jobbing
<1>6. RestTypes'
  BY <1>1, Counted, Recorded DEF Inv1, Types, RestTypes
<1>7. LiveTypes' /\ inflight' \subseteq 1..captured'
  BY <1>1 DEF Inv1, Types, LiveTypes
<1>8. Types'
  BY <1>1, <1>4, <1>5, <1>6, <1>7, Unmoved DEF Types
<1>9. StoreStep
  BY <1>1, <1>4, <1>7, Unmoved DEF StoreStep
<1>. QED
  BY <1>5, <1>8, <1>9 DEF Good1

-----------------------------------------------------------------------------
(* The sweep, step by step.                                                 *)

\* A step of w that leaves everything but the sweeps alone.
LEMMA OnlySweeps ==
    ASSUME Inv1, UNCHANGED <<captured, time, store, inflight, retrans, dropping, owed>>, faults' \in 0..MaxFaults,
           SweepTypes', SweepInv'
    PROVE  Good1
<1>1. RestTypes'
  BY DEF Inv1, Types, RestTypes
<1>2. Types'
  BY <1>1, Unmoved DEF Types, store
<1>3. StoreStep
  BY Unmoved DEF StoreStep, store
<1>. QED
  BY <1>2, <1>3 DEF Good1

\* The sweep of w before its step.
LEMMA Before ==
    ASSUME Inv1, NEW w \in Sweepers
    PROVE  /\ sweep[w] \in Sweeps /\ Sound(w) /\ sweep[w].valid \subseteq Chunks
           /\ sweep[w].retries \subseteq Chunks /\ sweep[w].todo \subseteq Chunks
           /\ sweep[w].audio \in Recordings /\ sweep[w].job \in Jobs
           /\ SweepTypes /\ FileTypes /\ RowTypes /\ Types /\ SweepInv
  BY DEF Inv1, Types, SweepInv, SweepTypes, Sweeps

LEMMA BeginSweepGood ==
    ASSUME Inv1, NEW w \in Sweepers, BeginSweep(w)
    PROVE  /\ Good1 /\ Others(w) /\ ~running /\ sweep[w].pc = "idle"
           /\ sweep'[w] = [sweep[w] EXCEPT !.pc = "retry",
                              !.retries = {i \in Chunks : pend[i].state # "none"}]
<1>1. /\ ~running /\ sweep[w].pc = "idle" /\ running' = TRUE
      /\ sweep' = [sweep EXCEPT ![w] = [sweep[w] EXCEPT !.pc = "retry",
                              !.retries = {i \in Chunks : pend[i].state # "none"}]]
      /\ UNCHANGED <<captured, time, store, inflight, retrans, dropping, owed, faults>>
  BY Before DEF BeginSweep, At
<1>2. [sweep[w] EXCEPT !.pc = "retry", !.retries = {i \in Chunks : pend[i].state # "none"}] \in Sweeps
  BY Before DEF Sweeps, Places
<1>3. /\ SweepTypes' /\ Others(w)
      /\ sweep'[w] = [sweep[w] EXCEPT !.pc = "retry",
                              !.retries = {i \in Chunks : pend[i].state # "none"}]
  BY <1>1, <1>2, SweepMoves, Before
<1>4. sweep'[w].pc = "retry" /\ sweep'[w].errs = sweep[w].errs
  BY <1>3, Before DEF Sweeps
<1>5. Sound(w)'
  BY <1>1, <1>4, Before DEF Sound, Active, Jobbing
<1>6. SweepInv'
  BY <1>1, <1>3, <1>5, OneSweeps, Before
<1>7. Good1
  BY <1>1, <1>3, <1>6, OnlySweeps, Counted, Before DEF NoFault
<1>. QED
  BY <1>1, <1>3, <1>7

\* A pending file is removed, or its batch is to be stored again.
RetryDropped(w, i) ==
    /\ \/ pend[i].state = "torn"
       \/ pend[i].state = "saved" /\ ~Alive(i)
       \/ pend[i].state = "saved" /\ "db" \in Faults
    /\ pend' = [pend EXCEPT ![i] = NoPend]
    /\ sweep'[w] = [sweep[w] EXCEPT !.retries = @ \ {i}]
RetryTaken(w, i) ==
    /\ pend[i].state = "saved" /\ Alive(i) /\ UNCHANGED pend
    /\ sweep'[w] = [sweep[w] EXCEPT !.pc = "store", !.retries = @ \ {i}, !.retrying = TRUE,
                        !.job = [chunk |-> i, heard |-> pend[i].heard, secs |-> pend[i].secs]]

LEMMA RetryPendingGood ==
    ASSUME Inv1, NEW w \in Sweepers, RetryPending(w)
    PROVE  /\ Good1 /\ Others(w) /\ sweep[w].pc = "retry"
           /\ UNCHANGED <<captured, time, file, row, attempts, text, renewed, inflight, running,
                          retrans, dropping, owed>>
           /\ \E i \in sweep[w].retries : RetryDropped(w, i) \/ RetryTaken(w, i)
<1>1. /\ sweep[w].pc = "retry"
      /\ UNCHANGED <<captured, time, file, row, attempts, text, renewed, inflight, running, retrans, dropping, owed>>
  BY DEF RetryPending, At
<1>2. PICK i \in sweep[w].retries :
       \/ /\ (pend[i].state = "torn" /\ NoFault) \/ (pend[i].state = "saved" /\ ~Alive(i) /\ NoFault)
                \/ (pend[i].state = "saved" /\ Hit("db"))
          /\ pend' = [pend EXCEPT ![i] = NoPend]
          /\ sweep' = [sweep EXCEPT ![w] = [sweep[w] EXCEPT !.retries = @ \ {i}]]
       \/ /\ pend[i].state = "saved" /\ Alive(i) /\ NoFault
          /\ sweep' = [sweep EXCEPT ![w] =
                [sweep[w] EXCEPT !.pc = "store", !.retries = @ \ {i}, !.retrying = TRUE,
                          !.job = [chunk |-> i, heard |-> pend[i].heard, secs |-> pend[i].secs]]]
          /\ UNCHANGED pend
  BY Before DEF RetryPending
<1>3. i \in Chunks /\ faults' \in 0..MaxFaults /\ RestTypes'
  BY <1>1, <1>2, Before, Counted DEF Inv1, Types, RestTypes
<1>4. CASE /\ (pend[i].state = "torn" /\ NoFault) \/ (pend[i].state = "saved" /\ ~Alive(i) /\ NoFault)
                \/ (pend[i].state = "saved" /\ Hit("db"))
           /\ pend' = [pend EXCEPT ![i] = NoPend]
           /\ sweep' = [sweep EXCEPT ![w] = [sweep[w] EXCEPT !.retries = @ \ {i}]]
  <2>1. [sweep[w] EXCEPT !.retries = @ \ {i}] \in Sweeps
    BY Before DEF Sweeps
  <2>2. SweepTypes' /\ Others(w) /\ sweep'[w] = [sweep[w] EXCEPT !.retries = @ \ {i}]
    BY <1>1, <1>4, <2>1, SweepMoves, Before DEF SweepTypes
  <2>3. sweep'[w].pc = "retry" /\ sweep'[w].errs = sweep[w].errs
    BY <1>1, <2>2, Before DEF Sweeps
  <2>4. Sound(w)'
    BY <1>1, <2>3, Before DEF Sound, Active, Jobbing
  <2>5. SweepInv'
    BY <1>1, <2>2, <2>4, OneSweeps, Before DEF Active
  <2>6. PendTypes' /\ \A j \in Chunks : PendMoved(j)
    BY <1>4, <1>3, Recorded DEF Inv1, Types, PendTypes, PendMoved
  <2>7. Types'
    BY <1>1, <1>3, <2>2, <2>6, Unmoved DEF Types
  <2>8. StoreStep
    BY <1>1, <2>6, Unmoved DEF StoreStep
  <2>9. Good1
    BY <2>5, <2>7, <2>8 DEF Good1
  <2>10. RetryDropped(w, i)
    BY <1>4, <2>2 DEF RetryDropped, Hit
  <2>. QED
    BY <1>1, <1>2, <2>2, <2>9, <2>10
<1>5. CASE /\ pend[i].state = "saved" /\ Alive(i) /\ NoFault /\ UNCHANGED pend
           /\ sweep' = [sweep EXCEPT ![w] =
                [sweep[w] EXCEPT !.pc = "store", !.retries = @ \ {i}, !.retrying = TRUE,
                          !.job = [chunk |-> i, heard |-> pend[i].heard, secs |-> pend[i].secs]]]
  <2>. DEFINE j == [chunk |-> i, heard |-> pend[i].heard, secs |-> pend[i].secs]
              r == [sweep[w] EXCEPT !.pc = "store", !.retries = @ \ {i}, !.retrying = TRUE, !.job = j]
  <2>1. pend[i] \in Pendings
    BY <1>3 DEF Inv1, Types, PendTypes
  <2>2. j \in Jobs
    BY <1>3, <2>1 DEF Pendings, Jobs
  <2>3. r \in Sweeps /\ r.pc = "store" /\ r.errs = sweep[w].errs /\ r.job = j
    BY <2>2, Before DEF Sweeps, Places
  <2>4. SweepTypes' /\ Others(w) /\ sweep'[w] = r
    BY <1>1, <1>5, <2>3, SweepMoves, Before DEF SweepTypes
  <2>5. i \in 1..captured /\ pend[i].secs \subseteq 1..captured /\ Within(pend[i].heard, file[i])
    BY <1>3, <1>5, AliveRecorded DEF Alive, Inv1, Blank, AudioInv
  <2>6. Sound(w)'
    BY <1>1, <2>3, <2>4, <2>5, Before DEF Sound, Active, Jobbing, Job
  <2>7. SweepInv'
    BY <1>1, <2>4, <2>6, OneSweeps, Before DEF Active
  <2>8. Good1
    BY <1>1, <1>3, <1>5, <2>4, <2>7, OnlySweeps DEF store
  <2>9. RetryTaken(w, i)
    BY <1>5, <2>4 DEF RetryTaken
  <2>. QED
    BY <1>1, <1>2, <2>4, <2>8, <2>9
<1>. QED
  BY <1>2, <1>4, <1>5

LEMMA RetriesDoneGood ==
    ASSUME Inv1, NEW w \in Sweepers, RetriesDone(w)
    PROVE  /\ Good1 /\ Others(w) /\ sweep[w].pc = "retry" /\ sweep[w].retries = {}
           /\ UNCHANGED <<captured, time, store, inflight, running, retrans, dropping, owed>>
           /\ sweep'[w] = [sweep[w] EXCEPT !.pc = "query"]
<1>1. /\ sweep[w].pc = "retry" /\ sweep[w].retries = {} /\ Go(w, "query")
      /\ UNCHANGED <<captured, time, store, inflight, running, retrans, dropping, owed, faults>>
  BY DEF RetriesDone, At
<1>2. SweepTypes' /\ Others(w) /\ sweep'[w] = [sweep[w] EXCEPT !.pc = "query"]
  BY <1>1, GoMoves, Before DEF Places, SweepTypes
<1>3. sweep'[w].pc = "query" /\ sweep'[w].errs = sweep[w].errs
  BY <1>2, Before DEF Sweeps
<1>4. Sound(w)'
  BY <1>1, <1>3, Before DEF Sound, Active, Jobbing
<1>5. SweepInv'
  BY <1>1, <1>2, <1>4, OneSweeps, Before DEF Active
<1>. QED
  BY <1>1, <1>2, <1>5, OnlySweeps, Counted, Before DEF NoFault

\* A sweep ends, at a step that leaves the store alone.
LEMMA EndGood ==
    ASSUME Inv1, NEW w \in Sweepers, Active(w), EndSweep(w), faults' \in 0..MaxFaults,
           UNCHANGED <<captured, time, store, inflight, retrans, dropping, owed>>
    PROVE  Good1 /\ Others(w) /\ sweep'[w] = Idle
<1>1. SweepTypes' /\ Others(w) /\ sweep'[w] = Idle
  BY EndMoves, Before
<1>2. Sound(w)'
  BY <1>1, Recorded, Constants DEF Sound, Active, Jobbing
<1>3. SweepInv'
  BY <1>1, <1>2, OneSweeps, Before
<1>. QED
  BY <1>1, <1>3, OnlySweeps

LEMMA QueryGood ==
    ASSUME Inv1, NEW w \in Sweepers, QueryCandidates(w)
    PROVE  /\ Good1 /\ Others(w) /\ sweep[w].pc = "query"
           /\ UNCHANGED <<captured, time, store, inflight, retrans, dropping, owed>>
           /\ \/ sweep'[w] = [sweep[w] EXCEPT !.pc = "batch", !.todo = Candidates]
              \/ sweep'[w] = Idle
<1>1. /\ sweep[w].pc = "query" /\ faults' \in 0..MaxFaults
      /\ UNCHANGED <<captured, time, store, inflight, retrans, dropping, owed>>
  BY Counted, Before DEF QueryCandidates, At
<1>2. CASE EndSweep(w)
  BY <1>1, <1>2, EndGood DEF Active
<1>3. CASE /\ sweep' = [sweep EXCEPT ![w].pc = "batch", ![w].todo = Candidates]
           /\ UNCHANGED running
  <2>. DEFINE r == [sweep[w] EXCEPT !.pc = "batch", !.todo = Candidates]
  <2>1. Candidates \subseteq Chunks
    BY DEF Candidates, Oldest
  <2>2. r \in Sweeps /\ r.pc = "batch"
    BY <2>1, Before DEF Sweeps, Places
  <2>3. sweep' = [sweep EXCEPT ![w] = r]
    BY <1>3, Before
  <2>4. SweepTypes' /\ Others(w) /\ sweep'[w] = r
    BY <1>3, <2>2, <2>3, SweepMoves, Before DEF SweepTypes
  <2>5. Sound(w)'
    BY <1>1, <1>3, <2>2, <2>4, Before DEF Sound, Active, Jobbing
  <2>6. SweepInv'
    BY <1>1, <2>4, <2>5, OneSweeps, Before DEF Active
  <2>. QED
    BY <1>1, <2>4, <2>6, OnlySweeps
<1>. QED
  BY <1>2, <1>3 DEF QueryCandidates

LEMMA LastBatchGood ==
    ASSUME Inv1, NEW w \in Sweepers, LastBatch(w)
    PROVE  /\ Good1 /\ Others(w) /\ sweep[w].pc = "batch" /\ sweep'[w] = Idle
           /\ UNCHANGED <<captured, time, store, inflight, retrans, dropping, owed>>
<1>1. /\ sweep[w].pc = "batch" /\ EndSweep(w)
      /\ UNCHANGED <<captured, time, store, inflight, retrans, dropping, owed, faults>>
  BY DEF LastBatch, At
<1>. QED
  BY <1>1, EndGood, Counted, Before DEF Active, NoFault

\* The batch b is taken from what is to do; the files of V are read, the rows of the
\* other chunks of b are deleted or, after an error, stay.
BatchRead(w, b, V) ==
    /\ b = NextBatch(sweep[w].todo) /\ V \subseteq b
    /\ \A i \in V : file[i] # NoFile
    /\ \/ \A i \in Chunks : RowSame(i) 
       \/ \A i \in Chunks : IF i \in b \ V /\ Alive(i) THEN RowGone(i) ELSE RowSame(i)
    /\ V # b /\ "read" \notin Faults => \A i \in b \ V : file[i] = NoFile
    /\ \E n \in 0..MaxDbErrors :
          sweep'[w] = [sweep[w] EXCEPT !.pc = IF Joined(V).segs \subseteq Empty THEN "batch" ELSE "stt",
                             !.todo = sweep[w].todo \ b, !.valid = V, !.errs = n, !.audio = Joined(V)]

LEMMA ReadBatchGood ==
    ASSUME Inv1, NEW w \in Sweepers, ReadBatch(w)
    PROVE  /\ Good1 /\ Others(w) /\ sweep[w].pc = "batch"
           /\ UNCHANGED <<captured, time, file, pend, renewed, inflight, running, retrans, dropping, owed>>
           /\ \E V \in SUBSET Chunks : BatchRead(w, NextBatch(sweep[w].todo), V)
<1>1. /\ sweep[w].pc = "batch" /\ sweep[w].errs < MaxDbErrors
      /\ UNCHANGED <<captured, time, file, pend, renewed, inflight, running, retrans, dropping, owed>>
  BY DEF ReadBatch, At
<1>. DEFINE b == NextBatch(sweep[w].todo)
            missing == {i \in b : file[i] = NoFile}
            Read(orphans, errs) ==
               LET valid == b \ orphans IN
               sweep' = [sweep EXCEPT ![w] =
                   [sweep[w] EXCEPT !.pc = IF Joined(valid).segs \subseteq Empty THEN "batch" ELSE "stt",
                             !.todo = sweep[w].todo \ b, !.valid = valid, !.errs = errs,
                             !.audio = Joined(valid)]]
<1>2. b \in SUBSET Chunks
  BY NextBatchSmaller, Before
<1>3. \E orphans \in SUBSET b : \E n \in 0..MaxDbErrors :
        /\ missing \subseteq orphans /\ Read(orphans, n)
        /\ UNCHANGED <<row, text, attempts>> \/ DeleteRows(orphans)
        /\ orphans = missing \/ "read" \in Faults
        /\ faults' \in 0..MaxFaults
  <2>1. sweep[w].errs \in 0..MaxDbErrors /\ sweep[w].errs + 1 \in 0..MaxDbErrors /\ 0 \in 0..MaxDbErrors
    <3>1. sweep[w].errs \in 0..(MaxDbErrors + 1)
      BY Before DEF Sweeps
    <3>. QED
      BY <1>1, <3>1, Constants
  <2>2. /\ NoFault => faults' \in 0..MaxFaults
        /\ \A kind : Hit(kind) => faults' \in 0..MaxFaults /\ kind \in Faults
    BY Counted, Before DEF Hit
  <2>3. \/ missing = {} /\ NoFault /\ Read({}, sweep[w].errs) /\ UNCHANGED <<row, text, attempts>>
        \/ missing # {} /\ NoFault /\ Read(missing, 0) /\ DeleteRows(missing)
        \/ missing # {} /\ Hit("db") /\ Read(missing, sweep[w].errs + 1) /\ UNCHANGED <<row, text, attempts>>
        \/ Hit("read") /\ \E i \in b \ missing : Read(missing \cup {i}, 0) /\ DeleteRows(missing \cup {i})
    BY DEF ReadBatch
  <2>4. missing \in SUBSET b
    OBVIOUS
  <2>. HIDE DEF missing, Read, b
  <2>5. CASE missing = {} /\ NoFault /\ Read({}, sweep[w].errs) /\ UNCHANGED <<row, text, attempts>>
    BY <2>1, <2>2, <2>5
  <2>6. CASE NoFault /\ Read(missing, 0) /\ DeleteRows(missing)
    BY <2>1, <2>2, <2>4, <2>6
  <2>7. CASE Hit("db") /\ Read(missing, sweep[w].errs + 1) /\ UNCHANGED <<row, text, attempts>>
    BY <2>1, <2>2, <2>4, <2>7
  <2>8. CASE Hit("read") /\ \E i \in b \ missing : Read(missing \cup {i}, 0) /\ DeleteRows(missing \cup {i})
    <3>1. PICK i \in b \ missing : Read(missing \cup {i}, 0) /\ DeleteRows(missing \cup {i})
      BY <2>8
    <3>2. missing \cup {i} \in SUBSET b /\ missing \subseteq missing \cup {i}
      BY <2>4, <3>1
    <3>3. "read" \in Faults /\ faults' \in 0..MaxFaults
      BY <2>2, <2>8
    <3>. QED
      BY <2>1, <3>1, <3>2, <3>3
  <2>. QED
    BY <2>3, <2>5, <2>6, <2>7, <2>8
<1>4. PICK orphans \in SUBSET b, n \in 0..MaxDbErrors :
        /\ missing \subseteq orphans /\ Read(orphans, n)
        /\ UNCHANGED <<row, text, attempts>> \/ DeleteRows(orphans)
        /\ orphans = missing \/ "read" \in Faults
        /\ faults' \in 0..MaxFaults
  BY <1>3
<1>5. PICK V \in SUBSET Chunks :
        V = b \ orphans /\ V \subseteq b /\ orphans = b \ V /\ \A i \in V : file[i] # NoFile
  <2>1. b \ orphans \in SUBSET Chunks /\ b \ orphans \subseteq b /\ orphans = b \ (b \ orphans)
    BY <1>2
  <2>2. \A i \in b \ orphans : file[i] # NoFile
    BY <1>4
  <2>. HIDE DEF b
  <2>. QED
    BY <2>1, <2>2
<1>. DEFINE r == [sweep[w] EXCEPT !.pc = IF Joined(V).segs \subseteq Empty THEN "batch" ELSE "stt",
                             !.todo = sweep[w].todo \ b, !.valid = V, !.errs = n, !.audio = Joined(V)]
<1>6. Joined(V) \in Recordings /\ sweep' = [sweep EXCEPT ![w] = r]
  BY <1>4, <1>5, JoinedHolds, Before
<1>. HIDE DEF b
<1>7. /\ r \in Sweeps /\ r.pc = (IF Joined(V).segs \subseteq Empty THEN "batch" ELSE "stt") /\ r.errs = n /\ r.valid = V
      /\ r.audio = Joined(V)
  <2>1. n \in 0..(MaxDbErrors + 1) /\ sweep[w] \in Sweeps /\ sweep[w].todo \ b \subseteq Chunks
    BY Constants, Before
  <2>. QED
    BY <1>5, <1>6, <2>1 DEF Sweeps, Places
<1>. HIDE DEF r
<1>8. SweepTypes' /\ Others(w) /\ sweep'[w] = r
  BY <1>1, <1>6, <1>7, SweepMoves, Before DEF SweepTypes
<1>9. RowTypes' /\ \/ \A i \in Chunks : RowSame(i)
                   \/ \A i \in Chunks : IF i \in b \ V /\ Alive(i) THEN RowGone(i) ELSE RowSame(i)
  <2>1. CASE UNCHANGED <<row, text, attempts>>
    BY <2>1, Unmoved DEF RowSame
  <2>2. CASE DeleteRows(orphans)
    <3>1. orphans \in SUBSET Chunks
      BY <1>2
    <3>2. \A i \in Chunks : IF i \in orphans /\ Alive(i) THEN RowGone(i) ELSE RowSame(i)
      BY <2>2, <3>1, DeleteRowsMoves, Before
    <3>. QED
      BY <1>5, <2>2, <3>1, <3>2, DeleteRowsMoves, Before
  <2>. QED
    BY <1>4, <2>1, <2>2
<1>10. Joined(V)' = Joined(V)
  BY <1>1, <1>5, JoinedSame
<1>11. Sound(w)'
  <2>1. sweep'[w].pc \in {"batch", "stt"} /\ (sweep'[w].pc = "stt" => V # {})
    <3>1. V = {} => Joined(V).segs = {}
      BY DEF Joined
    <3>. QED
      BY <1>7, <1>8, <3>1
  <2>2. sweep'[w].errs <= MaxDbErrors /\ running'
    <3>1. n <= MaxDbErrors /\ running
      BY <1>1, Constants, Before DEF Sound, Active
    <3>. QED
      BY <1>1, <1>7, <1>8, <3>1
  <2>3. sweep'[w].valid = V /\ sweep'[w].audio = Joined(V)' /\ \A i \in V : file'[i] # NoFile
    BY <1>1, <1>5, <1>7, <1>8, <1>10
  <2>. QED
    BY <2>1, <2>2, <2>3 DEF Sound, Active, Jobbing
<1>12. SweepInv'
  BY <1>1, <1>8, <1>11, OneSweeps, Before DEF Active
<1>13. RestTypes'
  BY <1>1, <1>4 DEF Inv1, Types, RestTypes
<1>14. Types'
  BY <1>1, <1>8, <1>9, <1>13, Unmoved DEF Types
<1>15. StoreStep
  BY <1>1, <1>9, Unmoved DEF StoreStep, RowMoved
<1>16. BatchRead(w, b, V)
  <2>1. V # b /\ "read" \notin Faults => \A i \in b \ V : file[i] = NoFile
    BY <1>4, <1>5
  <2>. QED
    BY <1>5, <1>8, <1>9, <2>1 DEF BatchRead, b, r
<1>. QED
  BY <1>1, <1>8, <1>12, <1>14, <1>15, <1>16 DEF Good1, b

LEMMA TranscribeFailsGood ==
    ASSUME Inv1, NEW w \in Sweepers, TranscribeFails(w)
    PROVE  /\ Good1 /\ Others(w) /\ sweep[w].pc = "stt"
           /\ UNCHANGED <<captured, time, file, text, pend, renewed, inflight, running, retrans, dropping, owed>>
           /\ \A i \in Chunks : RowSame(i) \/ RowTried(i)
           /\ sweep'[w] = [sweep[w] EXCEPT !.pc = "batch"]
<1>0. PICK recorded \in SUBSET sweep[w].valid : RecordFailed(recorded)
  BY DEF TranscribeFails
<1>1. /\ sweep[w].pc = "stt" /\ Go(w, "batch") /\ RecordFailed(recorded) /\ Hit("stt")
      /\ recorded \in SUBSET Chunks
      /\ UNCHANGED <<captured, time, file, text, pend, renewed, inflight, running, retrans, dropping, owed>>
  BY <1>0, Before DEF TranscribeFails, At
<1>2. SweepTypes' /\ Others(w) /\ sweep'[w] = [sweep[w] EXCEPT !.pc = "batch"]
  BY <1>1, GoMoves, Before DEF Places, SweepTypes
<1>3. sweep'[w].pc = "batch"
  BY <1>2, Before DEF Sweeps
<1>4. Sound(w)'
  BY <1>1, <1>3, Before DEF Sound, Active, Jobbing
<1>5. SweepInv'
  BY <1>1, <1>2, <1>4, OneSweeps, Before DEF Active
<1>6. RowTypes' /\ \A i \in Chunks : RowSame(i) \/ RowTried(i)
  BY <1>1, RecordFailedMoves, Before
<1>7. RestTypes'
  BY <1>1, Counted DEF Inv1, Types, RestTypes
<1>8. Types'
  BY <1>1, <1>2, <1>6, <1>7, Unmoved DEF Types
<1>9. StoreStep
  BY <1>1, <1>6, Unmoved DEF StoreStep, RowMoved
<1>. QED
  BY <1>1, <1>2, <1>5, <1>6, <1>8, <1>9 DEF Good1

\* The files and rows of O go, the other chunks of V become silent.
SilentRows(O, V) ==
    \A i \in Chunks : /\ IF i \in O /\ Alive(i) THEN RowGone(i)
                         ELSE IF i \in V \ O /\ Alive(i) THEN RowSilent(i) ELSE RowSame(i)
                      /\ file'[i] = IF i \in O THEN NoFile ELSE file[i]

LEMMA BatchSilentGood ==
    ASSUME Inv1, NEW w \in Sweepers, BatchSilent(w)
    PROVE  /\ Good1 /\ Others(w) /\ sweep[w].pc = "stt" /\ Heard(sweep[w].audio).segs = {}
           /\ UNCHANGED <<captured, time, pend, renewed, inflight, running, retrans, dropping, owed>>
           /\ \/ "db" \in Faults /\ UNCHANGED store
              \/ \E O \in SUBSET sweep[w].valid : SilentRows(O, sweep[w].valid)
           /\ \E n \in 0..(MaxDbErrors + 1) :
                 sweep'[w] = [sweep[w] EXCEPT !.pc = "batch", !.errs = n]
<1>1. /\ sweep[w].pc = "stt" /\ Heard(sweep[w].audio).segs = {} /\ faults' \in 0..MaxFaults
      /\ UNCHANGED <<captured, time, pend, renewed, inflight, running, retrans, dropping, owed>>
  BY Counted, Before DEF BatchSilent, At
<1>2. \E n \in 0..(MaxDbErrors + 1) :
         sweep' = [sweep EXCEPT ![w] = [sweep[w] EXCEPT !.pc = "batch", !.errs = n]]
  <2>1. sweep[w].errs + 1 \in 0..(MaxDbErrors + 1) /\ 0 \in 0..(MaxDbErrors + 1)
    <3>1. sweep[w].errs \in 0..(MaxDbErrors + 1) /\ sweep[w].errs <= MaxDbErrors
      BY <1>1, Before DEF Sweeps, Sound
    <3>. QED
      BY <3>1, Constants
  <2>2. \/ sweep' = [sweep EXCEPT ![w] = [sweep[w] EXCEPT !.pc = "batch", !.errs = 0]]
        \/ sweep' = [sweep EXCEPT ![w] = [sweep[w] EXCEPT !.pc = "batch", !.errs = sweep[w].errs + 1]]
    BY Before DEF BatchSilent
  <2>. QED
    BY <2>1, <2>2
<1>3. PICK n \in 0..(MaxDbErrors + 1) :
         sweep' = [sweep EXCEPT ![w] = [sweep[w] EXCEPT !.pc = "batch", !.errs = n]]
  BY <1>2
<1>4. [sweep[w] EXCEPT !.pc = "batch", !.errs = n] \in Sweeps
  BY Before DEF Sweeps, Places
<1>5. SweepTypes' /\ Others(w) /\ sweep'[w] = [sweep[w] EXCEPT !.pc = "batch", !.errs = n]
  BY <1>1, <1>3, <1>4, SweepMoves, Before DEF SweepTypes
<1>6. sweep'[w].pc = "batch"
  BY <1>5, Before DEF Sweeps
<1>7. Sound(w)'
  BY <1>1, <1>6, Before DEF Sound, Active, Jobbing
<1>8. SweepInv'
  BY <1>1, <1>5, <1>7, OneSweeps, Before DEF Active
<1>9. /\ RowTypes' /\ FileTypes' /\ \A i \in Chunks : RowMoved(i) /\ FileMoved(i)
      /\ \/ "db" \in Faults /\ UNCHANGED store
         \/ \E O \in SUBSET sweep[w].valid : SilentRows(O, sweep[w].valid)
  <2>1. CASE Hit("db") /\ UNCHANGED <<row, attempts, text, file>>
    BY <1>1, <2>1, Unmoved DEF Hit, store
  <2>2. ASSUME NEW O \in SUBSET sweep[w].valid, RecordSilent(sweep[w].valid \ O, O),
               file' = [i \in Chunks |-> IF i \in O THEN NoFile ELSE file[i]]
        PROVE  /\ RowTypes' /\ FileTypes' /\ SilentRows(O, sweep[w].valid)
               /\ \A i \in Chunks : RowMoved(i) /\ FileMoved(i)
    <3>1. O \in SUBSET Chunks /\ sweep[w].valid \ O \in SUBSET Chunks
      BY Before
    <3>2. /\ RowTypes'
          /\ \A i \in Chunks : IF i \in O /\ Alive(i) THEN RowGone(i)
                ELSE IF i \in sweep[w].valid \ O /\ Alive(i) THEN RowSilent(i) ELSE RowSame(i)
      BY <2>2, <3>1, RecordSilentMoves, Before
    <3>3. FileTypes' /\ \A i \in Chunks : FileMoved(i) /\ file'[i] = IF i \in O THEN NoFile ELSE file[i]
      BY <2>2, Recorded, Before DEF FileTypes, FileMoved
    <3>4. \A i \in Chunks : RowMoved(i)
      BY <3>2 DEF RowMoved
    <3>. QED
      BY <3>2, <3>3, <3>4 DEF SilentRows
  <2>. DEFINE old == {i \in sweep[w].valid : i <= stale}
  <2>3. CASE /\ RecordSilent(sweep[w].valid \ old, old)
             /\ file' = [i \in Chunks |-> IF i \in old THEN NoFile ELSE file[i]]
    <3>1. old \in SUBSET sweep[w].valid
      OBVIOUS
    <3>. HIDE DEF old
    <3>. QED
      BY <2>2, <2>3, <3>1
  <2>. QED
    BY <2>1, <2>3 DEF BatchSilent
<1>10. Types'
  <2>1. RestTypes'
    BY <1>1 DEF Inv1, Types, RestTypes
  <2>. QED
    BY <1>1, <1>5, <1>9, <2>1, Unmoved DEF Types
<1>11. StoreStep
  BY <1>1, <1>9, Unmoved DEF StoreStep
<1>. QED
  BY <1>1, <1>5, <1>8, <1>9, <1>10, <1>11 DEF Good1

LEMMA TranscribedGood ==
    ASSUME Inv1, NEW w \in Sweepers, Transcribed(w)
    PROVE  /\ Good1 /\ Others(w) /\ sweep[w].pc = "stt"
           /\ UNCHANGED <<captured, time, store, inflight, running, retrans, dropping, owed>>
           /\ \E p \in sweep[w].valid : LET rest == sweep[w].valid \ {p} IN
                 sweep'[w] = [sweep[w] EXCEPT !.pc = IF rest # {} THEN "merge" ELSE "save",
                    !.retrying = FALSE,
                    !.job = [chunk |-> p, heard |-> Heard(sweep[w].audio), secs |-> rest]]
<1>1. /\ sweep[w].pc = "stt"
      /\ UNCHANGED <<captured, time, store, inflight, running, retrans, dropping, owed, faults>>
  BY DEF Transcribed, At
<1>2. PICK p \in sweep[w].valid : p = Min(sweep[w].valid)
  BY <1>1, FirstOf, Before DEF Sound
<1>. DEFINE rest == sweep[w].valid \ {p}
            j == [chunk |-> p, heard |-> Heard(sweep[w].audio), secs |-> rest]
            r == [sweep[w] EXCEPT !.pc = IF rest # {} THEN "merge" ELSE "save",
                                  !.retrying = FALSE, !.job = j]
<1>3. sweep' = [sweep EXCEPT ![w] = r]
  <2>1. sweep[w].valid # {p} <=> rest # {}
    BY <1>2
  <2>. QED
    BY <1>2, <2>1, Before DEF Transcribed
<1>4. p \in Chunks /\ rest \subseteq Chunks /\ j \in Jobs
  BY <1>2, Before, Recorded DEF Jobs
<1>. HIDE DEF j
<1>5. /\ r \in Sweeps /\ r.pc = (IF rest # {} THEN "merge" ELSE "save") /\ r.errs = sweep[w].errs
      /\ r.job = j /\ r.valid = sweep[w].valid /\ r.audio = sweep[w].audio
  BY <1>4, Before DEF Sweeps, Places
<1>. HIDE DEF r
<1>6. SweepTypes' /\ Others(w) /\ sweep'[w] = r
  BY <1>1, <1>3, <1>5, SweepMoves, Before DEF SweepTypes
<1>7. j.chunk = p /\ j.heard = Heard(sweep[w].audio) /\ j.secs = rest
  BY DEF j
<1>8. Sound(w)'
  <2>1. sweep[w].errs <= MaxDbErrors /\ running' /\ running
    BY <1>1, Before DEF Sound, Active
  <2>2. /\ \A i \in sweep[w].valid : file[i] # NoFile
        /\ sweep[w].audio = Joined(sweep[w].valid)
    BY <1>1, Before DEF Sound
  <2>3. sweep[w].valid \subseteq 1..captured
    BY <2>2, AliveRecorded, Before
  <2>4. Within(Heard(sweep[w].audio), file[p]) \/ rest # {}
    <3>1. ASSUME rest = {}
          PROVE  Heard(sweep[w].audio).segs \subseteq file[p].segs
      <4>1. sweep[w].valid = {p}
        BY <1>2, <3>1
      <4>2. Joined({p}).segs = file[p].segs
        <5>1. Joined({p}).segs = UNION {file[i].segs : i \in {p}}
          BY <1>4, JoinedHolds, Before
        <5>. QED
          BY <5>1
      <4>. QED
        BY <2>2, <4>1, <4>2, Recorded, Before
    <3>. QED
      BY <3>1 DEF Within
  <2>5. file' = file /\ captured' = captured /\ \A S \in SUBSET Chunks : Joined(S)' = Joined(S)
    BY <1>1 DEF store, Joined
  <2>6. /\ sweep'[w].pc = (IF rest # {} THEN "merge" ELSE "save") /\ sweep'[w].errs = sweep[w].errs
        /\ sweep'[w].valid = sweep[w].valid /\ sweep'[w].audio = sweep[w].audio
        /\ Job(w)' = j
    BY <1>5, <1>6 DEF Job
  <2>7. p \in 1..captured /\ rest \subseteq 1..captured
    BY <2>3
  <2>8. Joined(sweep[w].valid)' = Joined(sweep[w].valid)
    BY <2>5, <2>6, Before
  <2>9. sweep'[w].pc = "merge" => /\ Job(w)'.chunk \in sweep'[w].valid
                                  /\ Job(w)'.heard = Heard(sweep'[w].audio)
                                  /\ Job(w)'.secs = sweep'[w].valid \ {Job(w)'.chunk}
    BY <1>7, <2>6
  <2>10. sweep'[w].pc = "save" => Within(Job(w)'.heard, file'[Job(w)'.chunk])
    BY <1>7, <2>4, <2>5, <2>6
  <2>. QED
    BY <1>7, <2>1, <2>2, <2>5, <2>6, <2>7, <2>8, <2>9, <2>10 DEF Sound, Active, Jobbing, Job
<1>9. SweepInv'
  BY <1>1, <1>6, <1>8, OneSweeps, Before DEF Active
<1>. QED
  BY <1>1, <1>6, <1>9, OnlySweeps, Counted, Before DEF NoFault, j, r

\* The chunk of a job, and what it is to say.
LEMMA JobKnown ==
    ASSUME Inv1, NEW w \in Sweepers, sweep[w].pc \in Jobbing
    PROVE  /\ Job(w).chunk \in 1..captured /\ Job(w).chunk \in Chunks
           /\ Job(w).heard \in Texts /\ Job(w).secs \in SUBSET Chunks
           /\ Job(w).secs \subseteq 1..captured
           /\ sweep[w].errs <= MaxDbErrors /\ running
<1>1. Job(w).chunk \in 1..captured /\ Job(w).secs \subseteq 1..captured
      /\ sweep[w].errs <= MaxDbErrors /\ running
  BY Before DEF Sound, Jobbing, Active
<1>2. captured \in Nat /\ captured <= Segments /\ Segments \in Nat
  BY Constants DEF Inv1, Types, TimeTypes
<1>3. Job(w) \in Jobs
  BY Before DEF Job
<1>. QED
  BY <1>1, <1>2, <1>3 DEF Jobs, Chunks

LEMMA MergeGood ==
    ASSUME Inv1, NEW w \in Sweepers, Merge(w)
    PROVE  /\ Good1 /\ Others(w) /\ sweep[w].pc = "merge"
           /\ UNCHANGED <<captured, time, row, attempts, text, pend, renewed, inflight, running,
                          retrans, dropping, owed>>
           /\ \/ /\ file' = [file EXCEPT ![Job(w).chunk] = sweep[w].audio]
                 /\ sweep'[w] = [sweep[w] EXCEPT !.pc = "save"]
              \/ /\ UNCHANGED file /\ sweep'[w] = [sweep[w] EXCEPT !.pc = "batch"]
              \/ /\ "rename" \in Faults
                 /\ file' = [file EXCEPT ![Job(w).chunk] = NoFile]
                 /\ sweep'[w] = [sweep[w] EXCEPT !.pc = "batch"]
<1>1. /\ sweep[w].pc = "merge" /\ faults' \in 0..MaxFaults
      /\ UNCHANGED <<captured, time, row, attempts, text, pend, renewed, inflight, running, retrans, dropping, owed>>
  BY Counted, Before DEF Merge, At
<1>2. \/ file' = [file EXCEPT ![Job(w).chunk] = sweep[w].audio] /\ Go(w, "save")
      \/ UNCHANGED file /\ Go(w, "batch")
      \/ "rename" \in Faults /\ file' = [file EXCEPT ![Job(w).chunk] = NoFile] /\ Go(w, "batch")
  BY DEF Merge, Job, Hit
<1>3. \A p \in Places : Go(w, p) =>
          SweepTypes' /\ Others(w) /\ sweep'[w] = [sweep[w] EXCEPT !.pc = p]
  BY <1>1, GoMoves, Before DEF SweepTypes
<1>4. SweepTypes' /\ Others(w)
  BY <1>2, <1>3 DEF Places
<1>5. Go(w, "save") => /\ sweep'[w] = [sweep[w] EXCEPT !.pc = "save"]
                       /\ sweep'[w].pc = "save" /\ sweep'[w].errs = sweep[w].errs /\ Job(w)' = Job(w)
  BY <1>3, Before DEF Places, Sweeps, Job
<1>6. Go(w, "batch") => sweep'[w] = [sweep[w] EXCEPT !.pc = "batch"] /\ sweep'[w].pc = "batch"
  BY <1>3, Before DEF Places, Sweeps
<1>7. /\ Job(w).chunk \in sweep[w].valid /\ Job(w).heard = Heard(sweep[w].audio)
      /\ sweep[w].audio = Joined(sweep[w].valid) /\ file[Job(w).chunk] # NoFile
  BY <1>1, Before DEF Sound
<1>8. /\ file[Job(w).chunk].segs \subseteq sweep[w].audio.segs
      /\ Job(w).heard.segs \subseteq sweep[w].audio.segs
      /\ sweep[w].audio # NoFile
  <2>1. Job(w).chunk \in file[Job(w).chunk].segs
    BY <1>7, Before DEF Inv1, AudioInv
  <2>2. file[Job(w).chunk].segs \subseteq sweep[w].audio.segs
    BY <1>7, JoinedHolds, Before
  <2>3. Job(w).heard.segs \subseteq sweep[w].audio.segs
    BY <1>7, Recorded, Before
  <2>. QED
    BY <2>1, <2>2, <2>3 DEF NoFile
<1>9. FileTypes' /\ \A i \in Chunks : FileMoved(i)
  BY <1>2, <1>7, <1>8, Recorded, Before DEF FileTypes, FileMoved
<1>10. Sound(w)'
  <2>1. CASE Go(w, "batch")
    BY <1>1, <1>6, <2>1, Before DEF Sound, Active, Jobbing
  <2>2. CASE Go(w, "save") /\ file' = [file EXCEPT ![Job(w).chunk] = sweep[w].audio]
    <3>1. /\ Job(w).chunk \in 1..captured /\ Job(w).chunk \in Chunks /\ Job(w).secs \subseteq 1..captured
          /\ sweep[w].errs <= MaxDbErrors /\ running
      BY <1>1, JobKnown DEF Jobbing
    <3>2. file'[Job(w).chunk] = sweep[w].audio
      BY <2>2, <3>1, Before DEF FileTypes
    <3>3. Within(Job(w).heard, file'[Job(w).chunk])
      BY <1>8, <3>2 DEF Within
    <3>. QED
      BY <1>1, <1>5, <2>2, <3>1, <3>3 DEF Sound, Active, Jobbing, Job
  <2>. QED
    BY <1>2, <2>1, <2>2
<1>11. SweepInv'
  BY <1>1, <1>4, <1>10, OneSweeps, Before DEF Active
<1>12. RestTypes'
  BY <1>1 DEF Inv1, Types, RestTypes
<1>13. Types'
  BY <1>1, <1>4, <1>9, <1>12, Unmoved DEF Types
<1>14. StoreStep
  BY <1>1, <1>9, Unmoved DEF StoreStep
<1>. QED
  BY <1>1, <1>2, <1>4, <1>5, <1>6, <1>11, <1>13, <1>14 DEF Good1

LEMMA SavePendingGood ==
    ASSUME Inv1, NEW w \in Sweepers, SavePending(w)
    PROVE  /\ Good1 /\ Others(w) /\ sweep[w].pc = "save"
           /\ UNCHANGED <<captured, time, file, row, attempts, text, renewed, inflight, running,
                          retrans, dropping, owed>>
           /\ \E p \in {pend[Job(w).chunk], Torn,
                        [state |-> "saved", heard |-> Job(w).heard, secs |-> Job(w).secs]} :
                 pend' = [pend EXCEPT ![Job(w).chunk] = p]
           /\ sweep'[w] = [sweep[w] EXCEPT !.pc = "store"]
<1>. DEFINE saved == [state |-> "saved", heard |-> Job(w).heard, secs |-> Job(w).secs]
<1>1. /\ sweep[w].pc = "save" /\ Go(w, "store") /\ faults' \in 0..MaxFaults
      /\ UNCHANGED <<captured, time, file, row, attempts, text, renewed, inflight, running, retrans, dropping, owed>>
  BY Counted, Before DEF SavePending, At
<1>2. PICK p \in {pend[Job(w).chunk], Torn, saved} : pend' = [pend EXCEPT ![Job(w).chunk] = p]
  BY DEF SavePending, Job
<1>3. SweepTypes' /\ Others(w) /\ sweep'[w] = [sweep[w] EXCEPT !.pc = "store"]
  BY <1>1, GoMoves, Before DEF Places, SweepTypes
<1>4. sweep'[w].pc = "store" /\ sweep'[w].errs = sweep[w].errs /\ Job(w)' = Job(w)
  BY <1>3, Before DEF Sweeps, Job
<1>5. Sound(w)'
  BY <1>1, <1>4, Before DEF Sound, Active, Jobbing, Job
<1>6. SweepInv'
  BY <1>1, <1>3, <1>5, OneSweeps, Before DEF Active
<1>7. /\ Job(w).chunk \in 1..captured /\ Job(w).chunk \in Chunks /\ Job(w).heard \in Texts
      /\ Job(w).secs \in SUBSET Chunks /\ Job(w).secs \subseteq 1..captured
      /\ Within(Job(w).heard, file[Job(w).chunk])
  BY <1>1, JobKnown, Before DEF Jobbing, Sound
<1>8. saved \in Pendings /\ saved.secs = Job(w).secs /\ saved.heard = Job(w).heard
  BY <1>7 DEF Pendings
<1>. HIDE DEF saved
<1>9. pend \in [Chunks -> Pendings] /\ Torn \in Pendings
  BY Recorded DEF Inv1, Types, PendTypes
<1>10. PendTypes' /\ \A i \in Chunks : PendMoved(i)
  <2>1. p \in Pendings
    BY <1>2, <1>7, <1>8, <1>9
  <2>2. PendTypes' /\ pend'[Job(w).chunk] = p /\ \A i \in Chunks \ {Job(w).chunk} : pend'[i] = pend[i]
    BY <1>2, <1>7, <1>9, <2>1 DEF PendTypes
  <2>3. Job(w).chunk <= captured
    BY <1>7
  <2>4. PendMoved(Job(w).chunk)
    BY <1>2, <1>7, <1>8, <2>2, <2>3 DEF PendMoved
  <2>. QED
    BY <2>2, <2>4 DEF PendMoved
<1>11. Types'
  <2>1. RestTypes'
    BY <1>1 DEF Inv1, Types, RestTypes
  <2>. QED
    BY <1>1, <1>3, <1>10, <2>1, Unmoved DEF Types
<1>12. StoreStep
  BY <1>1, <1>10, Unmoved DEF StoreStep
<1>. QED
  BY <1>1, <1>2, <1>3, <1>6, <1>11, <1>12 DEF Good1, saved

LEMMA StoreTextGood ==
    ASSUME Inv1, NEW w \in Sweepers, StoreText(w)
    PROVE  /\ Good1 /\ Others(w) /\ sweep[w].pc = "store"
           /\ UNCHANGED <<captured, time, file, pend, renewed, inflight, running, retrans, dropping, owed>>
           /\ RowTold(Job(w).chunk, Job(w).heard)
           /\ \A i \in Chunks \ {Job(w).chunk} : RowSame(i)
           /\ sweep'[w] = [sweep[w] EXCEPT !.pc = "unpend"]
<1>1. /\ sweep[w].pc = "store" /\ Go(w, "unpend") /\ NoFault
      /\ Alive(Job(w).chunk) /\ ReplaceText(Job(w).chunk, Job(w).heard)
      /\ UNCHANGED <<captured, time, file, pend, renewed, inflight, running, retrans, dropping, owed>>
  BY DEF StoreText, At, Job
<1>2. SweepTypes' /\ Others(w) /\ sweep'[w] = [sweep[w] EXCEPT !.pc = "unpend"]
  BY <1>1, GoMoves, Before DEF Places, SweepTypes
<1>3. sweep'[w].pc = "unpend" /\ sweep'[w].errs = sweep[w].errs /\ Job(w)' = Job(w)
  BY <1>2, Before DEF Sweeps, Job
<1>4. Sound(w)'
  BY <1>1, <1>3, Before DEF Sound, Active, Jobbing, Job
<1>5. SweepInv'
  BY <1>1, <1>2, <1>4, OneSweeps, Before DEF Active
<1>6. Job(w).chunk \in Chunks /\ Job(w).heard \in Texts /\ Within(Job(w).heard, file[Job(w).chunk])
  BY <1>1, JobKnown, Before DEF Jobbing, Sound
<1>7. /\ RowTypes' /\ RowTold(Job(w).chunk, Job(w).heard)
      /\ \A i \in Chunks \ {Job(w).chunk} : RowSame(i)
  BY <1>1, <1>6, ReplaceTextMoves, Before
<1>8. \A i \in Chunks : RowMoved(i)
  BY <1>6, <1>7 DEF RowMoved
<1>9. Types'
  <2>1. RestTypes'
    BY <1>1, Counted DEF Inv1, Types, RestTypes
  <2>. QED
    BY <1>1, <1>2, <1>7, <2>1, Unmoved DEF Types
<1>10. StoreStep
  BY <1>1, <1>8, Unmoved DEF StoreStep
<1>. QED
  BY <1>1, <1>2, <1>5, <1>7, <1>9, <1>10 DEF Good1

LEMMA StoreFailsGood ==
    ASSUME Inv1, NEW w \in Sweepers, StoreFails(w)
    PROVE  /\ Good1 /\ Others(w) /\ sweep[w].pc = "store"
           /\ UNCHANGED <<captured, time, store, inflight, running, retrans, dropping, owed>>
           /\ ~Alive(Job(w).chunk) \/ "db" \in Faults
           /\ sweep'[w] = Finalized(sweep[w], sweep[w].errs + 1)
<1>1. /\ sweep[w].pc = "store" /\ AfterFinalize(w, sweep[w].errs + 1) /\ faults' \in 0..MaxFaults
      /\ ~Alive(Job(w).chunk) \/ "db" \in Faults
      /\ UNCHANGED <<captured, time, store, inflight, running, retrans, dropping, owed>>
  BY Counted, Before DEF StoreFails, At, Job, Hit
<1>2. sweep[w].errs + 1 \in 0..(MaxDbErrors + 1)
  <2>1. sweep[w].errs \in 0..(MaxDbErrors + 1) /\ sweep[w].errs <= MaxDbErrors
    BY <1>1, Before DEF Sweeps, Sound
  <2>. QED
    BY <2>1, Constants
<1>3. SweepTypes' /\ Others(w) /\ sweep'[w] = Finalized(sweep[w], sweep[w].errs + 1)
  BY <1>1, <1>2, AfterMoves, Before
<1>4. \/ sweep'[w].pc = "batch"
      \/ sweep'[w].pc = "retry" /\ sweep'[w].errs = sweep[w].errs
  BY <1>3, Before DEF Finalized, Sweeps
<1>5. Sound(w)'
  BY <1>1, <1>4, Before DEF Sound, Active, Jobbing
<1>6. SweepInv'
  BY <1>1, <1>3, <1>5, OneSweeps, Before DEF Active
<1>. QED
  BY <1>1, <1>3, <1>6, OnlySweeps

LEMMA RemovePendingGood ==
    ASSUME Inv1, NEW w \in Sweepers, RemovePending(w)
    PROVE  /\ Good1 /\ Others(w) /\ sweep[w].pc = "unpend"
           /\ UNCHANGED <<captured, time, file, row, attempts, text, renewed, inflight, running,
                          retrans, dropping, owed>>
           /\ pend' = [pend EXCEPT ![Job(w).chunk] = NoPend]
           /\ sweep'[w] = [sweep[w] EXCEPT !.pc = "clean"]
<1>1. /\ sweep[w].pc = "unpend" /\ Go(w, "clean") /\ NoFault
      /\ pend' = [pend EXCEPT ![Job(w).chunk] = NoPend]
      /\ UNCHANGED <<captured, time, file, row, attempts, text, renewed, inflight, running, retrans, dropping, owed>>
  BY DEF RemovePending, At, Job, NoFault
<1>2. SweepTypes' /\ Others(w) /\ sweep'[w] = [sweep[w] EXCEPT !.pc = "clean"]
  BY <1>1, GoMoves, Before DEF Places, SweepTypes
<1>3. sweep'[w].pc = "clean" /\ sweep'[w].errs = sweep[w].errs /\ Job(w)' = Job(w)
  BY <1>2, Before DEF Sweeps, Job
<1>4. Sound(w)'
  BY <1>1, <1>3, Before DEF Sound, Active, Jobbing, Job
<1>5. SweepInv'
  BY <1>1, <1>2, <1>4, OneSweeps, Before DEF Active
<1>6. PendTypes' /\ \A i \in Chunks : PendMoved(i)
  BY <1>1, Recorded DEF Inv1, Types, PendTypes, PendMoved
<1>7. Types'
  <2>1. RestTypes'
    BY <1>1, Counted DEF Inv1, Types, RestTypes
  <2>. QED
    BY <1>1, <1>2, <1>6, <2>1, Unmoved DEF Types
<1>8. StoreStep
  BY <1>1, <1>6, Unmoved DEF StoreStep
<1>. QED
  BY <1>1, <1>2, <1>5, <1>7, <1>8 DEF Good1

LEMMA DeleteGood ==
    ASSUME Inv1, NEW w \in Sweepers, DeleteSecondaries(w)
    PROVE  /\ Good1 /\ Others(w) /\ sweep[w].pc = "clean"
           /\ UNCHANGED <<captured, time, pend, renewed, inflight, running, retrans, dropping, owed>>
           /\ \/ \A i \in Chunks : IF i \in Job(w).secs /\ Alive(i) THEN RowGone(i) ELSE RowSame(i)
              \/ "db" \in Faults /\ \A i \in Chunks : RowSame(i)
           /\ \A i \in Chunks :
                 file'[i] = IF i \in Job(w).secs /\ ~sweep[w].retrying THEN NoFile ELSE file[i]
           /\ sweep'[w] = Finalized(sweep[w], 0)
<1>1. /\ sweep[w].pc = "clean" /\ AfterFinalize(w, 0) /\ faults' \in 0..MaxFaults
      /\ DeleteRows(Job(w).secs) \/ ("db" \in Faults /\ UNCHANGED <<row, text, attempts>>)
      /\ file' = [i \in Chunks |-> IF i \in Job(w).secs /\ ~sweep[w].retrying THEN NoFile ELSE file[i]]
      /\ UNCHANGED <<captured, time, pend, renewed, inflight, running, retrans, dropping, owed>>
  BY Counted, Before DEF DeleteSecondaries, At, Job, Hit
<1>2. SweepTypes' /\ Others(w) /\ sweep'[w] = Finalized(sweep[w], 0)
  BY <1>1, AfterMoves, Before, Constants
<1>3. \/ sweep'[w].pc = "batch"
      \/ sweep'[w].pc = "retry" /\ sweep'[w].errs = sweep[w].errs
  BY <1>2, Before DEF Finalized, Sweeps
<1>4. Sound(w)'
  BY <1>1, <1>3, Before DEF Sound, Active, Jobbing
<1>5. SweepInv'
  BY <1>1, <1>2, <1>4, OneSweeps, Before DEF Active
<1>6. Job(w).secs \in SUBSET Chunks
  BY <1>1, JobKnown DEF Jobbing
<1>7. RowTypes' /\ \/ \A i \in Chunks : IF i \in Job(w).secs /\ Alive(i) THEN RowGone(i) ELSE RowSame(i)
                   \/ "db" \in Faults /\ \A i \in Chunks : RowSame(i)
  <2>1. CASE DeleteRows(Job(w).secs)
    BY <1>6, <2>1, DeleteRowsMoves, Before
  <2>2. CASE "db" \in Faults /\ UNCHANGED <<row, text, attempts>>
    BY <2>2, Unmoved DEF RowSame
  <2>. QED
    BY <1>1, <2>1, <2>2
<1>8. FileTypes' /\ \A i \in Chunks : FileMoved(i)
  BY <1>1, Recorded, Before DEF FileTypes, FileMoved
<1>9. Types'
  <2>1. RestTypes'
    BY <1>1 DEF Inv1, Types, RestTypes
  <2>. QED
    BY <1>1, <1>2, <1>7, <1>8, <2>1, Unmoved DEF Types
<1>10. StoreStep
  BY <1>1, <1>7, <1>8, Unmoved DEF StoreStep, RowMoved
<1>. QED
  BY <1>1, <1>2, <1>5, <1>7, <1>9, <1>10 DEF Good1

-----------------------------------------------------------------------------
(* The first invariant, and what follows from it.                           *)

LEMMA Step1 ==
    ASSUME Inv1, [Next]_vars
    PROVE  Good1 /\ Inv1'
<1>1. ASSUME UNCHANGED vars
      PROVE  Good1
  <2>1. /\ UNCHANGED <<captured, time, file, row, attempts, text, pend, renewed, inflight>>
        /\ UNCHANGED <<running, sweep, retrans, dropping, owed, faults>>
    BY <1>1 DEF vars, store
  <2>2. Types'
    BY <2>1, Unmoved DEF Types
  <2>3. StoreStep
    BY <2>1, Unmoved DEF StoreStep
  <2>4. SweepInv'
    BY <2>1, SweepKept
  <2>. QED
    BY <2>2, <2>3, <2>4 DEF Good1
<1>2. ASSUME NEW w \in Sweepers, Sweep(w)
      PROVE  Good1
  BY <1>2, RetryPendingGood, RetriesDoneGood, QueryGood, LastBatchGood, ReadBatchGood,
     TranscribeFailsGood, BatchSilentGood, TranscribedGood, MergeGood, SavePendingGood,
     StoreTextGood, StoreFailsGood, RemovePendingGood, DeleteGood DEF Sweep
<1>3. Good1
  BY <1>1, <1>2, CaptureGood, TimeGood, LiveInsertGood, DropCheckGood, DropDeleteGood, RetranscribeReadGood,
     RetranscribeStoreGood, CrashGood, BeginSweepGood DEF Next
<1>4. (Blank /\ RowInv /\ AudioInv)'
  BY <1>3, StoreKept DEF Good1, Types
<1>. QED
  BY <1>3, <1>4 DEF Inv1, Good1

\* Whatever fails and whoever asks, one caller sweeps at a time, a file holds its own
\* segment, and texts, stored or saved, were made from audio that is still in their file.
THEOREM Invariant == Spec => []Inv1
<1>1. Inv1 /\ [Next]_vars => Inv1'
  BY Step1
<1>. QED
  BY <1>1, Start1, PTL DEF Spec

\* Every variable keeps its type.
THEOREM TypeCorrect == Spec => []TypeOK
<1>1. ASSUME Inv1
      PROVE  TypeOK
  <2>1. retrans \in [chunk : Chunks \cup {0}, audio : Recordings]
    BY <1>1, Recorded DEF Inv1, Types, RestTypes, Requests, NoRetrans
  <2>3. dropping \in [chunk : Chunks \cup {0}, segs : SUBSET Chunks]
    BY <1>1 DEF Inv1, Types, RestTypes, Drops, NoDrop
  <2>2. pend \in [Chunks -> [state : {"none", "torn", "saved"}, heard : Texts, secs : SUBSET Chunks]]
    BY <1>1 DEF Inv1, Types, PendTypes, Pendings
  <2>. QED
    BY <1>1, <2>1, <2>2, <2>3 DEF Inv1, Types, TimeTypes, FileTypes, RowTypes, Rows, LiveTypes,
       SweepTypes, RestTypes, TypeOK
<1>. QED
  BY <1>1, Invariant, PTL

\* A chunk whose attempts are used up is not left pending, where no query would find it
\* (record_chunk_outcome).
THEOREM Pickable == Spec => []NoZombie
<1>1. Inv1 => NoZombie
  BY DEF Inv1, RowInv, NoZombie
<1>. QED
  BY <1>1, Invariant, PTL

\* What the text of a chunk says is in its file, while it has one: replace_with_merged_audio
\* comes before the text of the batch.
THEOREM Playable == Spec => []TextPlayable
<1>1. Inv1 => TextPlayable
  BY DEF Inv1, AudioInv, Within, TextPlayable, Said
<1>. QED
  BY <1>1, Invariant, PTL

-----------------------------------------------------------------------------
(* Nothing registered is lost, when the process may die, the engine and the *)
(* writes to disk may fail, and live transcription may be late.  With a     *)
(* failing database, rename or read, or with a request of the user, it may  *)
(* be: see RC_lost and RC_drop.                                             *)

Steady == Faults \subseteq {"crash", "stt", "disk"} /\ Users = {}

\* The text a says what the file of chunk i holds, or at least what the files of the
\* chunks S hold that are still in the table.
Same(a, i)   == a.segs = file[i].segs \cap Speech
Covers(a, S) == \A j \in S : Alive(j) => file[j].segs \cap Speech \subseteq a.segs

\* Owed speech is told, or its own chunk is still to be transcribed.
WaitsAlone(s) == row[s] \in {"pending", "failed"} /\ s \in file[s].segs
OwedInv == \A s \in owed : Spoken(s) \/ WaitsAlone(s)

\* A pending chunk has no text, a chunk in the table has its file.
FiledInv == \A i \in Chunks : /\ row[i] = "pending" => text[i] = {}
                              /\ Alive(i) => file[i] # NoFile

\* The text of a job tells all that its first chunk holds and all that goes with the others.
JobInv(w) ==
    /\ sweep[w].pc \in Jobbing => Job(w).chunk \notin Job(w).secs
    /\ sweep[w].pc \in {"save", "store"} /\ Alive(Job(w).chunk) => Same(Job(w).heard, Job(w).chunk)
    /\ sweep[w].pc \in {"save", "store", "unpend", "clean"} => Covers(Job(w).heard, Job(w).secs)
    /\ sweep[w].pc \in {"unpend", "clean"} =>
          /\ row[Job(w).chunk] = "transcribed" /\ Alive(Job(w).chunk)
          /\ Job(w).heard.segs \subseteq Said(Job(w).chunk)
    /\ sweep[w].pc \in {"merge", "save"} => ~sweep[w].retrying

\* A pending file that will be stored tells all that it replaces, too: no new batch is
\* begun before all that were saved have been stored.
Due(i) == pend[i].state = "saved" /\ Alive(i)
Told(i) == /\ Same(pend[i].heard, i) /\ i \notin pend[i].secs
           /\ Covers(pend[i].heard, pend[i].secs)
Handled(i, w) ==
    \/ sweep[w].pc = "retry" /\ i \in sweep[w].retries
    \/ sweep[w].pc \in {"save", "store", "unpend"} /\ i = Job(w).chunk
    \/ sweep[w].pc \in Jobbing /\ sweep[w].retrying /\ i \in sweep[w].retries
PendInv == \A i \in Chunks : Due(i) => Told(i) /\ \A w \in Sweepers : Active(w) => Handled(i, w)

Inv2 == /\ Inv1 /\ retrans = NoRetrans /\ dropping = NoDrop /\ OwedInv /\ FiledInv /\ PendInv
        /\ \A w \in Sweepers : JobInv(w)

\* A chunk in the table was there before, or is recorded in this step.
LEMMA AliveStep ==
    ASSUME Inv1, StoreStep, NEW i \in Chunks, Alive(i)'
    PROVE  Alive(i) \/ RowNew(i)
<1>1. RowMoved(i) /\ renewed \subseteq renewed'
  BY DEF StoreStep
<1>. QED
  BY <1>1 DEF Alive, RowMoved, RowSame, RowNew, RowLive, RowGone, RowSilent, RowTried, RowTold

LEMMA AliveBefore ==
    ASSUME Inv1, StoreStep, NEW i \in Chunks, i \in 1..captured, Alive(i)'
    PROVE  Alive(i)
<1>1. ~(i > captured)
  BY Constants DEF Inv1, Types, TimeTypes
<1>. QED
  BY <1>1, AliveStep DEF RowNew

\* Only a merge changes the file of a recorded chunk that stays in the table.
FilesStay == \A i \in Chunks : i \in 1..captured /\ Alive(i)' => file'[i] = file[i]

LEMMA FilesKept ==
    ASSUME Steady, Inv1, [Next]_vars, \A w \in Sweepers : ~Merge(w)
    PROVE  FilesStay
<1>1. CASE UNCHANGED file
  BY <1>1 DEF FilesStay
<1>2. CASE Capture
  <2>1. file' = [file EXCEPT ![captured + 1] = Only(captured + 1)]
    BY <1>2 DEF Capture
  <2>2. \A i \in Chunks : i \in 1..captured => i # captured + 1
    BY Constants DEF Inv1, Types, TimeTypes
  <2>. QED
    BY <2>1, <2>2 DEF FilesStay, Inv1, Types, FileTypes
<1>3. ASSUME NEW w \in Sweepers, BatchSilent(w)
      PROVE  FilesStay
  <2>1. PICK O \in SUBSET sweep[w].valid : SilentRows(O, sweep[w].valid) \/ UNCHANGED store
    BY <1>3, BatchSilentGood
  <2>2. ASSUME NEW i \in Chunks, i \in 1..captured, Alive(i)', SilentRows(O, sweep[w].valid)
        PROVE  file'[i] = file[i]
    <3>1. Alive(i)
      BY <1>3, <2>2, BatchSilentGood, AliveBefore DEF Good1
    <3>. QED
      BY <2>2, <3>1 DEF SilentRows, RowGone, Alive
  <2>. QED
    BY <2>1, <2>2 DEF FilesStay, store
<1>4. ASSUME NEW w \in Sweepers, DeleteSecondaries(w)
      PROVE  FilesStay
  <2>1. ASSUME NEW i \in Chunks, i \in 1..captured, Alive(i)'
        PROVE  file'[i] = file[i]
    <3>1. Alive(i)
      BY <1>4, <2>1, DeleteGood, AliveBefore DEF Good1
    <3>2. /\ IF i \in Job(w).secs /\ Alive(i) THEN RowGone(i) ELSE RowSame(i)
          /\ file'[i] = IF i \in Job(w).secs /\ ~sweep[w].retrying THEN NoFile ELSE file[i]
      BY <1>4, DeleteGood DEF Steady
    <3>. QED
      BY <2>1, <3>1, <3>2 DEF RowGone, Alive
  <2>. QED
    BY <2>1 DEF FilesStay
<1>5. ASSUME NEW w \in Sweepers, BeginSweep(w) \/ Sweep(w), ~BatchSilent(w), ~DeleteSecondaries(w)
      PROVE  UNCHANGED file
  BY <1>5 DEF BeginSweep, Sweep, RetryPending, RetriesDone, QueryCandidates, LastBatch, ReadBatch,
     TranscribeFails, Transcribed, Merge, SavePending, StoreText, StoreFails, RemovePending, store
<1>6. ASSUME [Next]_vars, ~Capture, \A w \in Sweepers : ~BeginSweep(w) /\ ~Sweep(w)
      PROVE  UNCHANGED file
  BY <1>6 DEF Next, Ripen, GoStale, LiveInsert, DropCheck, DropDelete, RetranscribeRead, RetranscribeStore,
     Crash, store, vars
<1>. QED
  BY <1>1, <1>2, <1>3, <1>4, <1>5, <1>6

\* Text that stays in the table, as it does unless its row is deleted or told anew.
TextStays(i) == RowSame(i) \/ RowNew(i) \/ RowLive(i) \/ RowSilent(i) \/ RowTried(i)

LEMMA StaysSaid ==
    ASSUME NEW i \in Chunks, TextStays(i), row[i] # "none", NEW s, s \in Said(i)
    PROVE  row'[i] # "none" /\ s \in Said(i)'
<1>1. text[i] \subseteq text'[i] /\ row'[i] # "none"
  BY DEF TextStays, RowSame, RowNew, RowLive, RowSilent, RowTried, Alive
<1>. QED
  BY <1>1 DEF Said

LEMMA StaysSpoken ==
    ASSUME NEW s, Spoken(s),
           \A i \in Chunks : row[i] # "none" /\ s \in Said(i) => TextStays(i)
    PROVE  Spoken(s)'
<1>1. PICK i \in Chunks : row[i] # "none" /\ s \in Said(i)
  BY DEF Spoken
<1>2. row'[i] # "none" /\ s \in Said(i)'
  BY <1>1, StaysSaid
<1>. QED
  BY <1>2 DEF Spoken

\* What a step has to show: what is told stays told, and all that is owed is told or waits.
StaysTold == \A s \in owed : Spoken(s) => Spoken(s)'
Tells2 == StaysTold /\ OwedInv'

\* The speech that is owed, and what the chunks that tell it hold.
LEMMA OwedKnown ==
    ASSUME Inv2, NEW s \in owed
    PROVE  /\ s \in Speech /\ s \in Chunks
           /\ \A i \in Chunks : Alive(i) /\ s \in Said(i) => s \in file[i].segs \cap Speech
           /\ WaitsAlone(s) => Alive(s) /\ s \in file[s].segs \cap Speech
<1>1. s \in Speech /\ s \in Chunks
  BY Constants DEF Inv2, Inv1, Types, LiveTypes
<1>2. \A i \in Chunks : Alive(i) /\ s \in Said(i) => s \in file[i].segs
  BY DEF Inv2, Inv1, AudioInv, FiledInv, Within, Said
<1>3. WaitsAlone(s) => Alive(s)
  BY <1>1, CandidateAlive DEF WaitsAlone, Inv2
<1>. QED
  BY <1>1, <1>2, <1>3 DEF WaitsAlone

LEMMA QuietTells ==
    ASSUME Inv2, UNCHANGED owed, \A i \in Chunks : RowSame(i) \/ RowTried(i),
           \A i \in Chunks : row[i] \in {"pending", "failed"} => file[i].segs \subseteq file'[i].segs
    PROVE  Tells2
<1>1. ASSUME NEW s \in owed, Spoken(s)
      PROVE  Spoken(s)'
  BY <1>1, StaysSpoken DEF TextStays
<1>2. ASSUME NEW s \in owed, WaitsAlone(s)
      PROVE  WaitsAlone(s)'
  <2>1. s \in Chunks
    BY OwedKnown
  <2>. QED
    BY <1>2, <2>1 DEF WaitsAlone, RowSame, RowTried
<1>. QED
  BY <1>1, <1>2 DEF Tells2, StaysTold, OwedInv, Inv2

LEMMA CaptureTells ==
    ASSUME Steady, Inv2, Capture
    PROVE  Tells2
<1>1. PICK k \in Chunks :
      /\ k > captured /\ captured' = k
      /\ file' = [file EXCEPT ![k] = Only(k)] /\ row' = [row EXCEPT ![k] = "pending"]
      /\ owed' = owed \cup ({k} \cap Speech) /\ UNCHANGED <<attempts, text>>
  <2>1. captured \in Nat /\ captured < Segments /\ Segments \in Nat /\ captured' = captured + 1
    BY Constants DEF Inv2, Inv1, Types, TimeTypes, Capture
  <2>2. captured + 1 \in Chunks /\ captured + 1 > captured
    BY <2>1 DEF Chunks
  <2>. QED
    BY <2>1, <2>2 DEF Capture, Hit, Steady
<1>2. row[k] = "none"
  BY <1>1 DEF Inv2, Inv1, Blank
<1>3. row \in [Chunks -> Rows] /\ file \in [Chunks -> Recordings]
  BY DEF Inv2, Inv1, Types, RowTypes, FileTypes
<1>4. row'[k] = "pending" /\ file'[k] = Only(k) /\ RowNew(k)
  BY <1>1, <1>3 DEF RowNew
<1>5. \A i \in Chunks \ {k} : RowSame(i) /\ file'[i] = file[i]
  BY <1>1, <1>3 DEF RowSame
<1>6. ASSUME NEW s \in owed, Spoken(s)
      PROVE  Spoken(s)'
  BY <1>4, <1>5, <1>6, StaysSpoken DEF TextStays
<1>7. ASSUME NEW s \in owed, WaitsAlone(s)
      PROVE  WaitsAlone(s)'
  BY <1>2, <1>5, <1>7, OwedKnown DEF WaitsAlone, RowSame
<1>8. k \in Speech => WaitsAlone(k)'
  BY <1>1, <1>4, Recorded DEF WaitsAlone
<1>. QED
  BY <1>1, <1>6, <1>7, <1>8 DEF Tells2, StaysTold, OwedInv, Inv2

LEMMA LiveInsertTells ==
    ASSUME Steady, Inv2, NEW k \in Chunks, LiveInsert(k)
    PROVE  Tells2
<1>1. /\ row' = [row EXCEPT ![k] = "transcribed"]
      /\ text' = [text EXCEPT ![k] = @ \cup {Only(k)}]
      /\ attempts' = [attempts EXCEPT ![k] = OneMore(@)]
      /\ owed' = owed \cup {k} /\ k \in inflight /\ file' = file
      /\ renewed' = IF row[k] = "none" THEN renewed \cup {k} ELSE renewed
  BY DEF LiveInsert, Hit, Steady
<1>2. row \in [Chunks -> Rows] /\ text \in [Chunks -> SUBSET Texts] /\ attempts \in [Chunks -> 0..MaxAttempts]
  BY DEF Inv2, Inv1, Types, RowTypes
<1>3. RowLive(k) /\ \A i \in Chunks \ {k} : RowSame(i)
  BY <1>1, <1>2 DEF RowSame, RowLive
<1>4. ASSUME NEW s \in owed, Spoken(s)
      PROVE  Spoken(s)'
  BY <1>3, <1>4, StaysSpoken DEF TextStays
<1>5. Spoken(k)'
  <2>1. row'[k] = "transcribed" /\ Only(k) \in text'[k] /\ k \in Only(k).segs
    BY <1>3, Recorded DEF RowLive
  <2>. QED
    BY <2>1 DEF Spoken, Said
<1>6. ASSUME NEW s \in owed, s # k, WaitsAlone(s)
      PROVE  WaitsAlone(s)'
  BY <1>1, <1>3, <1>6, OwedKnown DEF WaitsAlone, RowSame
<1>. QED
  BY <1>1, <1>4, <1>5, <1>6 DEF Tells2, StaysTold, OwedInv, Inv2

LEMMA BatchSilentTells ==
    ASSUME Steady, Inv2, NEW w \in Sweepers, BatchSilent(w)
    PROVE  Tells2
<1>0. Inv1 /\ sweep[w].pc = "stt" /\ Heard(sweep[w].audio).segs = {} /\ UNCHANGED owed
  BY BatchSilentGood DEF Inv2
<1>1. PICK O \in SUBSET sweep[w].valid : SilentRows(O, sweep[w].valid)
  BY <1>0, BatchSilentGood DEF Steady
\* Nobody speaks in the files that were read.
<1>2. \A i \in sweep[w].valid : file[i].segs \cap Speech = {}
  <2>1. sweep[w].audio = Joined(sweep[w].valid) /\ sweep[w].audio.segs \cap Speech = {}
    BY <1>0, Before, Recorded DEF Sound
  <2>. QED
    BY <1>0, <2>1, JoinedHolds, Before
<1>3. \A i \in Chunks : IF i \in O /\ Alive(i) THEN RowGone(i)
                        ELSE IF i \in sweep[w].valid \ O /\ Alive(i) THEN RowSilent(i) ELSE RowSame(i)
  BY <1>1 DEF SilentRows
<1>4. ASSUME NEW s \in owed, Spoken(s)
      PROVE  Spoken(s)'
  <2>1. ASSUME NEW i \in Chunks, row[i] # "none", s \in Said(i)
        PROVE  TextStays(i)
    <3>1. Alive(i) => i \notin O
      BY <1>2, <2>1, OwedKnown
    <3>. QED
      BY <1>3, <3>1 DEF TextStays
  <2>. QED
    BY <1>4, <2>1, StaysSpoken
<1>5. ASSUME NEW s \in owed, WaitsAlone(s)
      PROVE  WaitsAlone(s)'
  <2>1. s \in Chunks /\ s \notin sweep[w].valid
    BY <1>2, <1>5, OwedKnown
  <2>2. RowSame(s) /\ file'[s] = file[s]
    BY <1>1, <2>1 DEF SilentRows
  <2>. QED
    BY <1>5, <2>2 DEF WaitsAlone, RowSame
<1>. QED
  BY <1>0, <1>4, <1>5 DEF Tells2, StaysTold, OwedInv, Inv2

LEMMA StoreTextTells ==
    ASSUME Steady, Inv2, NEW w \in Sweepers, StoreText(w)
    PROVE  Tells2
<1>0. Inv1 /\ sweep[w].pc = "store" /\ UNCHANGED <<file, owed>>
  BY StoreTextGood DEF Inv2
<1>1. PICK p \in Chunks, t \in Texts :
         /\ p = Job(w).chunk /\ t = Job(w).heard
         /\ RowTold(p, t) /\ Alive(p) /\ \A i \in Chunks \ {p} : RowSame(i)
  BY <1>0, StoreTextGood, JobKnown DEF RowTold, Jobbing
<1>2. t.segs = file[p].segs \cap Speech
  BY <1>0, <1>1 DEF Inv2, JobInv, Same
<1>3. row'[p] = "transcribed" /\ Said(p)' = t.segs
  BY <1>1 DEF RowTold, Said
<1>4. ASSUME NEW s \in owed, Spoken(s)
      PROVE  Spoken(s)'
  <2>1. CASE s \in Said(p)
    BY <1>1, <1>2, <1>3, <2>1, OwedKnown DEF Spoken
  <2>2. CASE s \notin Said(p)
    BY <1>1, <1>4, <2>2, StaysSpoken DEF TextStays
  <2>. QED
    BY <2>1, <2>2
<1>5. ASSUME NEW s \in owed, WaitsAlone(s)
      PROVE  (Spoken(s) \/ WaitsAlone(s))'
  <2>1. CASE s = p
    BY <1>1, <1>2, <1>3, <1>5, <2>1, OwedKnown DEF Spoken
  <2>2. CASE s # p
    BY <1>0, <1>1, <1>5, <2>2, OwedKnown DEF WaitsAlone, RowSame
  <2>. QED
    BY <2>1, <2>2
<1>. QED
  BY <1>0, <1>4, <1>5 DEF Tells2, StaysTold, OwedInv, Inv2

LEMMA DeleteTells ==
    ASSUME Steady, Inv2, NEW w \in Sweepers, DeleteSecondaries(w)
    PROVE  Tells2
<1>0. Inv1 /\ sweep[w].pc = "clean" /\ UNCHANGED owed
  BY DeleteGood DEF Inv2
<1>1. PICK p \in Chunks, S \in SUBSET Chunks :
      /\ p = Job(w).chunk /\ S = Job(w).secs /\ p \notin S /\ Covers(Job(w).heard, S)
      /\ row[p] = "transcribed" /\ Alive(p) /\ Job(w).heard.segs \subseteq Said(p)
  BY <1>0, JobKnown DEF Inv2, JobInv, Jobbing
<1>2. \A i \in Chunks : /\ IF i \in S /\ Alive(i) THEN RowGone(i) ELSE RowSame(i)
                        /\ i \notin S => file'[i] = file[i]
  BY <1>0, <1>1, DeleteGood DEF Steady
\* What the deleted chunks told, or had to tell, is in the text of the first.
<1>3. ASSUME NEW s \in owed, NEW i \in S, i \in Chunks, Alive(i), s \in file[i].segs \cap Speech
      PROVE  Spoken(s)'
  <2>1. s \in Said(p)
    BY <1>1, <1>3 DEF Covers
  <2>2. row'[p] # "none" /\ s \in Said(p)'
    BY <1>1, <1>2, <2>1, StaysSaid DEF TextStays
  <2>. QED
    BY <1>1, <2>2 DEF Spoken
<1>4. ASSUME NEW s \in owed, Spoken(s)
      PROVE  Spoken(s)'
  <2>1. PICK i \in Chunks : row[i] # "none" /\ s \in Said(i)
    BY <1>4 DEF Spoken
  <2>2. CASE i \in S /\ Alive(i)
    BY <1>3, <2>1, <2>2, OwedKnown
  <2>3. CASE ~(i \in S /\ Alive(i))
    BY <1>2, <2>1, <2>3, StaysSaid DEF TextStays, Spoken
  <2>. QED
    BY <2>2, <2>3
<1>5. ASSUME NEW s \in owed, WaitsAlone(s)
      PROVE  (Spoken(s) \/ WaitsAlone(s))'
  <2>1. s \in Chunks /\ Alive(s) /\ s \in file[s].segs \cap Speech
    BY <1>5, OwedKnown
  <2>2. CASE s \in S
    BY <1>3, <2>1, <2>2
  <2>3. CASE s \notin S
    BY <1>2, <1>5, <2>1, <2>3 DEF WaitsAlone, RowSame
  <2>. QED
    BY <2>2, <2>3
<1>. QED
  BY <1>0, <1>4, <1>5 DEF Tells2, StaysTold, OwedInv, Inv2

\* The steps that neither tell nor delete anything.
LEMMA StepTells ==
    ASSUME Steady, Inv2, [Next]_vars
    PROVE  Tells2
<1>0. Inv1 /\ StoreStep
  BY Step1 DEF Inv2, Good1
<1>1. UNCHANGED <<row, text, attempts, file, owed>> => Tells2
  BY QuietTells DEF RowSame
<1>2. CASE \E k \in Chunks : LiveInsert(k) \/ DropCheck(k) \/ RetranscribeRead(k)
  BY <1>1, <1>2, LiveInsertTells DEF DropCheck, RetranscribeRead, store
<1>3. CASE Capture \/ Ripen \/ GoStale \/ RetranscribeStore \/ DropDelete \/ Crash \/ UNCHANGED vars
  BY <1>1, <1>3, CaptureTells DEF Ripen, GoStale, RetranscribeStore, DropDelete, Crash, vars, store, Inv2
<1>4. ASSUME NEW w \in Sweepers, BeginSweep(w) \/ Sweep(w)
      PROVE  Tells2
  <2>1. CASE BeginSweep(w) \/ RetriesDone(w) \/ QueryCandidates(w) \/ LastBatch(w) \/ Transcribed(w)
              \/ StoreFails(w)
    BY <1>1, <2>1 DEF BeginSweep, RetriesDone, QueryCandidates, LastBatch, Transcribed, StoreFails, store
  <2>2. CASE RetryPending(w) \/ SavePending(w) \/ RemovePending(w)
    BY <1>1, <2>2 DEF RetryPending, SavePending, RemovePending
  <2>3. CASE ReadBatch(w)
    <3>1. PICK V : BatchRead(w, NextBatch(sweep[w].todo), V)
      BY <1>0, <2>3, ReadBatchGood
    <3>2. \A i \in NextBatch(sweep[w].todo) \ V : i \in Chunks => ~Alive(i)
      BY <3>1 DEF BatchRead, Steady, Inv2, FiledInv
    <3>3. \A i \in Chunks : RowSame(i)
      BY <3>1, <3>2 DEF BatchRead
    <3>4. UNCHANGED <<file, owed>>
      BY <1>0, <2>3, ReadBatchGood
    <3>. QED
      BY <3>3, <3>4, QuietTells
  <2>4. CASE TranscribeFails(w)
    BY <1>0, <2>4, TranscribeFailsGood, QuietTells
  <2>5. CASE Merge(w)
    <3>1. \A i \in Chunks : RowSame(i)
      BY <1>0, <2>5, MergeGood DEF RowSame
    <3>2. ASSUME NEW i \in Chunks
          PROVE  file[i].segs \subseteq file'[i].segs
      <4>1. CASE UNCHANGED file
        BY <4>1
      <4>2. CASE file' = [file EXCEPT ![Job(w).chunk] = sweep[w].audio]
        <5>1. /\ Job(w).chunk \in sweep[w].valid /\ sweep[w].audio = Joined(sweep[w].valid)
              /\ sweep[w].valid \in SUBSET Chunks /\ FileTypes
          BY <1>0, <2>5, MergeGood, Before DEF Sound
        <5>2. file[Job(w).chunk].segs \subseteq sweep[w].audio.segs
          BY <5>1, JoinedHolds
        <5>. QED
          BY <4>2, <5>1, <5>2 DEF FileTypes
      <4>. QED
        BY <1>0, <2>5, <4>1, <4>2, MergeGood DEF Steady
    <3>3. UNCHANGED owed
      BY <1>0, <2>5, MergeGood
    <3>. QED
      BY <3>1, <3>2, <3>3, QuietTells
  <2>. QED
    BY <1>4, <2>1, <2>2, <2>3, <2>4, <2>5, BatchSilentTells, StoreTextTells, DeleteTells DEF Sweep
<1>. QED
  BY <1>2, <1>3, <1>4 DEF Next

\* A chunk in the table keeps its file, and one that waits has no text yet.
LEMMA StepFiled ==
    ASSUME Steady, Inv2, [Next]_vars
    PROVE  FiledInv'
<1>0. Inv1 /\ StoreStep /\ Inv1'
  BY Step1 DEF Inv2, Good1
<1>1. ASSUME NEW i \in Chunks, row'[i] = "pending"
      PROVE  text'[i] = {}
  <2>1. RowMoved(i)
    BY <1>0 DEF StoreStep
  <2>2. (row[i] = "none" => text[i] = {}) /\ (row[i] = "pending" => text[i] = {})
        /\ (i > captured => row[i] = "none")
    BY DEF Inv2, Inv1, RowInv, FiledInv, Blank
  <2>. QED
    BY <1>1, <2>1, <2>2
       DEF RowMoved, RowSame, RowNew, RowLive, RowGone, RowSilent, RowTried, RowTold
<1>2. ASSUME NEW i \in Chunks, Alive(i)'
      PROVE  file'[i] # NoFile
  <2>1. CASE Alive(i) /\ i \in 1..captured /\ \A w \in Sweepers : ~Merge(w)
    BY <1>0, <1>2, <2>1, FilesKept DEF FilesStay, Inv2, FiledInv
  <2>2. CASE Alive(i) /\ \E w \in Sweepers : Merge(w)
    <3>1. PICK w \in Sweepers : Merge(w)
      BY <2>2
    <3>2. file[i] # NoFile /\ FileTypes
      BY <1>0, <2>2 DEF Inv2, FiledInv, Inv1, Types
    <3>3. Job(w).chunk \in sweep[w].valid /\ sweep[w].audio # NoFile
      <4>1. /\ Job(w).chunk \in sweep[w].valid /\ sweep[w].audio = Joined(sweep[w].valid)
            /\ file[Job(w).chunk] # NoFile /\ sweep[w].valid \in SUBSET Chunks
        BY <1>0, <3>1, MergeGood, Before DEF Sound
      <4>2. Job(w).chunk \in file[Job(w).chunk].segs
        BY <1>0, <4>1 DEF Inv1, AudioInv
      <4>3. file[Job(w).chunk].segs \subseteq sweep[w].audio.segs
        BY <3>2, <4>1, JoinedHolds
      <4>. QED
        BY <4>1, <4>2, <4>3 DEF NoFile
    <3>. QED
      BY <1>0, <3>1, <3>2, <3>3, MergeGood DEF Steady, FileTypes
  <2>3. CASE RowNew(i)
    <3>1. i > captured
      BY <2>3 DEF RowNew
    <3>2. file[i] = NoFile /\ row[i] = "none" /\ captured' = i
      BY <2>3, <3>1 DEF RowNew, Inv2, Inv1, Blank
    <3>3. Capture
      <4>1. captured' # captured
        BY <3>1, <3>2, Constants DEF Inv2, Inv1, Types, TimeTypes
      <4>2. ASSUME NEW w \in Sweepers, BeginSweep(w) \/ Sweep(w)
            PROVE  UNCHANGED captured
        BY <4>2 DEF BeginSweep, Sweep, RetryPending, RetriesDone, QueryCandidates, LastBatch,
           ReadBatch, TranscribeFails, BatchSilent, Transcribed, Merge, SavePending, StoreText,
           StoreFails, RemovePending, DeleteSecondaries
      <4>. QED
        BY <4>1, <4>2 DEF Next, Ripen, GoStale, LiveInsert, DropCheck, DropDelete, RetranscribeRead,
           RetranscribeStore, Crash, vars
    <3>4. file' = [file EXCEPT ![i] = Only(i)]
      BY <3>2, <3>3 DEF Capture
    <3>. QED
      BY <3>4, Recorded DEF Inv2, Inv1, Types, FileTypes
  <2>. QED
    BY <1>0, <1>2, <2>1, <2>2, <2>3, AliveStep, AliveRecorded DEF Alive
<1>. QED
  BY <1>1, <1>2 DEF FiledInv

\* A text that covers some chunks, before and after a step.
LEMMA CoversKept ==
    ASSUME Inv1, StoreStep, FilesStay, NEW a, NEW S \in SUBSET Chunks, S \subseteq 1..captured,
           Covers(a, S)
    PROVE  Covers(a, S)'
<1>1. ASSUME NEW j \in S, Alive(j)'
      PROVE  file'[j].segs \cap Speech \subseteq a.segs
  BY <1>1, AliveBefore DEF FilesStay, Covers
<1>. QED
  BY <1>1 DEF Covers

\* A pending file that is still to be stored, and is left alone.
LEMMA DueKept ==
    ASSUME Inv2, StoreStep, FilesStay, NEW i \in Chunks, pend'[i] = pend[i], Due(i)'
    PROVE  Due(i) /\ Told(i)' /\ \A w \in Sweepers : Active(w) => Handled(i, w)
<1>1. pend[i].state = "saved" /\ Alive(i)' /\ pend[i] # NoPend
  BY Recorded DEF Due
<1>2. i \in 1..captured
  <2>1. ~(i > captured)
    BY <1>1 DEF Inv2, Inv1, Blank
  <2>. QED
    BY <2>1, Constants DEF Inv2, Inv1, Types, TimeTypes
<1>3. Due(i)
  BY <1>1, <1>2, AliveBefore DEF Due, Inv2
<1>4. Told(i) /\ \A w \in Sweepers : Active(w) => Handled(i, w)
  BY <1>3 DEF Inv2, PendInv
<1>5. pend[i].secs \in SUBSET Chunks /\ pend[i].secs \subseteq 1..captured
  BY DEF Inv2, Inv1, Blank, Types, PendTypes, Pendings
<1>6. Covers(pend[i].heard, pend[i].secs)'
  <2>1. Covers(pend[i].heard, pend[i].secs)
    BY <1>4 DEF Told
  <2>2. \A a : Covers(a, pend[i].secs) => \A j \in pend[i].secs : Alive(j)' => file'[j].segs \cap Speech \subseteq a.segs
    BY <1>5, AliveBefore DEF FilesStay, Covers, Inv2
  <2>. QED
    BY <2>1, <2>2 DEF Covers
<1>7. Told(i)'
  BY <1>1, <1>2, <1>4, <1>6 DEF Told, Same, FilesStay
<1>. QED
  BY <1>3, <1>4, <1>7

\* Between the retries and the end of a merge nothing is due.
LEMMA NoneDue ==
    ASSUME Inv2, NEW w \in Sweepers, sweep[w].pc \in {"query", "batch", "stt", "merge"}
    PROVE  \A i \in Chunks : ~Due(i)
  BY DEF Inv2, PendInv, Handled, JobInv, Active, Jobbing

LEMMA NoneBecomesDue ==
    ASSUME Inv2, StoreStep, NEW w \in Sweepers, sweep[w].pc \in {"query", "batch", "stt", "merge"},
           UNCHANGED pend
    PROVE  PendInv'
<1>1. ASSUME NEW i \in Chunks, Due(i)'
      PROVE  FALSE
  <2>1. pend[i].state = "saved" /\ Alive(i)' /\ pend[i] # NoPend
    BY <1>1, Recorded DEF Due
  <2>2. i \in 1..captured
    <3>1. ~(i > captured)
      BY <2>1 DEF Inv2, Inv1, Blank
    <3>. QED
      BY <3>1, Constants DEF Inv2, Inv1, Types, TimeTypes
  <2>. QED
    BY <2>1, <2>2, AliveBefore, NoneDue DEF Due, Inv2
<1>. QED
  BY <1>1 DEF PendInv

\* The job of the sweep of w alone is at stake in a step of w.
LEMMA OneJob ==
    ASSUME Inv2, NEW w \in Sweepers, Active(w) \/ ~running, Others(w)
    PROVE  /\ \A v \in Sweepers \ {w} : ~Active(v) /\ sweep'[v] = sweep[v] /\ JobInv(v)'
           /\ JobInv(w)' => \A v \in Sweepers : JobInv(v)'
           /\ sweep'[w].pc \in {"idle", "retry", "query", "batch", "stt"} => \A v \in Sweepers : JobInv(v)'
<1>1. \A v \in Sweepers \ {w} : sweep[v].pc = "idle" /\ sweep'[v] = sweep[v]
  BY OneSweeps DEF Inv2, Inv1
<1>2. \A v \in Sweepers : sweep'[v].pc \in {"idle", "retry", "query", "batch", "stt"} => JobInv(v)'
  BY DEF JobInv, Jobbing
<1>. QED
  BY <1>1, <1>2 DEF Active

Jobs2 == PendInv' /\ \A w \in Sweepers : JobInv(w)'

\* The steps around the sweeps change no text of a transcribed chunk but for adding to it.
LEMMA AroundJobs ==
    ASSUME Steady, Inv2, StoreStep, FilesStay, UNCHANGED <<sweep, pend>>,
           \A i \in Chunks : row[i] = "transcribed" => RowSame(i) \/ RowLive(i)
    PROVE  Jobs2
<1>1. PendInv'
  <2>1. ASSUME NEW i \in Chunks, Due(i)'
        PROVE  Told(i)' /\ \A w \in Sweepers : Active(w)' => Handled(i, w)'
    BY <2>1, DueKept DEF Active, Handled, Job
  <2>. QED
    BY <2>1 DEF PendInv
<1>2. ASSUME NEW w \in Sweepers
      PROVE  JobInv(w)'
  <2>0. Inv1 /\ JobInv(w) /\ Job(w)' = Job(w) /\ sweep'[w] = sweep[w]
    BY DEF Inv2, Job
  <2>1. CASE sweep[w].pc \in Jobbing
    <3>1. PICK p \in Chunks, t \in Texts, S \in SUBSET Chunks :
             /\ p = Job(w).chunk /\ t = Job(w).heard /\ S = Job(w).secs
             /\ p \in 1..captured /\ S \subseteq 1..captured
      BY <2>0, <2>1, JobKnown
    <3>2. p = Job(w)'.chunk /\ t = Job(w)'.heard /\ S = Job(w)'.secs
      BY <2>0, <3>1
    <3>3. Covers(t, S) => Covers(t, S)'
      BY <2>0, <3>1, CoversKept
    <3>4. Same(t, p) /\ Alive(p)' => Same(t, p)'
      BY <3>1 DEF FilesStay, Same
    <3>5. Alive(p)' => Alive(p)
      BY <2>0, <3>1, AliveBefore
    <3>6. row[p] = "transcribed" /\ Alive(p) /\ t.segs \subseteq Said(p)
             => (row[p] = "transcribed" /\ Alive(p) /\ t.segs \subseteq Said(p))'
      <4>1. ASSUME row[p] = "transcribed", Alive(p), t.segs \subseteq Said(p)
            PROVE  (row[p] = "transcribed" /\ Alive(p) /\ t.segs \subseteq Said(p))'
        <5>1. RowSame(p) \/ RowLive(p)
          BY <4>1
        <5>2. row'[p] = "transcribed" /\ text[p] \subseteq text'[p]
          BY <4>1, <5>1 DEF RowSame, RowLive
        <5>3. p \notin renewed'
          BY <4>1 DEF StoreStep, Alive
        <5>. QED
          BY <4>1, <5>2, <5>3 DEF Alive, Said
      <4>. QED
        BY <4>1
    <3>. QED
      BY <2>0, <3>1, <3>2, <3>3, <3>4, <3>5, <3>6 DEF JobInv, Covers, Same, Said, Alive, Jobbing
  <2>2. CASE sweep[w].pc \notin Jobbing
    BY <2>0, <2>2 DEF JobInv, Jobbing
  <2>. QED
    BY <2>1, <2>2
<1>. QED
  BY <1>1, <1>2 DEF Jobs2

\* A step of w after which it has no job.
LEMMA JoblessJobs ==
    ASSUME Inv2, NEW w \in Sweepers, Active(w) \/ ~running, Others(w), PendInv',
           sweep'[w].pc \in {"idle", "retry", "query", "batch", "stt"}
    PROVE  Jobs2
  BY OneJob DEF Jobs2

LEMMA BeginSweepJobs ==
    ASSUME Steady, Inv2, StoreStep, FilesStay, NEW w \in Sweepers, BeginSweep(w)
    PROVE  Jobs2
<1>1. /\ Others(w) /\ ~running /\ UNCHANGED pend /\ sweep[w] \in Sweeps
      /\ sweep'[w] = [sweep[w] EXCEPT !.pc = "retry",
                              !.retries = {i \in Chunks : pend[i].state # "none"}]
  BY BeginSweepGood, Before DEF Inv2, BeginSweep, store
<1>2. sweep'[w].pc = "retry" /\ sweep'[w].retries = {i \in Chunks : pend[i].state # "none"}
  BY <1>1 DEF Sweeps
<1>3. PendInv'
  <2>1. ASSUME NEW i \in Chunks, Due(i)'
        PROVE  Told(i)' /\ \A v \in Sweepers : Active(v)' => Handled(i, v)'
    <3>1. Told(i)' /\ i \in sweep'[w].retries
      BY <1>1, <1>2, <2>1, DueKept DEF Due
    <3>2. \A v \in Sweepers \ {w} : ~Active(v)'
      BY <1>1, OneJob DEF Active
    <3>. QED
      BY <1>2, <3>1, <3>2 DEF Handled
  <2>. QED
    BY <2>1 DEF PendInv
<1>. QED
  BY <1>1, <1>2, <1>3, JoblessJobs

\* Steps of w that leave alone, or remove, what it does not handle.
LEMMA HandledOn ==
    ASSUME Inv2, StoreStep, FilesStay, NEW w \in Sweepers, Active(w), Others(w),
           \A i \in Chunks : Due(i)' => pend'[i] = pend[i],
           \A i \in Chunks : Due(i)' /\ Handled(i, w) => Handled(i, w)'
    PROVE  PendInv'
<1>1. ASSUME NEW i \in Chunks, Due(i)'
      PROVE  Told(i)' /\ \A v \in Sweepers : Active(v)' => Handled(i, v)'
  <2>1. Told(i)' /\ Handled(i, w)
    BY <1>1, DueKept
  <2>2. \A v \in Sweepers \ {w} : ~Active(v)'
    BY OneJob DEF Active
  <2>. QED
    BY <1>1, <2>1, <2>2
<1>. QED
  BY <1>1 DEF PendInv

LEMMA RetryPendingJobs ==
    ASSUME Steady, Inv2, StoreStep, FilesStay, NEW w \in Sweepers, RetryPending(w)
    PROVE  Jobs2
<1>0. Inv1 /\ Others(w) /\ sweep[w].pc = "retry" /\ Active(w) /\ sweep[w] \in Sweeps
      /\ UNCHANGED <<captured, time, file, row, attempts, text, renewed, inflight, running, retrans, dropping, owed>>
  BY RetryPendingGood, Before DEF Inv2, Active
<1>1. PICK k \in sweep[w].retries : RetryDropped(w, k) \/ RetryTaken(w, k)
  BY <1>0, RetryPendingGood
<1>2. k \in Chunks
  BY <1>0, <1>1, Before
<1>3. CASE RetryDropped(w, k)
  <2>1. sweep'[w].pc = "retry" /\ sweep'[w].retries = sweep[w].retries \ {k}
    BY <1>0, <1>3 DEF RetryDropped, Sweeps
  <2>2. pend'[k] = NoPend /\ \A i \in Chunks \ {k} : pend'[i] = pend[i]
    BY <1>2, <1>3 DEF RetryDropped, Inv2, Inv1, Types, PendTypes
  <2>3. ~Due(k)'
    BY <2>2, Recorded DEF Due
  <2>4. PendInv'
    BY <1>0, <2>1, <2>2, <2>3, HandledOn DEF Handled, Jobbing
  <2>. QED
    BY <1>0, <2>1, <2>4, JoblessJobs
<1>4. CASE RetryTaken(w, k)
  <2>1. /\ sweep'[w].pc = "store" /\ sweep'[w].retries = sweep[w].retries \ {k} /\ sweep'[w].retrying
        /\ Job(w)'.chunk = k /\ Job(w)'.heard = pend[k].heard /\ Job(w)'.secs = pend[k].secs
    BY <1>0, <1>4 DEF RetryTaken, Sweeps, Job
  <2>2. pend[k].state = "saved" /\ Alive(k) /\ UNCHANGED pend /\ Due(k)
    BY <1>4 DEF RetryTaken, Due
  <2>3. PendInv'
    BY <1>0, <2>1, <2>2, HandledOn DEF Handled, Jobbing
  <2>4. Told(k)
    BY <1>2, <2>2 DEF Inv2, PendInv
  <2>5. JobInv(w)'
    <3>1. Same(pend[k].heard, k)' /\ Covers(pend[k].heard, pend[k].secs)' /\ k \notin pend[k].secs
      BY <1>0, <2>2, <2>4 DEF Told, Same, Covers, Alive
    <3>. QED
      BY <2>1, <2>2, <3>1 DEF JobInv, Same, Covers, Alive
  <2>. QED
    BY <1>0, <2>3, <2>5, OneJob DEF Jobs2
<1>. QED
  BY <1>1, <1>3, <1>4

LEMMA JoblessStepsJobs ==
    ASSUME Steady, Inv2, StoreStep, FilesStay, NEW w \in Sweepers,
           RetriesDone(w) \/ QueryCandidates(w) \/ LastBatch(w) \/ ReadBatch(w)
             \/ TranscribeFails(w) \/ BatchSilent(w)
    PROVE  Jobs2
<1>0. Inv1
  BY DEF Inv2
<1>1. Others(w) /\ UNCHANGED pend /\ Active(w) /\ sweep[w] \in Sweeps
  BY <1>0, RetriesDoneGood, QueryGood, LastBatchGood, ReadBatchGood, TranscribeFailsGood,
     BatchSilentGood, Before DEF Active, store
<1>2. CASE RetriesDone(w)
  <2>1. /\ sweep[w].pc = "retry" /\ sweep[w].retries = {}
        /\ sweep'[w].pc = "query"
    BY <1>0, <1>1, <1>2, RetriesDoneGood DEF Sweeps
  <2>2. PendInv'
    BY <1>1, <2>1, HandledOn DEF Handled, Jobbing
  <2>. QED
    BY <1>1, <2>1, <2>2, JoblessJobs
<1>3. CASE ~RetriesDone(w)
  <2>1. sweep[w].pc \in {"query", "batch", "stt"}
    BY <1>0, <1>3, QueryGood, LastBatchGood, ReadBatchGood, TranscribeFailsGood, BatchSilentGood
  <2>2. sweep'[w].pc \in {"idle", "batch", "stt"}
    <3>1. CASE QueryCandidates(w) \/ LastBatch(w)
      BY <1>0, <1>1, <3>1, QueryGood, LastBatchGood, Recorded DEF Sweeps
    <3>2. CASE ReadBatch(w)
      <4>1. PICK V : BatchRead(w, NextBatch(sweep[w].todo), V)
        BY <1>0, <3>2, ReadBatchGood
      <4>. QED
        BY <1>1, <4>1 DEF BatchRead, Sweeps
    <3>3. CASE TranscribeFails(w)
      BY <1>0, <1>1, <3>3, TranscribeFailsGood DEF Sweeps
    <3>4. CASE BatchSilent(w)
      BY <1>0, <1>1, <3>4, BatchSilentGood DEF Sweeps
    <3>. QED
      BY <1>3, <3>1, <3>2, <3>3, <3>4
  <2>3. PendInv'
    BY <1>1, <2>1, NoneBecomesDue
  <2>. QED
    BY <1>1, <2>2, <2>3, JoblessJobs
<1>. QED
  BY <1>2, <1>3

LEMMA TranscribedJobs ==
    ASSUME Steady, Inv2, StoreStep, NEW w \in Sweepers, Transcribed(w)
    PROVE  Jobs2
<1>0. /\ Inv1 /\ Others(w) /\ sweep[w].pc = "stt" /\ Active(w) /\ sweep[w] \in Sweeps
      /\ UNCHANGED <<pend, row, file, renewed>>
      /\ sweep[w].audio = Joined(sweep[w].valid) /\ sweep[w].valid \in SUBSET Chunks
  BY TranscribedGood, Before DEF Inv2, Active, store, Sound
<1>1. PICK p \in sweep[w].valid : LET rest == sweep[w].valid \ {p} IN
         sweep'[w] = [sweep[w] EXCEPT !.pc = IF rest # {} THEN "merge" ELSE "save",
            !.retrying = FALSE,
            !.job = [chunk |-> p, heard |-> Heard(sweep[w].audio), secs |-> rest]]
  BY <1>0, TranscribedGood
<1>2. PICK t \in Texts, S \in SUBSET Chunks : t = Heard(sweep[w].audio) /\ S = sweep[w].valid \ {p}
  BY <1>0, Recorded, Before
<1>3. /\ sweep'[w].pc = (IF S # {} THEN "merge" ELSE "save") /\ ~sweep'[w].retrying
      /\ Job(w)'.chunk = p /\ Job(w)'.heard = t /\ Job(w)'.secs = S
  BY <1>0, <1>1, <1>2 DEF Sweeps, Job
<1>4. S = {} => Same(t, p)' /\ Covers(t, S)'
  <2>1. ASSUME S = {}
        PROVE  t.segs = file[p].segs \cap Speech
    <3>1. sweep[w].valid = {p}
      BY <1>2, <2>1
    <3>2. sweep[w].audio.segs = file[p].segs
      <4>1. sweep[w].audio.segs = UNION {file[i].segs : i \in {p}}
        BY <1>0, <3>1, JoinedHolds, Before
      <4>. QED
        BY <4>1
    <3>. QED
      BY <1>0, <1>2, <3>2, Recorded, Before
  <2>. QED
    BY <1>0, <2>1 DEF Same, Covers
<1>5. JobInv(w)'
  BY <1>2, <1>3, <1>4 DEF JobInv, Same, Covers, Alive, Jobbing
<1>6. PendInv'
  BY <1>0, NoneBecomesDue
<1>. QED
  BY <1>0, <1>5, <1>6, OneJob DEF Jobs2

LEMMA MergeJobs ==
    ASSUME Steady, Inv2, StoreStep, NEW w \in Sweepers, Merge(w)
    PROVE  Jobs2
<1>0. /\ Inv1 /\ Others(w) /\ sweep[w].pc = "merge" /\ Active(w) /\ sweep[w] \in Sweeps
      /\ UNCHANGED <<pend, row, renewed>> /\ sweep[w].valid \in SUBSET Chunks
      /\ \/ /\ file' = [file EXCEPT ![Job(w).chunk] = sweep[w].audio]
            /\ sweep'[w] = [sweep[w] EXCEPT !.pc = "save"]
         \/ sweep'[w] = [sweep[w] EXCEPT !.pc = "batch"]
  BY MergeGood, Before DEF Inv2, Active
<1>1. PendInv'
  BY <1>0, NoneBecomesDue
<1>2. CASE sweep'[w] = [sweep[w] EXCEPT !.pc = "batch"]
  <2>1. sweep'[w].pc = "batch"
    BY <1>0, <1>2 DEF Sweeps
  <2>. QED
    BY <1>0, <1>1, <2>1, JoblessJobs
<1>3. CASE /\ file' = [file EXCEPT ![Job(w).chunk] = sweep[w].audio]
           /\ sweep'[w] = [sweep[w] EXCEPT !.pc = "save"]
  <2>1. PICK p \in Chunks, t \in Texts, S \in SUBSET Chunks :
           /\ p = Job(w).chunk /\ t = Job(w).heard /\ S = Job(w).secs
           /\ p \in sweep[w].valid /\ t = Heard(sweep[w].audio) /\ S = sweep[w].valid \ {p}
           /\ sweep[w].audio = Joined(sweep[w].valid)
    BY <1>0, JobKnown, Before DEF Sound, Jobbing
  <2>2. /\ sweep'[w].pc = "save" /\ ~sweep'[w].retrying
        /\ Job(w)'.chunk = p /\ Job(w)'.heard = t /\ Job(w)'.secs = S
    BY <1>0, <1>3, <2>1 DEF Sweeps, Job, Inv2, JobInv
  <2>3. file'[p] = sweep[w].audio /\ \A j \in S : file'[j] = file[j]
    BY <1>3, <2>1 DEF Inv2, Inv1, Types, FileTypes
  <2>4. t.segs = sweep[w].audio.segs \cap Speech
    BY <1>0, <2>1, Recorded, Before
  <2>5. \A j \in S : file[j].segs \subseteq sweep[w].audio.segs
    BY <1>0, <2>1, JoinedHolds, Before
  <2>6. Same(t, p)' /\ Covers(t, S)'
    BY <2>3, <2>4, <2>5 DEF Same, Covers
  <2>7. JobInv(w)'
    BY <2>1, <2>2, <2>6 DEF JobInv, Same, Covers, Alive, Jobbing
  <2>. QED
    BY <1>0, <1>1, <2>7, OneJob DEF Jobs2
<1>. QED
  BY <1>0, <1>2, <1>3

LEMMA SavePendingJobs ==
    ASSUME Steady, Inv2, StoreStep, FilesStay, NEW w \in Sweepers, SavePending(w)
    PROVE  Jobs2
<1>0. /\ Inv1 /\ Others(w) /\ sweep[w].pc = "save" /\ Active(w) /\ sweep[w] \in Sweeps
      /\ UNCHANGED <<file, row, renewed>> /\ sweep'[w] = [sweep[w] EXCEPT !.pc = "store"]
  BY SavePendingGood, Before DEF Inv2, Active
<1>1. PICK p \in Chunks, t \in Texts, S \in SUBSET Chunks :
         p = Job(w).chunk /\ t = Job(w).heard /\ S = Job(w).secs
  BY <1>0, JobKnown DEF Jobbing
<1>2. PICK q \in {pend[p], Torn, [state |-> "saved", heard |-> t, secs |-> S]} :
         pend' = [pend EXCEPT ![p] = q]
  BY <1>0, <1>1, SavePendingGood
<1>3. /\ sweep'[w].pc = "store" /\ Job(w)'.chunk = p /\ Job(w)'.heard = t /\ Job(w)'.secs = S
  BY <1>0, <1>1 DEF Sweeps, Job
<1>4. p \notin S /\ (Alive(p) => Same(t, p)) /\ Covers(t, S) /\ ~sweep[w].retrying
  BY <1>0, <1>1 DEF Inv2, JobInv, Jobbing
<1>5. p \notin S /\ (Alive(p) => Same(t, p))' /\ Covers(t, S)'
  BY <1>0, <1>4 DEF Same, Covers, Alive
<1>6. JobInv(w)'
  BY <1>3, <1>5 DEF JobInv, Same, Covers, Alive, Jobbing
<1>7. pend'[p] = q /\ \A i \in Chunks \ {p} : pend'[i] = pend[i]
  BY <1>2 DEF Inv2, Inv1, Types, PendTypes
<1>8. PendInv'
  <2>1. ASSUME NEW i \in Chunks, Due(i)'
        PROVE  Told(i)' /\ \A v \in Sweepers : Active(v)' => Handled(i, v)'
    <3>1. CASE i # p
      <4>1. Handled(i, w)
        BY <1>0, <1>7, <2>1, <3>1, DueKept
      <4>. QED
        BY <1>0, <1>1, <1>4, <3>1, <4>1 DEF Handled
    <3>2. CASE i = p
      <4>1. \A v \in Sweepers : Active(v)' => Handled(p, v)'
        <5>1. \A v \in Sweepers \ {w} : ~Active(v)'
          BY <1>0, OneJob DEF Active
        <5>. QED
          BY <1>3, <5>1 DEF Handled
      <4>2. CASE q = pend[p]
        BY <1>7, <2>1, <3>2, <4>1, <4>2, DueKept
      <4>3. CASE q = Torn
        BY <1>7, <2>1, <3>2, <4>3, Recorded DEF Due
      <4>4. CASE q = [state |-> "saved", heard |-> t, secs |-> S]
        <5>1. pend'[p].heard = t /\ pend'[p].secs = S
          BY <1>7, <4>4
        <5>2. Alive(p)'
          BY <2>1, <3>2 DEF Due
        <5>3. Told(p)'
          BY <1>5, <5>1, <5>2 DEF Told, Same, Covers, Alive
        <5>. QED
          BY <3>2, <4>1, <5>3
      <4>. QED
        BY <4>2, <4>3, <4>4
    <3>. QED
      BY <3>1, <3>2
  <2>. QED
    BY <2>1 DEF PendInv
<1>. QED
  BY <1>0, <1>6, <1>8, OneJob DEF Jobs2

LEMMA StoreTextJobs ==
    ASSUME Steady, Inv2, StoreStep, FilesStay, NEW w \in Sweepers, StoreText(w)
    PROVE  Jobs2
<1>0. /\ Inv1 /\ Others(w) /\ sweep[w].pc = "store" /\ Active(w) /\ sweep[w] \in Sweeps
      /\ UNCHANGED <<file, renewed, pend>> /\ sweep'[w] = [sweep[w] EXCEPT !.pc = "unpend"]
      /\ RowTold(Job(w).chunk, Job(w).heard)
  BY StoreTextGood, Before DEF Inv2, Active
<1>1. PICK p \in Chunks, t \in Texts, S \in SUBSET Chunks :
         p = Job(w).chunk /\ t = Job(w).heard /\ S = Job(w).secs /\ S \subseteq 1..captured
  BY <1>0, JobKnown DEF Jobbing
<1>2. /\ sweep'[w].pc = "unpend" /\ sweep'[w].retries = sweep[w].retries
      /\ sweep'[w].retrying = sweep[w].retrying
      /\ Job(w)'.chunk = p /\ Job(w)'.heard = t /\ Job(w)'.secs = S
  BY <1>0, <1>1 DEF Sweeps, Job
<1>3. p \notin S /\ Covers(t, S)
  BY <1>0, <1>1 DEF Inv2, JobInv, Jobbing
<1>4. Covers(t, S)'
  BY <1>0, <1>1, <1>3, CoversKept
<1>5. row'[p] = "transcribed" /\ Alive(p)' /\ Said(p)' = t.segs
  BY <1>0, <1>1 DEF RowTold, Alive, Said
<1>6. JobInv(w)'
  BY <1>2, <1>3, <1>4, <1>5 DEF JobInv, Same, Covers, Alive, Said, Jobbing
<1>7. PendInv'
  BY <1>0, <1>1, <1>2, HandledOn DEF Handled, Jobbing
<1>. QED
  BY <1>0, <1>6, <1>7, OneJob DEF Jobs2

LEMMA RemovePendingJobs ==
    ASSUME Steady, Inv2, StoreStep, FilesStay, NEW w \in Sweepers, RemovePending(w)
    PROVE  Jobs2
<1>0. /\ Inv1 /\ Others(w) /\ sweep[w].pc = "unpend" /\ Active(w) /\ sweep[w] \in Sweeps
      /\ UNCHANGED <<file, row, text, renewed>> /\ sweep'[w] = [sweep[w] EXCEPT !.pc = "clean"]
      /\ pend' = [pend EXCEPT ![Job(w).chunk] = NoPend]
  BY RemovePendingGood, Before DEF Inv2, Active
<1>1. PICK p \in Chunks, t \in Texts, S \in SUBSET Chunks :
         p = Job(w).chunk /\ t = Job(w).heard /\ S = Job(w).secs
  BY <1>0, JobKnown DEF Jobbing
<1>2. /\ sweep'[w].pc = "clean" /\ sweep'[w].retries = sweep[w].retries
      /\ sweep'[w].retrying = sweep[w].retrying
      /\ Job(w)'.chunk = p /\ Job(w)'.heard = t /\ Job(w)'.secs = S
  BY <1>0, <1>1 DEF Sweeps, Job
<1>3. /\ p \notin S /\ Covers(t, S) /\ row[p] = "transcribed" /\ Alive(p) /\ t.segs \subseteq Said(p)
  BY <1>0, <1>1 DEF Inv2, JobInv, Jobbing
<1>4. Covers(t, S)' /\ (row[p] = "transcribed" /\ Alive(p) /\ t.segs \subseteq Said(p))'
  BY <1>0, <1>3 DEF Covers, Alive, Said
<1>5. JobInv(w)'
  BY <1>2, <1>3, <1>4 DEF JobInv, Same, Covers, Alive, Said, Jobbing
<1>6. pend'[p] = NoPend /\ \A i \in Chunks \ {p} : pend'[i] = pend[i]
  BY <1>0, <1>1 DEF Inv2, Inv1, Types, PendTypes
<1>7. ~Due(p)'
  BY <1>6, Recorded DEF Due
<1>8. PendInv'
  BY <1>0, <1>1, <1>2, <1>6, <1>7, HandledOn DEF Handled, Jobbing
<1>. QED
  BY <1>0, <1>5, <1>8, OneJob DEF Jobs2

LEMMA FinalJobs ==
    ASSUME Steady, Inv2, StoreStep, FilesStay, NEW w \in Sweepers, StoreFails(w) \/ DeleteSecondaries(w)
    PROVE  Jobs2
<1>0. Inv1
  BY DEF Inv2
<1>1. /\ Others(w) /\ Active(w) /\ sweep[w] \in Sweeps /\ UNCHANGED pend
      /\ sweep[w].pc = "clean" \/ (sweep[w].pc = "store" /\ ~Alive(Job(w).chunk))
      /\ \E n : sweep'[w] = Finalized(sweep[w], n)
  BY <1>0, StoreFailsGood, DeleteGood, Before DEF Active, Steady, store
<1>2. /\ sweep[w].retrying => sweep'[w].pc = "retry" /\ sweep'[w].retries = sweep[w].retries
      /\ sweep'[w].pc \in {"retry", "batch"}
  BY <1>1 DEF Finalized, Sweeps
<1>3. \A i \in Chunks : Due(i)' => Due(i)
  BY <1>1, DueKept
<1>4. PendInv'
  BY <1>1, <1>2, <1>3, HandledOn DEF Handled, Jobbing, Due
<1>. QED
  BY <1>1, <1>2, <1>4, JoblessJobs

LEMMA CrashJobs ==
    ASSUME Steady, Inv2, StoreStep, FilesStay, Crash
    PROVE  Jobs2
<1>1. PICK cut \in SUBSET {sweep[w].job.chunk : w \in {v \in Sweepers : At(v, "save")}} :
          pend' = [i \in Chunks |-> IF i \in cut THEN Torn ELSE pend[i]]
  BY DEF Crash
<1>2. \A w \in Sweepers : sweep'[w].pc = "idle"
  BY Recorded DEF Crash
<1>3. ASSUME NEW i \in Chunks, Due(i)'
      PROVE  Told(i)'
  <2>1. pend'[i] = pend[i]
    BY <1>1, <1>3, Recorded DEF Due
  <2>. QED
    BY <1>3, <2>1, DueKept
<1>. QED
  BY <1>2, <1>3 DEF Jobs2, PendInv, JobInv, Active, Jobbing

LEMMA StepJobs ==
    ASSUME Steady, Inv2, [Next]_vars
    PROVE  Jobs2
<1>0. Inv1 /\ StoreStep
  BY Step1 DEF Inv2, Good1
<1>1. CASE \E w \in Sweepers : Merge(w)
  BY <1>0, <1>1, MergeJobs
<1>2. CASE \A w \in Sweepers : ~Merge(w)
  <2>0. FilesStay
    BY <1>0, <1>2, FilesKept
  <2>1. ASSUME UNCHANGED <<sweep, pend>>,
               \A i \in Chunks : row[i] = "transcribed" => RowSame(i) \/ RowLive(i)
        PROVE  Jobs2
    BY <1>0, <2>0, <2>1, AroundJobs
  <2>2. CASE Ripen \/ GoStale \/ UNCHANGED vars
    BY <2>1, <2>2 DEF Ripen, GoStale, vars, store, RowSame
  <2>3. CASE Capture
    <3>1. \A i \in Chunks : row[i] = "transcribed" => i # captured + 1
      <4>1. captured \in Nat
        BY DEF Inv2, Inv1, Types, TimeTypes
      <4>. QED
        BY <4>1, Constants DEF Inv2, Inv1, Blank
    <3>2. \A i \in Chunks : row[i] = "transcribed" => RowSame(i)
      BY <2>3, <3>1 DEF Capture, RowSame, Inv2, Inv1, Types, RowTypes
    <3>. QED
      BY <2>1, <2>3, <3>2 DEF Capture
  <2>4. ASSUME NEW k \in Chunks, LiveInsert(k)
        PROVE  Jobs2
    <3>1. \A i \in Chunks : RowSame(i) \/ RowLive(i)
      <4>1. /\ row' = [row EXCEPT ![k] = "transcribed"]
            /\ text' = [text EXCEPT ![k] = @ \cup {Only(k)}]
            /\ attempts' = [attempts EXCEPT ![k] = OneMore(@)]
            /\ renewed' = IF row[k] = "none" THEN renewed \cup {k} ELSE renewed
            /\ k \in inflight
        BY <2>4 DEF LiveInsert, Hit, Steady
      <4>2. row \in [Chunks -> Rows] /\ text \in [Chunks -> SUBSET Texts] /\ attempts \in [Chunks -> 0..MaxAttempts]
        BY DEF Inv2, Inv1, Types, RowTypes
      <4>. QED
        BY <4>1, <4>2 DEF RowSame, RowLive
    <3>. QED
      BY <2>1, <2>4, <3>1 DEF LiveInsert
  <2>6. ~RetranscribeStore /\ ~DropDelete /\ \A k \in Chunks : ~RetranscribeRead(k) /\ ~DropCheck(k)
    BY DEF Steady, Inv2, RetranscribeStore, RetranscribeRead, DropCheck, DropDelete
  <2>7. ASSUME NEW w \in Sweepers, BeginSweep(w) \/ Sweep(w)
        PROVE  Jobs2
    BY <1>0, <1>2, <2>0, <2>7, BeginSweepJobs, RetryPendingJobs, JoblessStepsJobs, TranscribedJobs,
       SavePendingJobs, StoreTextJobs, RemovePendingJobs, FinalJobs DEF Sweep
  <2>. QED
    BY <1>0, <2>0, <2>2, <2>3, <2>4, <2>6, <2>7, CrashJobs DEF Next
<1>. QED
  BY <1>1, <1>2

LEMMA Step2 ==
    ASSUME Steady, Inv2, [Next]_vars
    PROVE  Inv2' /\ StaysTold
<1>1. Inv1'
  BY Step1 DEF Inv2
<1>2. retrans' = NoRetrans /\ dropping' = NoDrop
  <2>1. retrans = NoRetrans /\ dropping = NoDrop
    BY DEF Inv2
  <2>2. ASSUME NEW w \in Sweepers, Sweep(w)
        PROVE  UNCHANGED <<retrans, dropping>>
    BY <2>2 DEF Sweep, RetryPending, RetriesDone, QueryCandidates, LastBatch, ReadBatch,
       TranscribeFails, BatchSilent, Transcribed, Merge, SavePending, StoreText, StoreFails,
       RemovePending, DeleteSecondaries
  <2>. QED
    BY <2>1, <2>2 DEF Steady, Next, vars, Capture, Ripen, GoStale, LiveInsert, DropCheck, DropDelete,
       RetranscribeRead, RetranscribeStore, Crash, BeginSweep
<1>3. Tells2 /\ FiledInv' /\ Jobs2
  BY StepTells, StepFiled, StepJobs
<1>. QED
  BY <1>1, <1>2, <1>3 DEF Tells2, Jobs2, Inv2

LEMMA Start2 ==
    ASSUME Init
    PROVE  Inv2
<1>1. Inv1
  BY Start1
<1>2. retrans = NoRetrans /\ dropping = NoDrop /\ OwedInv /\ FiledInv /\ PendInv
  BY Recorded DEF Init, OwedInv, FiledInv, PendInv, Due, Alive
<1>3. \A w \in Sweepers : JobInv(w)
  BY Recorded DEF Init, JobInv, Jobbing
<1>. QED
  BY <1>1, <1>2, <1>3 DEF Inv2

\* The process may die at any step, the engine and the writes to disk may fail and live
\* transcription may be late: speech that was registered is told by some chunk, or its own
\* chunk still waits with its file (nobody drops a chunk: RC_drop.cfg).
THEOREM OwedKept ==
    ASSUME Steady
    PROVE  Spec => []Inv2
<1>1. Inv2 /\ [Next]_vars => Inv2'
  BY Step2
<1>. QED
  BY <1>1, Start2, PTL DEF Spec

\* Nothing registered is lost, whatever step between the merge of a batch and the deletion of
\* its other chunks the process dies at.
THEOREM NothingOwedLost ==
    ASSUME Steady
    PROVE  Spec => []NoLoss
<1>1. Inv2 => NoLoss
  <2>1. ASSUME Inv2, NEW s \in owed
        PROVE  Spoken(s) \/ WaitsIn(s) # {}
    <3>1. WaitsAlone(s) => s \in WaitsIn(s)
      BY <2>1, OwedKnown DEF WaitsAlone, WaitsIn
    <3>. QED
      BY <2>1, <3>1 DEF Inv2, OwedInv
  <2>. QED
    BY <2>1 DEF NoLoss
<1>. QED
  BY <1>1, OwedKept, PTL

\* A text that is replaced, or whose chunk is deleted with its batch, is told by the text
\* that remains.
THEOREM ToldForGood ==
    ASSUME Steady
    PROVE  Spec => [][StaysTold]_vars
<1>1. Inv2 /\ [Next]_vars => [StaysTold]_vars
  BY Step2
<1>. QED
  BY <1>1, OwedKept, PTL DEF Spec

-----------------------------------------------------------------------------
(* Under the same conditions reconciliation implements the ledger of        *)
(* speech.                                                                  *)

\* The stages of a piece of speech, before and after a step.
Goes(s, to) == Stage'[s] = to
Keeps(s)    == Stage'[s] = Stage[s]

LEMMA StageNow ==
    ASSUME Inv2, NEW s \in Speech
    PROVE  Stage[s] = IF s \notin owed THEN "unheard" ELSE IF Spoken(s) THEN "told" ELSE "waiting"
<1>1. s \in Chunks /\ OwedInv
  BY Constants DEF Inv2
<1>2. WaitsAlone(s) => WaitsIn(s) # {}
  BY <1>1 DEF WaitsAlone, WaitsIn
<1>. QED
  BY <1>1, <1>2 DEF Stage, OwedInv

LEMMA StageNext ==
    ASSUME Inv2', NEW s \in Speech
    PROVE  Stage'[s] = IF s \notin owed' THEN "unheard" ELSE IF Spoken(s)' THEN "told" ELSE "waiting"
<1>1. s \in Chunks /\ OwedInv'
  BY Constants DEF Inv2
<1>2. WaitsAlone(s)' => WaitsIn(s)' # {}
  BY <1>1 DEF WaitsAlone, WaitsIn
<1>. QED
  BY <1>1, <1>2 DEF Stage, OwedInv

\* A step that moves the speech of S to one stage and no other.
LEMMA AllMoved ==
    ASSUME NEW S, NEW to, \A s \in Speech : IF s \in S THEN Goes(s, to) ELSE Keeps(s)
    PROVE  Ledger!Move(S, to)
  BY DEF Goes, Keeps, Ledger!Move, Stage

\* As long as nothing is dropped and what is new in the books is told, a step tells.
LEMMA TellsOrStays ==
    ASSUME Inv2, Inv2', StaysTold, owed \subseteq owed', \A s \in owed' \ owed : Spoken(s)'
    PROVE  Ledger!Next
<1>. DEFINE S == {s \in Speech : Stage[s] # "told" /\ Stage'[s] = "told"}
<1>1. ASSUME NEW s \in S
      PROVE  Stage[s] \in {"unheard", "waiting"}
  BY <1>1, StageNow
<1>2. ASSUME NEW s \in Speech
      PROVE  IF s \in S THEN Goes(s, "told") ELSE Keeps(s)
  <2>1. s \in owed /\ Spoken(s) => s \in owed' /\ Spoken(s)'
    BY DEF StaysTold
  <2>2. s \in owed' => s \in owed \/ Spoken(s)'
    OBVIOUS
  <2>. QED
    BY <2>1, <2>2, StageNow, StageNext DEF Goes, Keeps
<1>3. Ledger!Move(S, "told")
  BY <1>2, AllMoved
<1>. QED
  BY <1>1, <1>3 DEF Ledger!Next, Ledger!Tell

\* A recorded chunk that nobody tells yet is heard.
LEMMA CaptureHears ==
    ASSUME Steady, Inv2, Inv2', StaysTold, Capture
    PROVE  Ledger!Next
<1>1. PICK k \in Chunks :
      /\ k > captured /\ row' = [row EXCEPT ![k] = "pending"]
      /\ owed' = owed \cup ({k} \cap Speech) /\ UNCHANGED text
  <2>1. captured \in Nat /\ captured < Segments /\ Segments \in Nat /\ captured' = captured + 1
    BY Constants DEF Inv2, Inv1, Types, TimeTypes, Capture
  <2>2. captured + 1 \in Chunks /\ captured + 1 > captured
    BY <2>1 DEF Chunks
  <2>. QED
    BY <2>1, <2>2 DEF Capture, Hit, Steady
<1>2. row \in [Chunks -> Rows] /\ row[k] = "none"
  BY <1>1 DEF Inv2, Inv1, Types, RowTypes, Blank
<1>3. row'[k] = "pending" /\ \A i \in Chunks \ {k} : row'[i] = row[i]
  BY <1>1, <1>2
<1>4. text'[k] = {}
  BY <1>3 DEF Inv2, FiledInv
<1>5. ASSUME NEW s, Spoken(s)'
      PROVE  Spoken(s)
  BY <1>1, <1>3, <1>4, <1>5 DEF Spoken, Said
<1>6. CASE owed' = owed
  BY <1>6, TellsOrStays
<1>7. CASE owed' # owed
  <2>1. k \in Speech /\ k \notin owed /\ owed' = owed \cup {k}
    BY <1>1, <1>7
  <2>2. CASE Spoken(k)'
    BY <2>1, <2>2, TellsOrStays
  <2>3. CASE ~Spoken(k)'
    <3>1. ASSUME NEW s \in Speech
          PROVE  IF s \in {k} THEN Goes(s, "waiting") ELSE Keeps(s)
      <4>1. s \in owed => (Spoken(s) <=> Spoken(s)')
        BY <1>5, <2>1 DEF StaysTold
      <4>. QED
        BY <2>1, <2>3, <4>1, StageNow, StageNext DEF Goes, Keeps
    <3>2. Stage[k] = "unheard"
      BY <2>1, StageNow
    <3>3. Ledger!Move({k}, "waiting")
      BY <3>1, AllMoved
    <3>. QED
      BY <2>1, <3>2, <3>3 DEF Ledger!Next, Ledger!Hear
  <2>. QED
    BY <2>2, <2>3
<1>. QED
  BY <1>6, <1>7

\* All other steps only tell, and only live transcription puts into the books what was not
\* there, as it tells it.
LEMMA OthersTell ==
    ASSUME Steady, Inv2, Inv2', StaysTold, Next, ~Capture
    PROVE  Ledger!Next
<1>1. CASE UNCHANGED owed
  BY <1>1, TellsOrStays
<1>2. ASSUME NEW k \in Chunks, LiveInsert(k)
      PROVE  Ledger!Next
  <2>1. /\ row' = [row EXCEPT ![k] = "transcribed"] /\ text' = [text EXCEPT ![k] = @ \cup {Only(k)}]
        /\ owed' = owed \cup {k}
    BY <1>2 DEF LiveInsert, Hit, Steady
  <2>2. row \in [Chunks -> Rows] /\ text \in [Chunks -> SUBSET Texts]
    BY DEF Inv2, Inv1, Types, RowTypes
  <2>3. row'[k] = "transcribed" /\ Only(k) \in text'[k] /\ k \in Only(k).segs
    BY <2>1, <2>2, Recorded
  <2>4. Spoken(k)'
    BY <2>3 DEF Spoken, Said
  <2>. QED
    BY <2>1, <2>4, TellsOrStays
<1>3. ASSUME NEW w \in Sweepers, BeginSweep(w) \/ Sweep(w)
      PROVE  UNCHANGED owed
  BY <1>3 DEF BeginSweep, Sweep, RetryPending, RetriesDone, QueryCandidates, LastBatch, ReadBatch,
     TranscribeFails, BatchSilent, Transcribed, Merge, SavePending, StoreText, StoreFails,
     RemovePending, DeleteSecondaries
<1>. QED
  BY <1>1, <1>2, <1>3 DEF Next, Ripen, GoStale, RetranscribeRead, RetranscribeStore, DropCheck, DropDelete,
     Crash, Inv2

LEMMA LedgerStep ==
    ASSUME Steady, Inv2, [Next]_vars
    PROVE  [Ledger!Next]_Stage
<1>1. Inv2' /\ StaysTold
  BY Step2
<1>2. CASE UNCHANGED vars
  BY <1>2 DEF vars, store, Stage, Spoken, Said, WaitsIn
<1>3. CASE Next
  BY <1>1, <1>3, CaptureHears, OthersTell
<1>. QED
  BY <1>2, <1>3

LEMMA LedgerStart == Init => Ledger!Init
  BY DEF Init, Stage, Ledger!Init

\* Whatever dies, fails or is late: registered speech waits until it is told, what is told
\* stays told, where nobody drops a chunk.
THEOREM Refinement ==
    ASSUME Steady
    PROVE  Spec => ImplementsSpeechLedger
<1>1. Inv2 /\ [Next]_vars => [Ledger!Next]_Stage
  BY LedgerStep
<1>. QED
  BY LedgerStart, OwedKept, <1>1, PTL DEF Spec, ImplementsSpeechLedger, Ledger!Spec

-----------------------------------------------------------------------------
(* Nothing is told twice, when the database answers, the process lives on   *)
(* and live transcription is done before a chunk can be swept.  After a     *)
(* crash it may be: see RC_duplicate.                                       *)

Prompt == SlowLive = FALSE /\ Faults \subseteq {"stt", "disk", "rename", "read"}

\* A chunk that a sweep has still to read, or has read.
Hand(w, i) == i \in sweep[w].todo \/ (sweep[w].pc \in {"stt", "merge"} /\ i \in sweep[w].valid)
InHand(i)  == \E w \in Sweepers : Hand(w, i)

\* All that chunk i tells, or may be made to tell: what it holds, as long as it is in the
\* table or in hand, what it says, and what a request has read.
Held(i)  == IF row[i] # "none" \/ InHand(i) THEN file[i].segs ELSE {}
Words(i) == IF row[i] # "none" THEN Said(i) ELSE {}
Asked(i) == IF row[i] # "none" /\ retrans.chunk = i THEN retrans.audio.segs ELSE {}
Claim(i) == Held(i) \cup Words(i) \cup Asked(i)

\* From the merge to the deletion of the other chunks, the first one holds what they hold.
Window(w)      == sweep[w].pc \in {"save", "store", "unpend", "clean"}
Merged(w, i, j) == Window(w) /\ i = Job(w).chunk /\ j \in Job(w).secs
Pair(i, j)     == \E w \in Sweepers : Merged(w, i, j)

ApartInv == /\ \A i \in Chunks : Claim(i) \subseteq 1..captured
            /\ \A i, j \in Chunks : i # j => Claim(i) \cap Claim(j) = {} \/ Pair(i, j) \/ Pair(j, i)

\* No recording, and no text, has a segment twice, and no chunk has two texts.
Once(i) ==
    /\ Held(i) # {} => file[i].again = {}
    /\ \A t, u \in text[i] : t = u /\ t.again = {}
    /\ retrans.chunk = i => retrans.audio.again = {}

\* Chunks that are not ripe are as they were recorded, but for their live text; those that
\* wait for it are not ripe.
FreshInv ==
    /\ renewed = {} /\ \A k \in inflight : k > ripe
    /\ \A k \in Chunks : k > ripe /\ k <= captured =>
          /\ row[k] # "none" /\ file[k] = Only(k) /\ text[k] \subseteq {Only(k)}
          /\ retrans.chunk = k => retrans.audio = Only(k)

\* A sweep works on ripe chunks, on one batch after the other; it finds nothing to retry.
BatchInv(w) ==
    /\ sweep[w].todo \subseteq 1..ripe
    /\ sweep[w].pc = "idle" => sweep[w].todo = {}
    /\ sweep[w].pc \in {"stt", "merge"} =>
          sweep[w].valid \subseteq 1..ripe /\ sweep[w].valid \cap sweep[w].todo = {}
    /\ sweep[w].pc \in Jobbing =>
          /\ Job(w).chunk \in 1..ripe \ (sweep[w].todo \cup Job(w).secs) /\ Job(w).secs \subseteq 1..ripe
          /\ ~sweep[w].retrying
    /\ sweep[w].pc \in {"merge", "save", "store"} => Job(w).heard.again = {}
    /\ sweep[w].pc \in {"save", "store"} => file[Job(w).chunk] # NoFile

DueInv == \A i \in Chunks : Due(i) =>
    \E w \in Sweepers : sweep[w].pc \in {"store", "unpend"} /\ i = Job(w).chunk

Inv3 == /\ Inv1 /\ ApartInv /\ FreshInv /\ DueInv
        /\ \A i \in Chunks : Once(i)
        /\ \A w \in Sweepers : BatchInv(w)
        /\ dropping.chunk <= ripe          \* only ripe chunks are dropped

-----------------------------------------------------------------------------
(* What a step does to the claim of one chunk.                              *)

\* A chunk in the table was there before, or is recorded in this step.
LEMMA InTable ==
    ASSUME Inv3, StoreStep, NEW i \in Chunks
    PROVE  /\ i \notin renewed' /\ (Alive(i) <=> row[i] # "none")
           /\ i \in inflight => row[i] # "none" /\ i > ripe /\ i <= captured
           /\ row'[i] # "none" => row[i] # "none" \/ RowNew(i)
<1>1. i \in inflight => row[i] # "none" /\ i > ripe /\ i <= captured
  <2>1. ASSUME i \in inflight
        PROVE  i \in 1..captured /\ i > ripe /\ captured \in Nat
    BY <2>1, Constants DEF Inv3, Inv1, Blank, FreshInv, Types, TimeTypes
  <2>2. ASSUME i \in inflight
        PROVE  i <= captured
    BY <2>1, <2>2
  <2>. QED
    BY <2>1, <2>2 DEF Inv3, FreshInv
<1>2. renewed = {} /\ RowMoved(i) /\ (i \in renewed' => i \in renewed \/ (RowLive(i) /\ row[i] = "none"))
  BY DEF Inv3, FreshInv, StoreStep
<1>3. i \notin renewed' /\ (Alive(i) <=> row[i] # "none")
  BY <1>1, <1>2 DEF RowLive, Alive
<1>. QED
  BY <1>1, <1>2, <1>3 DEF RowMoved, RowSame, RowNew, RowLive, RowGone, RowSilent, RowTried, RowTold

\* The file stays or goes, the chunk is not taken in hand unless it is in the table, and a
\* text that is new to it was made from what it holds, or from what a request has read.
Retold(i) == \E t \in Texts :
    RowTold(i, t) /\ t.again = {} /\ t.segs \subseteq Held(i) \cup Asked(i)
Calm(i) ==
    /\ file'[i] \in {file[i], NoFile}
    /\ InHand(i)' => InHand(i) \/ row[i] # "none"
    /\ \/ RowSame(i) \/ RowLive(i) \/ RowGone(i) \/ RowSilent(i) \/ RowTried(i)
       \/ Retold(i)

LEMMA ClaimShrinks ==
    ASSUME Inv3, StoreStep, NEW i \in Chunks, Calm(i)
    PROVE  Claim(i)' \subseteq Claim(i) /\ Once(i)'
<1>1. row'[i] # "none" => row[i] # "none"
  <2>1. RowSame(i) \/ RowLive(i) \/ Alive(i)
    BY DEF Calm, RowGone, RowSilent, RowTried, RowTold, Retold
  <2>. QED
    BY <2>1, InTable DEF RowSame, RowLive, Alive
<1>2. Once(i)
  BY DEF Inv3, Once
<1>3. Held(i)' \subseteq Held(i) /\ (Held(i)' # {} => file'[i] = file[i])
  BY <1>1 DEF Calm, Held, NoFile
<1>4. /\ Asked(i)' \subseteq Asked(i) \cup Held(i)
      /\ retrans'.chunk = i => retrans'.audio.again = {}
  <2>1. CASE retrans' = retrans
    BY <1>1, <1>2, <2>1 DEF Asked, Once
  <2>2. CASE retrans' = NoRetrans
    BY <2>2, Recorded, Constants DEF Asked
  <2>3. CASE retrans'.chunk = i /\ Alive(i) /\ retrans'.audio = file[i] /\ UNCHANGED file
    <3>1. Held(i) = file[i].segs
      BY <2>3 DEF Held, Alive
    <3>2. file[i] # NoFile => i \in file[i].segs
      BY DEF Inv3, Inv1, AudioInv
    <3>3. file[i].again = {}
      BY <1>2, <3>1, <3>2 DEF Once, NoFile
    <3>. QED
      BY <2>3, <3>1, <3>3 DEF Asked
  <2>4. CASE retrans'.chunk # i
    BY <2>4 DEF Asked
  <2>. QED
    BY <2>1, <2>2, <2>3, <2>4 DEF StoreStep
<1>5. /\ Words(i)' \subseteq Words(i) \cup Held(i) \cup Asked(i)
      /\ \A t, u \in text'[i] : t = u /\ t.again = {}
  <2>1. CASE text'[i] = text[i]
    BY <1>1, <1>2, <2>1 DEF Words, Said, Once
  <2>2. CASE RowGone(i)
    BY <2>2 DEF RowGone, Words
  <2>3. CASE RowLive(i)
    <3>1. /\ row[i] # "none" /\ file[i] = Only(i) /\ text[i] \subseteq {Only(i)}
          /\ text'[i] = text[i] \cup {Only(i)}
      BY <2>3, InTable DEF RowLive, Inv3, FreshInv
    <3>2. text'[i] = {Only(i)} /\ Held(i) = {i} /\ Only(i).segs = {i} /\ Only(i).again = {}
      BY <3>1, Recorded DEF Held, Only
    <3>. QED
      BY <3>2 DEF Words, Said
  <2>4. CASE Retold(i)
    <3>1. PICK t \in Texts : RowTold(i, t) /\ t.again = {} /\ t.segs \subseteq Held(i) \cup Asked(i)
      BY <2>4 DEF Retold
    <3>2. text'[i] = {t}
      BY <3>1 DEF RowTold
    <3>. QED
      BY <3>1, <3>2 DEF Words, Said
  <2>. QED
    BY <2>1, <2>2, <2>3, <2>4 DEF Calm, RowSame, RowSilent, RowTried
<1>6. Claim(i)' \subseteq Claim(i)
  BY <1>3, <1>4, <1>5 DEF Claim
<1>. QED
  BY <1>2, <1>3, <1>4, <1>5, <1>6 DEF Once

\* The chunk is recorded in this step.
Born(i) == RowNew(i) /\ file'[i] = Only(i)

LEMMA ClaimOfBorn ==
    ASSUME Inv3, StoreStep, NEW i \in Chunks, Born(i)
    PROVE  Claim(i)' \subseteq {captured'} /\ Once(i)' /\ i = captured' /\ i > captured
<1>1. i > captured /\ captured' = i /\ text'[i] = text[i] /\ file'[i] = Only(i)
  BY DEF Born, RowNew
<1>2. row[i] = "none" /\ text[i] = {} /\ retrans.chunk # i
  BY <1>1 DEF Inv3, Inv1, Blank, RowInv
<1>3. retrans'.chunk # i
  <2>1. captured \in Nat /\ i \in Nat \ {0}
    BY Constants DEF Inv3, Inv1, Types, TimeTypes
  <2>2. i \notin 1..captured /\ i # 0
    BY <1>1, <2>1
  <2>. QED
    BY <1>2, <2>2, Recorded DEF StoreStep
<1>4. Held(i)' \subseteq {i} /\ file'[i].again = {}
  BY <1>1 DEF Held, Only
<1>5. Words(i)' = {} /\ Asked(i)' = {}
  BY <1>1, <1>2, <1>3 DEF Words, Said, Asked
<1>. QED
  BY <1>1, <1>2, <1>3, <1>4, <1>5 DEF Claim, Once

\* The first chunk of a merged batch and each other chunk of it stay a pair, until one of
\* the two claims nothing.
PairsKept == \A i, j \in Chunks : Pair(i, j) => Pair(i, j)' \/ Claim(i)' = {} \/ Claim(j)' = {}

LEMMA ApartKept ==
    ASSUME Inv3, StoreStep, PairsKept, \A i \in Chunks : Calm(i) \/ Born(i)
    PROVE  ApartInv' /\ \A i \in Chunks : Once(i)'
<1>1. captured \in Nat /\ captured' \in Nat /\ 1..captured \subseteq 1..captured' /\ Chunks \subseteq Nat \ {0}
  <2>1. captured \in Nat /\ captured' \in {captured, captured + 1} /\ Chunks \subseteq Nat \ {0}
    BY Constants DEF Inv3, Inv1, Types, TimeTypes, StoreStep
  <2>. QED
    BY <2>1
<1>2. \A i \in Chunks : Once(i)' /\ ((Claim(i)' \subseteq Claim(i)) \/ (Born(i) /\ Claim(i)' \subseteq {captured'} /\ i = captured' /\ i > captured))
  BY ClaimShrinks, ClaimOfBorn
<1>3. ASSUME NEW i \in Chunks
      PROVE  Claim(i)' \subseteq 1..captured'
  <2>1. Claim(i) \subseteq 1..captured
    BY DEF Inv3, ApartInv
  <2>2. captured' = i => captured' \in 1..captured'
    BY <1>1
  <2>. QED
    BY <1>1, <1>2, <2>1, <2>2
<1>4. ASSUME NEW i \in Chunks, NEW j \in Chunks, i # j
      PROVE  Claim(i)' \cap Claim(j)' = {} \/ Pair(i, j)' \/ Pair(j, i)'
  <2>1. /\ Claim(i) \cap Claim(j) = {} \/ Pair(i, j) \/ Pair(j, i)
        /\ Claim(i) \subseteq 1..captured /\ Claim(j) \subseteq 1..captured
    BY <1>4 DEF Inv3, ApartInv
  <2>2. CASE Claim(i)' \subseteq Claim(i) /\ Claim(j)' \subseteq Claim(j)
    BY <2>1, <2>2 DEF PairsKept
  <2>3. CASE captured' > captured /\ (Claim(i)' \subseteq {captured'} \/ Claim(j)' \subseteq {captured'})
    <3>1. captured' \notin 1..captured
      BY <1>1, <2>3
    <3>. QED
      BY <1>2, <1>4, <2>1, <2>3, <3>1
  <2>. QED
    BY <1>2, <2>2, <2>3
<1>. QED
  BY <1>2, <1>3, <1>4 DEF ApartInv

\* A chunk that is not ripe stays as it is, but for its live text.
StillFresh(i) == row'[i] # "none" /\ file'[i] = file[i] /\ text'[i] \subseteq {Only(i)}

LEMMA FreshKept ==
    ASSUME Inv3, Good1, ripe' >= ripe, \A k \in inflight' : k > ripe',
           \A i \in Chunks : i > ripe' =>
               IF i <= captured THEN StillFresh(i) ELSE Born(i) \/ i > captured'
    PROVE  FreshInv'
<1>1. StoreStep /\ Types'
  BY DEF Good1
<1>2. /\ captured \in Nat /\ captured' \in Nat /\ ripe \in Nat /\ ripe' \in Nat /\ ripe <= captured
      /\ Chunks \subseteq Nat \ {0}
  BY <1>1, Constants DEF Inv3, Inv1, Types, TimeTypes, StoreStep
<1>3. renewed' = {}
  <2>1. renewed' \subseteq Chunks
    BY <1>1 DEF Types, LiveTypes
  <2>. QED
    BY <1>1, <2>1, InTable
<1>4. ASSUME NEW k \in Chunks, k > ripe', k <= captured'
      PROVE  /\ row'[k] # "none" /\ file'[k] = Only(k) /\ text'[k] \subseteq {Only(k)}
             /\ retrans'.chunk = k => retrans'.audio = Only(k)
  <2>1. k \in Nat \ {0} /\ k > ripe
    BY <1>2, <1>4
  <2>2. CASE k <= captured
    <3>1. /\ row[k] # "none" /\ file[k] = Only(k) /\ text[k] \subseteq {Only(k)}
          /\ retrans.chunk = k => retrans.audio = Only(k)
      BY <2>1, <2>2 DEF Inv3, FreshInv
    <3>2. StillFresh(k)
      BY <1>4, <2>2
    <3>3. retrans'.chunk = k => retrans'.audio = Only(k)
      BY <1>1, <2>1, <3>1, <3>2, Recorded DEF StoreStep
    <3>. QED
      BY <3>1, <3>2, <3>3 DEF StillFresh
  <2>3. CASE ~(k <= captured)
    <3>1. Born(k) /\ k > captured
      BY <1>2, <1>4, <2>1, <2>3
    <3>2. row'[k] = "pending" /\ file'[k] = Only(k) /\ text'[k] = text[k] /\ text[k] = {} /\ retrans.chunk # k
      BY <3>1 DEF Born, RowNew, Inv3, Inv1, Blank, RowInv
    <3>3. k \notin 1..captured
      BY <1>2, <2>3
    <3>4. retrans'.chunk # k
      BY <1>1, <2>1, <3>2, <3>3, Recorded DEF StoreStep
    <3>. QED
      BY <3>2, <3>4
  <2>. QED
    BY <2>2, <2>3
<1>. QED
  BY <1>3, <1>4 DEF FreshInv

-----------------------------------------------------------------------------
(* The steps outside the sweeps.                                            *)

Good3 == /\ ApartInv' /\ FreshInv' /\ DueInv'
         /\ \A i \in Chunks : Once(i)'
         /\ \A w \in Sweepers : BatchInv(w)'

\* A row that is told anew, by a step that leaves the files and the sweeps alone.
RowCalm(i) ==
    \/ RowSame(i) \/ RowLive(i) \/ RowGone(i) \/ RowSilent(i) \/ RowTried(i)
    \/ Retold(i)

\* Pending files stay those of chunks that are being stored.
LEMMA DueStays ==
    ASSUME Inv3, StoreStep, NEW i \in Chunks, pend'[i] = pend[i], Due(i)'
    PROVE  Due(i)
<1>1. Alive(i) \/ RowNew(i)
  BY AliveStep DEF Inv3, Due
<1>2. CASE Alive(i)
  BY <1>2 DEF Due
<1>3. CASE RowNew(i)
  BY <1>3, Recorded DEF RowNew, Inv3, Inv1, Blank, Due
<1>. QED
  BY <1>1, <1>2, <1>3

LEMMA Around3 ==
    ASSUME Inv3, Good1, UNCHANGED <<sweep, pend>>, ripe' >= ripe, \A k \in inflight' : k > ripe',
           \A i \in 1..captured : file'[i] = file[i],
           \A i \in Chunks : Born(i) \/ (RowCalm(i) /\ file'[i] = file[i]),
           \A i \in Chunks : i > ripe' =>
               IF i <= captured THEN StillFresh(i) ELSE Born(i) \/ i > captured'
    PROVE  Good3
<1>1. StoreStep
  BY DEF Good1
<1>2. (\A i \in Chunks : InHand(i)' => InHand(i)) /\ PairsKept
  BY DEF InHand, Hand, PairsKept, Pair, Merged, Window, Job
<1>3. \A i \in Chunks : Calm(i) \/ Born(i)
  BY <1>2 DEF Calm, RowCalm
<1>4. ApartInv' /\ \A i \in Chunks : Once(i)'
  BY <1>1, <1>2, <1>3, ApartKept
<1>5. FreshInv'
  BY FreshKept
<1>6. DueInv'
  <2>1. ASSUME NEW i \in Chunks, Due(i)'
        PROVE  \E w \in Sweepers : sweep'[w].pc \in {"store", "unpend"} /\ i = sweep'[w].job.chunk
    <3>1. Due(i)
      BY <1>1, <2>1, DueStays
    <3>. QED
      BY <3>1 DEF Inv3, DueInv, Job
  <2>. QED
    BY <2>1 DEF DueInv, Job
<1>7. ASSUME NEW w \in Sweepers
      PROVE  BatchInv(w)'
  <2>1. 1..ripe \subseteq 1..ripe'
    <3>1. ripe \in Nat /\ ripe' \in Nat
      BY Constants DEF Inv3, Inv1, Good1, Types, TimeTypes
    <3>. QED
      BY <3>1
  <2>2. sweep[w].pc \in Jobbing => file'[Job(w).chunk] = file[Job(w).chunk]
    BY JobKnown DEF Inv3
  <2>3. BatchInv(w)
    BY DEF Inv3
  <2>. QED
    BY <2>1, <2>2, <2>3 DEF BatchInv, Job, Jobbing
<1>. QED
  BY <1>4, <1>5, <1>6, <1>7 DEF Good3

LEMMA Capture3 ==
    ASSUME Prompt, Inv3, Capture
    PROVE  Good3
<1>1. Good1 /\ Inv1
  BY CaptureGood DEF Inv3
<1>. DEFINE k == captured + 1
<1>2. /\ captured \in Nat /\ captured' = k /\ k \in Chunks /\ ripe \in Nat /\ ripe <= captured
      /\ Chunks \subseteq Nat \ {0}
  <2>1. captured \in Nat /\ captured < Segments /\ Segments \in Nat /\ captured' = captured + 1
        /\ ripe \in 0..captured /\ Chunks \subseteq Nat \ {0}
    BY <1>1, Constants DEF Inv1, Types, TimeTypes, Capture
  <2>. QED
    BY <2>1 DEF Chunks
<1>3. /\ file' = [file EXCEPT ![k] = Only(k)] /\ row' = [row EXCEPT ![k] = "pending"]
      /\ inflight' \in {inflight, inflight \cup ({k} \cap Speech)}
      /\ UNCHANGED <<time, attempts, text, pend, renewed, running, sweep, retrans, dropping>>
  BY <1>2 DEF Capture, Prompt, Hit
<1>. HIDE DEF k
<1>4. Born(k) /\ k > captured
  BY <1>1, <1>2, <1>3 DEF Born, RowNew, Inv1, Types, FileTypes, RowTypes, k
<1>5. \A i \in Chunks \ {k} : RowSame(i) /\ file'[i] = file[i]
  BY <1>1, <1>3 DEF RowSame, Inv1, Types, FileTypes, RowTypes
<1>6. \A i \in 1..captured : i \in Chunks \ {k}
  <2>1. captured <= Segments /\ Segments \in Nat
    BY <1>1, Constants DEF Inv1, Types, TimeTypes
  <2>. QED
    BY <1>2, <1>4, <2>1 DEF Chunks
<1>7. ripe' = ripe /\ \A i \in inflight' : i > ripe'
  <2>1. \A i \in inflight : i > ripe
    BY DEF Inv3, FreshInv
  <2>2. k > ripe
    BY <1>2 DEF k
  <2>. QED
    BY <1>3, <2>1, <2>2 DEF time
<1>8. ASSUME NEW i \in Chunks, i > ripe'
      PROVE  IF i <= captured THEN StillFresh(i) ELSE Born(i) \/ i > captured'
  <2>1. CASE i = k
    BY <1>2, <1>4, <2>1 DEF k
  <2>2. CASE i # k
    <3>1. i <= captured \/ i > captured'
      BY <1>2, <2>2 DEF k
    <3>2. i <= captured => StillFresh(i)
      BY <1>5, <1>7, <1>8, <2>2 DEF RowSame, StillFresh, Inv3, FreshInv
    <3>. QED
      BY <3>1, <3>2
  <2>. QED
    BY <2>1, <2>2
<1>. QED
  BY <1>1, <1>2, <1>3, <1>4, <1>5, <1>6, <1>7, <1>8, Around3 DEF RowCalm

LEMMA Time3 ==
    ASSUME Prompt, Inv3, Ripen \/ GoStale
    PROVE  Good3
<1>1. Good1 /\ Inv1
  BY TimeGood DEF Inv3
<1>2. UNCHANGED <<captured, store, inflight, running, sweep, retrans, dropping>>
  BY DEF Ripen, GoStale
<1>3. /\ \A i \in Chunks : RowSame(i) /\ file'[i] = file[i]
      /\ \A i \in 1..captured : file'[i] = file[i]
      /\ UNCHANGED <<sweep, pend>>
  BY <1>2 DEF RowSame, store
<1>4. ripe \in Nat /\ inflight \subseteq Nat /\ Chunks \subseteq Nat
  BY <1>1, Constants DEF Inv1, Types, TimeTypes, LiveTypes
<1>5. ripe' >= ripe /\ \A k \in inflight' : k > ripe'
  <2>1. \A k \in inflight : k > ripe
    BY DEF Inv3, FreshInv
  <2>2. CASE ripe' = ripe
    BY <1>2, <1>4, <2>1, <2>2
  <2>3. CASE ripe' = ripe + 1 /\ ripe + 1 \notin inflight
    BY <1>2, <1>4, <2>1, <2>3
  <2>. QED
    BY <2>2, <2>3 DEF Ripen, GoStale, Prompt
<1>6. \A i \in Chunks : i > ripe' =>
         IF i <= captured THEN StillFresh(i) ELSE Born(i) \/ i > captured'
  <2>1. \A i \in Chunks : i > ripe' => i > ripe
    <3>1. ripe' \in Nat
      BY <1>1, Constants DEF Good1, Types, TimeTypes
    <3>. QED
      BY <1>4, <1>5, <3>1
  <2>2. \A i \in Chunks : i <= captured \/ i > captured'
    BY <1>1, <1>2, <1>4, Constants DEF Inv1, Types, TimeTypes
  <2>. QED
    BY <1>3, <2>1, <2>2 DEF StillFresh, RowSame, Inv3, FreshInv
<1>. QED
  BY <1>1, <1>3, <1>5, <1>6, Around3 DEF RowCalm

\* A step at which nothing is recorded and no chunk ripens, and that leaves all files.
LEMMA Still3 ==
    ASSUME Inv3, Good1, UNCHANGED <<captured, time, file, pend, sweep>>, inflight' \subseteq inflight,
           \A i \in Chunks : RowCalm(i),
           \A i \in Chunks : i > ripe /\ i <= captured => row'[i] # "none" /\ text'[i] \subseteq {Only(i)}
    PROVE  Good3
<1>1. captured' = captured /\ ripe' = ripe /\ file' = file /\ UNCHANGED <<sweep, pend>>
  BY DEF time
<1>2. captured \in Nat /\ ripe \in Nat /\ Chunks \subseteq Nat \ {0}
  BY Constants DEF Inv3, Inv1, Types, TimeTypes
<1>3. ripe' >= ripe /\ \A i \in Chunks : ~(i <= captured) => i > captured'
  BY <1>1, <1>2
<1>4. \A k \in inflight' : k > ripe'
  BY <1>1 DEF Inv3, FreshInv
<1>5. \A i \in Chunks : i > ripe' =>
         IF i <= captured THEN StillFresh(i) ELSE Born(i) \/ i > captured'
  BY <1>1, <1>3 DEF StillFresh
<1>. QED
  BY <1>1, <1>3, <1>4, <1>5, Around3

LEMMA LiveInsert3 ==
    ASSUME Prompt, Inv3, NEW k \in Chunks, LiveInsert(k)
    PROVE  Good3
<1>1. Good1 /\ Inv1
  BY LiveInsertGood DEF Inv3
<1>2. /\ k \in inflight /\ inflight' = inflight \ {k}
      /\ UNCHANGED <<captured, time, file, pend, running, sweep, retrans, dropping>>
      /\ row' = [row EXCEPT ![k] = "transcribed"]
      /\ text' = [text EXCEPT ![k] = @ \cup {Only(k)}]
      /\ attempts' = [attempts EXCEPT ![k] = OneMore(@)]
      /\ renewed' = IF row[k] = "none" THEN renewed \cup {k} ELSE renewed
  BY DEF LiveInsert, Prompt, Hit
<1>3. \A i \in Chunks \ {k} : RowSame(i)
  BY <1>1, <1>2 DEF RowSame, Inv1, Types, RowTypes
<1>4. RowLive(k) /\ row'[k] = "transcribed" /\ text'[k] = text[k] \cup {Only(k)}
  BY <1>1, <1>2 DEF RowLive, Inv1, Types, RowTypes
<1>5. \A i \in Chunks : i > ripe /\ i <= captured => row'[i] # "none" /\ text'[i] \subseteq {Only(i)}
  BY <1>3, <1>4 DEF RowSame, Inv3, FreshInv
<1>. QED
  BY <1>1, <1>2, <1>3, <1>4, <1>5, Still3 DEF RowCalm

LEMMA DropCheck3 ==
    ASSUME Inv3, NEW k \in Chunks, DropCheck(k)
    PROVE  Good3
<1>1. Good1 /\ Inv1
  BY DropCheckGood DEF Inv3
<1>2. UNCHANGED <<captured, time, store, inflight, running, sweep, retrans, owed, faults>>
  BY DEF DropCheck
<1>3. \A i \in Chunks : RowSame(i)
  BY <1>2 DEF RowSame, store
<1>4. \A i \in Chunks : i > ripe /\ i <= captured => row'[i] # "none" /\ text'[i] \subseteq {Only(i)}
  BY <1>3 DEF RowSame, Inv3, FreshInv
<1>. QED
  BY <1>1, <1>2, <1>3, <1>4, Still3 DEF RowCalm, store

LEMMA DropDelete3 ==
    ASSUME Inv3, DropDelete
    PROVE  Good3
<1>1. /\ Good1 /\ Inv1 /\ dropping.chunk \in Chunks
      /\ \A i \in Chunks : RowSame(i) \/ (i = dropping.chunk /\ RowGone(i))
  BY DropDeleteGood DEF Inv3
<1>2. UNCHANGED <<captured, time, file, pend, renewed, inflight, running, sweep, retrans, faults>>
  BY DEF DropDelete
<1>3. \A i \in Chunks : i > ripe => RowSame(i)
  <2>1. dropping.chunk <= ripe /\ ripe \in Nat /\ Chunks \subseteq Nat
    BY Constants DEF Inv3, Inv1, Types, TimeTypes
  <2>2. \A i \in Chunks : i > ripe => i # dropping.chunk
    BY <1>1, <2>1
  <2>. QED
    BY <1>1, <2>2
<1>4. \A i \in Chunks : i > ripe /\ i <= captured => row'[i] # "none" /\ text'[i] \subseteq {Only(i)}
  BY <1>3 DEF RowSame, Inv3, FreshInv
<1>. QED
  BY <1>1, <1>2, <1>4, Still3 DEF RowCalm

LEMMA RetranscribeRead3 ==
    ASSUME Prompt, Inv3, NEW k \in Chunks, RetranscribeRead(k)
    PROVE  Good3
<1>1. Good1 /\ Inv1
  BY RetranscribeReadGood DEF Inv3
<1>2. UNCHANGED <<captured, time, store, inflight, running, sweep, owed, faults>>
  BY DEF RetranscribeRead
<1>3. \A i \in Chunks : RowSame(i)
  BY <1>2 DEF RowSame, store
<1>4. \A i \in Chunks : i > ripe /\ i <= captured => row'[i] # "none" /\ text'[i] \subseteq {Only(i)}
  BY <1>3 DEF RowSame, Inv3, FreshInv
<1>. QED
  BY <1>1, <1>2, <1>3, <1>4, Still3 DEF RowCalm, store

LEMMA RetranscribeStore3 ==
    ASSUME Prompt, Inv3, RetranscribeStore
    PROVE  Good3
<1>1. Good1 /\ Inv1
  BY RetranscribeStoreGood DEF Inv3
<1>2. /\ UNCHANGED <<captured, time, renewed, file, pend, inflight, running, sweep, owed, faults>>
      /\ \/ Alive(retrans.chunk) /\ Heard(retrans.audio).segs # {}
              /\ ReplaceText(retrans.chunk, Heard(retrans.audio))
         \/ RecordSilent({retrans.chunk}, {})
         \/ UNCHANGED <<row, attempts, text>>
  BY DEF RetranscribeStore
<1>3. retrans.chunk \in Chunks /\ retrans.audio \in Recordings /\ RowTypes
  <2>1. retrans \in Requests /\ RowTypes
    BY <1>1 DEF Inv1, Types, RestTypes
  <2>. QED
    BY <2>1 DEF Requests, RetranscribeStore
<1>4. PICK k \in Chunks : k = retrans.chunk
  BY <1>3
<1>5. PICK t \in Texts : t = Heard(retrans.audio)
  BY <1>3, Recorded
<1>6. t.segs \subseteq retrans.audio.segs /\ t.again = {}
  <2>1. Once(k)
    BY DEF Inv3
  <2>. QED
    BY <1>4, <1>5, <2>1 DEF Once, Heard
<1>7. CASE Alive(k) /\ t.segs # {} /\ ReplaceText(k, t)
  <2>1. RowTold(k, t) /\ \A j \in Chunks \ {k} : RowSame(j)
    BY <1>3, <1>7, ReplaceTextMoves
  <2>2. Asked(k) = retrans.audio.segs
    BY <1>4, <1>7 DEF Asked, Alive
  <2>3. Retold(k)
    BY <1>6, <2>1, <2>2 DEF Retold
  <2>4. ASSUME k > ripe, k <= captured
        PROVE  row'[k] # "none" /\ text'[k] \subseteq {Only(k)}
    <3>1. retrans.audio = Only(k)
      BY <1>4, <2>4 DEF Inv3, FreshInv
    <3>2. t = Only(k)
      BY <1>5, <1>7, <3>1 DEF Heard, Only
    <3>. QED
      BY <2>1, <3>2 DEF RowTold
  <2>5. \A i \in Chunks : i > ripe /\ i <= captured => row'[i] # "none" /\ text'[i] \subseteq {Only(i)}
    BY <2>1, <2>4 DEF RowSame, Inv3, FreshInv
  <2>. QED
    BY <1>1, <1>2, <2>1, <2>3, <2>5, Still3 DEF RowCalm
<1>8. CASE RecordSilent({k}, {})
  <2>1. \A i \in Chunks : RowSilent(i) \/ RowSame(i)
    BY <1>3, <1>8, RecordSilentMoves
  <2>2. \A i \in Chunks : i > ripe /\ i <= captured => row'[i] # "none" /\ text'[i] \subseteq {Only(i)}
    BY <2>1 DEF RowSame, RowSilent, Inv3, FreshInv
  <2>. QED
    BY <1>1, <1>2, <2>1, <2>2, Still3 DEF RowCalm
<1>9. CASE UNCHANGED <<row, attempts, text>>
  <2>1. \A i \in Chunks : RowSame(i)
    BY <1>9 DEF RowSame
  <2>2. \A i \in Chunks : i > ripe /\ i <= captured => row'[i] # "none" /\ text'[i] \subseteq {Only(i)}
    BY <2>1 DEF RowSame, Inv3, FreshInv
  <2>. QED
    BY <1>1, <1>2, <2>1, <2>2, Still3 DEF RowCalm
<1>. QED
  BY <1>2, <1>4, <1>5, <1>7, <1>8, <1>9

-----------------------------------------------------------------------------
(* The steps of the sweeps.                                                 *)

\* What w does to its own sweep, and to the store, without a merge.
LEMMA Sweep3 ==
    ASSUME Inv3, Good1, NEW w \in Sweepers, Active(w) \/ ~running, Others(w),
           UNCHANGED <<captured, time, inflight>>,
           \A i \in Chunks : RowCalm(i) /\ file'[i] \in {file[i], NoFile},
           \A i \in Chunks : i > ripe /\ i <= captured => StillFresh(i),
           \A i \in Chunks : Hand(w, i)' => Hand(w, i) \/ row[i] # "none",
           \A i, j \in Chunks : Merged(w, i, j) =>
               Merged(w, i, j)' \/ Claim(i)' = {} \/ Claim(j)' = {},
           \A i \in Chunks : Due(i)' => sweep'[w].pc \in {"store", "unpend"} /\ i = sweep'[w].job.chunk,
           BatchInv(w)'
    PROVE  Good3
<1>1. StoreStep /\ Inv1
  BY DEF Good1, Inv3
<1>2. \A v \in Sweepers \ {w} : sweep[v].pc = "idle" /\ sweep'[v] = sweep[v]
  BY <1>1, OneSweeps DEF Inv1
<1>3. ASSUME NEW i \in Chunks, InHand(i)'
      PROVE  InHand(i) \/ row[i] # "none"
  <2>1. PICK v \in Sweepers : Hand(v, i)'
    BY <1>3 DEF InHand
  <2>2. CASE v = w
    BY <2>1, <2>2 DEF InHand
  <2>3. CASE v # w
    BY <1>2, <2>1, <2>3 DEF InHand, Hand
  <2>. QED
    BY <2>2, <2>3
<1>4. \A i \in Chunks : Calm(i) \/ Born(i)
  BY <1>3 DEF Calm, RowCalm
<1>5. ASSUME NEW i \in Chunks, NEW j \in Chunks, Pair(i, j)
      PROVE  Pair(i, j)' \/ Claim(i)' = {} \/ Claim(j)' = {}
  <2>1. PICK v \in Sweepers : Merged(v, i, j)
    BY <1>5 DEF Pair
  <2>2. v = w
    BY <1>2, <2>1 DEF Merged, Window
  <2>3. Merged(w, i, j)' \/ Claim(i)' = {} \/ Claim(j)' = {}
    BY <2>1, <2>2
  <2>. QED
    BY <2>3 DEF Pair
<1>6. ApartInv' /\ \A i \in Chunks : Once(i)'
  BY <1>1, <1>4, <1>5, ApartKept DEF PairsKept
<1>7. FreshInv'
  <2>1. captured' = captured /\ ripe' = ripe /\ inflight' = inflight
    BY DEF time
  <2>2. captured \in Nat /\ ripe \in Nat /\ Chunks \subseteq Nat \ {0}
    BY <1>1, Constants DEF Inv1, Types, TimeTypes
  <2>3. ripe' >= ripe /\ \A i \in Chunks : ~(i <= captured) => i > captured'
    BY <2>1, <2>2
  <2>4. \A k \in inflight' : k > ripe'
    BY <2>1 DEF Inv3, FreshInv
  <2>5. \A i \in Chunks : i > ripe' =>
           IF i <= captured THEN StillFresh(i) ELSE Born(i) \/ i > captured'
    BY <2>1, <2>3
  <2>. QED
    BY <2>3, <2>4, <2>5, FreshKept
<1>8. DueInv'
  BY DEF DueInv, Job
<1>9. \A v \in Sweepers : BatchInv(v)'
  <2>1. ASSUME NEW v \in Sweepers, v # w
        PROVE  BatchInv(v)'
    <3>1. BatchInv(v) /\ sweep[v].pc = "idle" /\ sweep'[v] = sweep[v] /\ ripe' = ripe
      BY <1>2, <2>1 DEF Inv3, time
    <3>. QED
      BY <3>1 DEF BatchInv, Jobbing
  <2>. QED
    BY <2>1
<1>. QED
  BY <1>6, <1>7, <1>8, <1>9 DEF Good3

\* Only what w stores is due.
LEMMA NoneDue3 ==
    ASSUME Inv3, NEW w \in Sweepers, Active(w) \/ ~running
    PROVE  \A i \in Chunks : Due(i) => sweep[w].pc \in {"store", "unpend"} /\ i = Job(w).chunk
<1>1. ASSUME NEW i \in Chunks, Due(i)
      PROVE  sweep[w].pc \in {"store", "unpend"} /\ i = Job(w).chunk
  <2>1. PICK v \in Sweepers : sweep[v].pc \in {"store", "unpend"} /\ i = Job(v).chunk
    BY <1>1 DEF Inv3, DueInv
  <2>2. v = w
    BY <2>1 DEF Inv3, Inv1, SweepInv, Solo, Sound, Active
  <2>. QED
    BY <2>1, <2>2
<1>. QED
  BY <1>1

\* A step that leaves the files, the rows and the pending files.
LEMMA Quiet3 ==
    ASSUME Inv3, Good1, NEW w \in Sweepers, Active(w) \/ ~running, Others(w),
           UNCHANGED <<captured, time, file, row, attempts, text, inflight>>,
           \A i \in Chunks : Hand(w, i)' => Hand(w, i) \/ row[i] # "none",
           \A i, j \in Chunks : Merged(w, i, j) =>
               Merged(w, i, j)' \/ Claim(i)' = {} \/ Claim(j)' = {},
           \A i \in Chunks : Due(i)' => sweep'[w].pc \in {"store", "unpend"} /\ i = sweep'[w].job.chunk,
           BatchInv(w)'
    PROVE  Good3
<1>1. \A i \in Chunks : RowSame(i) /\ file'[i] = file[i]
  BY DEF RowSame
<1>2. \A i \in Chunks : i > ripe /\ i <= captured => StillFresh(i)
  BY <1>1 DEF RowSame, StillFresh, Inv3, FreshInv
<1>. QED
  BY <1>1, <1>2, Sweep3 DEF RowCalm

\* One before the text of a batch is made, or after all that were saved are stored.
LEMMA Jobless3 ==
    ASSUME Inv3, Good1, NEW w \in Sweepers, Active(w) \/ ~running, Others(w),
           sweep[w].pc \notin {"save", "store", "unpend", "clean"},
           UNCHANGED <<captured, time, file, row, attempts, text, inflight>>,
           \A i \in Chunks : pend'[i] = pend[i] \/ pend'[i] = NoPend,
           \A i \in Chunks : Hand(w, i)' => Hand(w, i) \/ row[i] # "none",
           BatchInv(w)'
    PROVE  Good3
<1>1. \A i, j \in Chunks : ~Merged(w, i, j)
  BY DEF Merged, Window
<1>2. ASSUME NEW i \in Chunks
      PROVE  ~Due(i)'
  <2>1. ~Due(i)
    BY NoneDue3
  <2>2. pend'[i] = pend[i] => ~Due(i)'
    BY <2>1, DueStays DEF Good1
  <2>. QED
    BY <2>2, Recorded DEF Due
<1>. QED
  BY <1>1, <1>2, Quiet3

\* A step to a place where the sweep has no batch in hand.
LEMMA NoBatch3 ==
    ASSUME Inv3, NEW w \in Sweepers, UNCHANGED time,
           sweep'[w].pc \in {"idle", "retry", "query", "batch"},
           sweep'[w].todo \subseteq sweep[w].todo, sweep'[w].pc = "idle" => sweep'[w].todo = {}
    PROVE  BatchInv(w)' /\ \A i \in Chunks : Hand(w, i)' => Hand(w, i) \/ row[i] # "none"
  BY DEF BatchInv, Hand, Inv3, time, Jobbing

LEMMA BeginSweep3 ==
    ASSUME Inv3, NEW w \in Sweepers, BeginSweep(w)
    PROVE  Good3
<1>1. /\ Good1 /\ Others(w) /\ ~running /\ sweep[w].pc = "idle"
      /\ sweep'[w] = [sweep[w] EXCEPT !.pc = "retry",
                          !.retries = {i \in Chunks : pend[i].state # "none"}]
  BY BeginSweepGood DEF Inv3
<1>2. sweep'[w].pc = "retry" /\ sweep'[w].todo = sweep[w].todo
  BY <1>1, Before DEF Sweeps, Inv3
<1>3. UNCHANGED <<captured, time, store, inflight, retrans, dropping, owed, faults>>
  BY DEF BeginSweep
<1>. QED
  BY <1>1, <1>2, <1>3, NoBatch3, Jobless3 DEF store

LEMMA RetryPending3 ==
    ASSUME Prompt, Inv3, NEW w \in Sweepers, RetryPending(w)
    PROVE  Good3
<1>1. /\ Good1 /\ Others(w) /\ sweep[w].pc = "retry"
      /\ UNCHANGED <<captured, time, file, row, attempts, text, renewed, inflight, running,
                     retrans, dropping, owed>>
  BY RetryPendingGood DEF Inv3
<1>2. PICK i \in sweep[w].retries : RetryDropped(w, i) \/ RetryTaken(w, i)
  BY RetryPendingGood DEF Inv3
<1>3. Active(w) /\ i \in Chunks
  BY <1>1, <1>2, Before DEF Active, Inv3
<1>4. ~Due(i)
  BY <1>1, <1>3, NoneDue3
<1>5. RetryDropped(w, i)
  BY <1>2, <1>4 DEF RetryTaken, Due
<1>6. sweep'[w].pc = "retry" /\ sweep'[w].todo = sweep[w].todo
  BY <1>1, <1>5, Before DEF RetryDropped, Sweeps, Inv3
<1>7. \A j \in Chunks : pend'[j] = pend[j] \/ pend'[j] = NoPend
  BY <1>5 DEF RetryDropped, Inv3, Inv1, Types, PendTypes
<1>. QED
  BY <1>1, <1>3, <1>6, <1>7, NoBatch3, Jobless3

LEMMA RetriesDone3 ==
    ASSUME Inv3, NEW w \in Sweepers, RetriesDone(w)
    PROVE  Good3
<1>1. /\ Good1 /\ Others(w) /\ sweep[w].pc = "retry"
      /\ UNCHANGED <<captured, time, store, inflight, running, retrans, dropping, owed>>
      /\ sweep'[w] = [sweep[w] EXCEPT !.pc = "query"]
  BY RetriesDoneGood DEF Inv3
<1>2. Active(w) /\ sweep'[w].pc = "query" /\ sweep'[w].todo = sweep[w].todo
  BY <1>1, Before DEF Sweeps, Inv3, Active
<1>. QED
  BY <1>1, <1>2, NoBatch3, Jobless3 DEF store

\* The end of a sweep.
LEMMA Ends3 ==
    ASSUME Inv3, Good1, NEW w \in Sweepers, sweep[w].pc \in {"query", "batch"}, Others(w),
           UNCHANGED <<captured, time, store, inflight, retrans, dropping, owed>>, sweep'[w] = Idle
    PROVE  Good3
<1>1. Active(w) /\ sweep'[w].pc = "idle" /\ sweep'[w].todo = {}
  BY DEF Active, Idle
<1>. QED
  BY <1>1, NoBatch3, Jobless3 DEF store

LEMMA Query3 ==
    ASSUME Inv3, NEW w \in Sweepers, QueryCandidates(w)
    PROVE  Good3
<1>1. /\ Good1 /\ Others(w) /\ sweep[w].pc = "query" /\ Active(w)
      /\ UNCHANGED <<captured, time, store, inflight, retrans, dropping, owed>>
      /\ \/ sweep'[w] = [sweep[w] EXCEPT !.pc = "batch", !.todo = Candidates]
         \/ sweep'[w] = Idle
  BY QueryGood DEF Inv3, Active
<1>2. CASE sweep'[w] = [sweep[w] EXCEPT !.pc = "batch", !.todo = Candidates]
  <2>1. sweep'[w].pc = "batch" /\ sweep'[w].todo = Candidates
    BY <1>2, Before DEF Sweeps, Inv3
  <2>2. \A i \in Candidates : i \in Chunks /\ row[i] = "pending" /\ i <= ripe
    BY DEF Candidates, Oldest, Candidate
  <2>3. Candidates \subseteq 1..ripe /\ ripe' = ripe
    <3>1. ripe \in Nat /\ Chunks \subseteq Nat \ {0}
      BY Constants DEF Inv3, Inv1, Types, TimeTypes
    <3>. QED
      BY <1>1, <2>2, <3>1 DEF time
  <2>4. BatchInv(w)'
    BY <2>1, <2>3 DEF BatchInv, Jobbing
  <2>5. \A i \in Chunks : Hand(w, i)' => Hand(w, i) \/ row[i] # "none"
    BY <2>1, <2>2 DEF Hand
  <2>. QED
    BY <1>1, <2>4, <2>5, Jobless3 DEF store
<1>3. CASE sweep'[w] = Idle
  BY <1>1, <1>3, Ends3
<1>. QED
  BY <1>1, <1>2, <1>3

LEMMA LastBatch3 ==
    ASSUME Inv3, NEW w \in Sweepers, LastBatch(w)
    PROVE  Good3
  BY LastBatchGood, Ends3 DEF Inv3

\* A step of w from a place where no batch is being stored.
LEMMA Rows3 ==
    ASSUME Inv3, Good1, NEW w \in Sweepers, Active(w), Others(w),
           sweep[w].pc \notin {"save", "store", "unpend", "clean"},
           UNCHANGED <<captured, time, pend, inflight>>,
           \A i \in Chunks : RowCalm(i) /\ file'[i] \in {file[i], NoFile},
           \A i \in Chunks : i > ripe => row'[i] = row[i] /\ text'[i] = text[i] /\ file'[i] = file[i],
           \A i \in Chunks : Hand(w, i)' => Hand(w, i) \/ row[i] # "none",
           BatchInv(w)'
    PROVE  Good3
<1>1. \A i, j \in Chunks : ~Merged(w, i, j)
  BY DEF Merged, Window
<1>2. \A i \in Chunks : ~Due(i)'
  BY NoneDue3, DueStays DEF Good1
<1>3. \A i \in Chunks : i > ripe /\ i <= captured => StillFresh(i)
  BY DEF StillFresh, Inv3, FreshInv
<1>. QED
  BY <1>1, <1>2, <1>3, Sweep3

\* The chunks of a sweep's batches are ripe.
LEMMA RipeOnly ==
    ASSUME Inv3, NEW S, S \subseteq 1..ripe
    PROVE  \A i \in Chunks : i > ripe => i \notin S
<1>1. ripe \in Nat /\ Chunks \subseteq Nat \ {0}
  BY Constants DEF Inv3, Inv1, Types, TimeTypes
<1>2. \A i \in Chunks : i > ripe => i \notin 1..ripe
  BY <1>1
<1>. QED
  BY <1>2

LEMMA ReadBatch3 ==
    ASSUME Inv3, NEW w \in Sweepers, ReadBatch(w)
    PROVE  Good3
<1>1. /\ Good1 /\ Others(w) /\ sweep[w].pc = "batch" /\ Active(w)
      /\ UNCHANGED <<captured, time, file, pend, renewed, inflight, running, retrans, dropping, owed>>
  BY ReadBatchGood DEF Inv3, Active
<1>2. PICK b : b = NextBatch(sweep[w].todo)
  OBVIOUS
<1>3. PICK V \in SUBSET Chunks : BatchRead(w, b, V)
  BY <1>2, ReadBatchGood DEF Inv3
<1>4. V \subseteq b /\ b \subseteq sweep[w].todo /\ sweep[w].todo \subseteq 1..ripe /\ b \subseteq 1..ripe
  BY <1>2, <1>3, NextBatchSmaller DEF BatchRead, Inv3, BatchInv
<1>5. \A i \in Chunks : RowSame(i) \/ (i \in b /\ RowGone(i))
  BY <1>3 DEF BatchRead
<1>6. /\ sweep'[w].pc \in {"batch", "stt"} /\ sweep'[w].todo = sweep[w].todo \ b
      /\ sweep'[w].valid = V
  BY <1>3, Before DEF BatchRead, Sweeps, Inv3
<1>7. BatchInv(w)'
  BY <1>1, <1>4, <1>6 DEF BatchInv, Jobbing, time
<1>8. \A i \in Chunks : Hand(w, i)' => Hand(w, i)
  BY <1>4, <1>6 DEF Hand
<1>9. \A i \in Chunks : i > ripe => row'[i] = row[i] /\ text'[i] = text[i] /\ file'[i] = file[i]
  BY <1>1, <1>4, <1>5, RipeOnly DEF RowSame
<1>. QED
  BY <1>1, <1>5, <1>7, <1>8, <1>9, Rows3 DEF RowCalm

LEMMA TranscribeFails3 ==
    ASSUME Inv3, NEW w \in Sweepers, TranscribeFails(w)
    PROVE  Good3
<1>1. /\ Good1 /\ Others(w) /\ sweep[w].pc = "stt" /\ Active(w)
      /\ UNCHANGED <<captured, time, file, text, pend, renewed, inflight, running, retrans, dropping, owed>>
      /\ sweep'[w] = [sweep[w] EXCEPT !.pc = "batch"]
  BY TranscribeFailsGood DEF Inv3, Active
<1>2. PICK recorded \in SUBSET Chunks : RecordFailed(recorded) /\ recorded \subseteq 1..ripe
  BY <1>1, Before DEF TranscribeFails, Inv3, BatchInv
<1>3. \A i \in Chunks : IF i \in recorded /\ Alive(i) THEN RowTried(i) ELSE RowSame(i)
  BY <1>1, <1>2, RecordFailedMoves DEF Inv3, Inv1, Types
<1>4. sweep'[w].pc = "batch" /\ sweep'[w].todo = sweep[w].todo
  BY <1>1, Before DEF Sweeps, Inv3
<1>5. \A i \in Chunks : i > ripe => row'[i] = row[i] /\ text'[i] = text[i] /\ file'[i] = file[i]
  BY <1>1, <1>2, <1>3, RipeOnly DEF RowSame
<1>6. \A i \in Chunks : RowCalm(i) /\ file'[i] \in {file[i], NoFile}
  BY <1>1, <1>3 DEF RowCalm
<1>. QED
  BY <1>1, <1>4, <1>5, <1>6, NoBatch3, Rows3

LEMMA BatchSilent3 ==
    ASSUME Inv3, NEW w \in Sweepers, BatchSilent(w)
    PROVE  Good3
<1>1. /\ Good1 /\ Others(w) /\ sweep[w].pc = "stt" /\ Active(w)
      /\ UNCHANGED <<captured, time, pend, renewed, inflight, running, retrans, dropping, owed>>
  BY BatchSilentGood DEF Inv3, Active
<1>2. PICK n \in 0..(MaxDbErrors + 1) : sweep'[w] = [sweep[w] EXCEPT !.pc = "batch", !.errs = n]
  BY BatchSilentGood DEF Inv3
<1>3. sweep[w].valid \subseteq 1..ripe
  BY <1>1 DEF Inv3, BatchInv
<1>4. sweep'[w].pc = "batch" /\ sweep'[w].todo = sweep[w].todo
  BY <1>2, Before DEF Sweeps, Inv3
<1>5. /\ \A i \in Chunks : RowSame(i) \/ RowGone(i) \/ RowSilent(i)
      /\ \A i \in Chunks : file'[i] \in {file[i], NoFile}
      /\ \A i \in Chunks : i \notin sweep[w].valid => RowSame(i) /\ file'[i] = file[i]
  <2>1. CASE UNCHANGED store
    BY <2>1 DEF store, RowSame
  <2>2. ASSUME NEW O \in SUBSET sweep[w].valid, SilentRows(O, sweep[w].valid)
        PROVE  \A i \in Chunks :
                  /\ RowSame(i) \/ RowGone(i) \/ RowSilent(i)
                  /\ file'[i] \in {file[i], NoFile}
                  /\ i \notin sweep[w].valid => RowSame(i) /\ file'[i] = file[i]
    BY <2>2 DEF SilentRows
  <2>. QED
    BY <2>1, <2>2, BatchSilentGood DEF Inv3
<1>6. \A i \in Chunks : i > ripe => row'[i] = row[i] /\ text'[i] = text[i] /\ file'[i] = file[i]
  BY <1>3, <1>5, RipeOnly DEF RowSame
<1>. QED
  BY <1>1, <1>4, <1>5, <1>6, NoBatch3, Rows3 DEF RowCalm

\* The audio of a batch holds no segment twice: its chunks claim different ones.
LEMMA NoPairs ==
    ASSUME Inv3, NEW w \in Sweepers, Active(w), sweep[w].pc \notin {"save", "store", "unpend", "clean"}
    PROVE  \A i, j \in Chunks : ~Pair(i, j) /\ (i # j => Claim(i) \cap Claim(j) = {})
<1>1. \A v \in Sweepers : Window(v) => v = w
  BY DEF Window, Active, Inv3, Inv1, SweepInv, Solo
<1>2. \A i, j \in Chunks : ~Pair(i, j)
  BY <1>1 DEF Pair, Merged, Window
<1>. QED
  BY <1>2 DEF Inv3, ApartInv

LEMMA JoinedOnce ==
    ASSUME Inv3, NEW w \in Sweepers, sweep[w].pc \in {"stt", "merge"}
    PROVE  /\ sweep[w].audio.again = {}
           /\ sweep[w].audio.segs = UNION {file[i].segs : i \in sweep[w].valid}
           /\ \A i \in sweep[w].valid : i \in Chunks /\ i \in file[i].segs /\ Held(i) = file[i].segs
<1>1. /\ sweep[w].valid \in SUBSET Chunks /\ sweep[w].audio = Joined(sweep[w].valid)
      /\ \A i \in sweep[w].valid : file[i] # NoFile
  BY Before DEF Sound, Inv3
<1>2. \A i \in sweep[w].valid : i \in Chunks /\ i \in file[i].segs /\ Held(i) = file[i].segs
  BY <1>1 DEF Held, InHand, Hand, Inv3, Inv1, AudioInv
<1>3. \A i \in sweep[w].valid : file[i].again = {}
  BY <1>2 DEF Inv3, Once
<1>4. \A i, j \in sweep[w].valid : i # j => file[i].segs \cap file[j].segs = {}
  BY <1>2, NoPairs DEF Claim, Active
<1>. QED
  BY <1>1, <1>2, <1>3, <1>4 DEF Joined

LEMMA Transcribed3 ==
    ASSUME Inv3, NEW w \in Sweepers, Transcribed(w)
    PROVE  Good3
<1>1. /\ Good1 /\ Others(w) /\ sweep[w].pc = "stt" /\ Active(w)
      /\ UNCHANGED <<captured, time, store, inflight, running, retrans, dropping, owed>>
  BY TranscribedGood DEF Inv3, Active
<1>2. PICK p \in sweep[w].valid : LET rest == sweep[w].valid \ {p} IN
         sweep'[w] = [sweep[w] EXCEPT !.pc = IF rest # {} THEN "merge" ELSE "save",
            !.retrying = FALSE,
            !.job = [chunk |-> p, heard |-> Heard(sweep[w].audio), secs |-> rest]]
  BY TranscribedGood DEF Inv3
<1>3. /\ sweep'[w].pc \in {"merge", "save"} /\ sweep'[w].retrying = FALSE
      /\ sweep'[w].todo = sweep[w].todo /\ sweep'[w].valid = sweep[w].valid
      /\ sweep'[w].job = [chunk |-> p, heard |-> Heard(sweep[w].audio), secs |-> sweep[w].valid \ {p}]
  BY <1>2, Before DEF Sweeps, Inv3
<1>4. /\ Job(w)'.chunk = p /\ Job(w)'.heard = Heard(sweep[w].audio)
      /\ Job(w)'.secs = sweep[w].valid \ {p}
  BY <1>3 DEF Job
<1>5. /\ sweep[w].valid \subseteq 1..ripe /\ sweep[w].valid \cap sweep[w].todo = {}
      /\ sweep[w].todo \subseteq 1..ripe /\ file[p] # NoFile
  BY <1>1, Before DEF Inv3, BatchInv, Sound
<1>6. Job(w)'.heard.again = {}
  BY <1>1, <1>4, JoinedOnce DEF Heard
<1>7. BatchInv(w)'
  <2>1. ripe' = ripe /\ file' = file
    BY <1>1 DEF time, store
  <2>2. sweep'[w].todo \subseteq 1..ripe' /\ sweep'[w].valid \subseteq 1..ripe'
        /\ sweep'[w].valid \cap sweep'[w].todo = {}
    BY <1>3, <1>5, <2>1
  <2>3. /\ Job(w)'.chunk \in 1..ripe' \ (sweep'[w].todo \cup Job(w)'.secs)
        /\ Job(w)'.secs \subseteq 1..ripe'
        /\ file'[Job(w)'.chunk] # NoFile
    BY <1>3, <1>4, <1>5, <2>1
  <2>. QED
    BY <1>3, <1>6, <2>2, <2>3 DEF BatchInv
<1>8. \A i \in Chunks : Hand(w, i)' => Hand(w, i)
  BY <1>1, <1>3 DEF Hand
<1>. QED
  BY <1>1, <1>7, <1>8, Jobless3 DEF store

\* The merge gives the first chunk what the others claim, as one of a pair with each.
LEMMA Merge3 ==
    ASSUME Inv3, NEW w \in Sweepers, Merge(w)
    PROVE  Good3
<1>1. /\ Good1 /\ Others(w) /\ sweep[w].pc = "merge" /\ Active(w)
      /\ UNCHANGED <<captured, time, row, attempts, text, pend, renewed, inflight, running,
                     retrans, dropping, owed>>
  BY MergeGood DEF Inv3, Active
<1>2. PICK p : p = Job(w).chunk
  OBVIOUS
<1>3. /\ p \in sweep[w].valid /\ Job(w).secs = sweep[w].valid \ {p} /\ p \in Chunks
      /\ sweep[w].valid \subseteq 1..ripe /\ sweep[w].valid \subseteq Chunks
  BY <1>1, <1>2, Before DEF Sound, Inv3, BatchInv
<1>4. \A i \in Chunks : RowSame(i)
  BY <1>1 DEF RowSame
<1>5. ASSUME file'[p] \in {file[p], NoFile}, \A i \in Chunks \ {p} : file'[i] = file[i],
             sweep'[w] = [sweep[w] EXCEPT !.pc = "batch"]
      PROVE  Good3
  <2>1. sweep'[w].pc = "batch" /\ sweep'[w].todo = sweep[w].todo
    BY <1>5, Before DEF Sweeps, Inv3
  <2>2. \A i \in Chunks : i > ripe => row'[i] = row[i] /\ text'[i] = text[i] /\ file'[i] = file[i]
    BY <1>3, <1>4, <1>5, RipeOnly DEF RowSame
  <2>3. \A i \in Chunks : RowCalm(i) /\ file'[i] \in {file[i], NoFile}
    BY <1>4, <1>5 DEF RowCalm
  <2>. QED
    BY <1>1, <2>1, <2>2, <2>3, NoBatch3, Rows3
<1>6. CASE /\ file' = [file EXCEPT ![p] = sweep[w].audio]
           /\ sweep'[w] = [sweep[w] EXCEPT !.pc = "save"]
  <2>1. /\ sweep'[w].pc = "save" /\ sweep'[w].todo = sweep[w].todo /\ Job(w)' = Job(w)
        /\ sweep'[w].retrying = sweep[w].retrying
    BY <1>6, Before DEF Sweeps, Inv3, Job
  <2>2. /\ file'[p] = sweep[w].audio /\ \A i \in Chunks \ {p} : file'[i] = file[i]
    BY <1>3, <1>6 DEF Inv3, Inv1, Types, FileTypes
  <2>3. \A v \in Sweepers \ {w} : sweep[v].pc = "idle" /\ sweep'[v] = sweep[v]
    BY <1>1, OneSweeps DEF Inv3, Inv1
  <2>4. \A i \in Chunks : InHand(i)' => InHand(i)
    BY <2>1, <2>3 DEF InHand, Hand
  <2>5. \A i \in Chunks \ {p} : Claim(i)' \subseteq Claim(i) /\ Once(i)'
    BY <1>1, <1>4, <2>2, <2>4, ClaimShrinks DEF Calm, Good1
  <2>6. Claim(p)' \subseteq UNION {Claim(i) : i \in sweep[w].valid} /\ Once(p)'
    <3>1. /\ Words(p)' = Words(p) /\ Asked(p)' = Asked(p) /\ Held(p)' \subseteq sweep[w].audio.segs
          /\ text'[p] = text[p] /\ retrans' = retrans
      BY <1>1, <2>2 DEF Words, Said, Asked, Held
    <3>2. \A i \in sweep[w].valid : file[i].segs \subseteq Claim(i)
      BY <1>1, JoinedOnce DEF Claim
    <3>3. sweep[w].audio.segs = UNION {file[i].segs : i \in sweep[w].valid} /\ sweep[w].audio.again = {}
      BY <1>1, JoinedOnce
    <3>4. sweep[w].audio.segs \subseteq UNION {Claim(i) : i \in sweep[w].valid}
      BY <3>2, <3>3
    <3>5. Claim(p)' \subseteq UNION {Claim(i) : i \in sweep[w].valid}
      BY <1>3, <3>1, <3>4 DEF Claim
    <3>6. Once(p)'
      <4>1. Once(p)
        BY <1>3 DEF Inv3
      <4>. QED
        BY <2>2, <3>1, <3>3, <4>1 DEF Once
    <3>. QED
      BY <3>5, <3>6
  <2>7. \A i, j \in Chunks : i # j => Claim(i) \cap Claim(j) = {}
    BY <1>1, NoPairs
  <2>8. \A j \in Job(w).secs : Pair(p, j)'
    BY <1>2, <2>1 DEF Pair, Merged, Window
  <2>9. ApartInv'
    <3>1. \A i \in Chunks : Claim(i)' \subseteq 1..captured'
      BY <1>1, <1>3, <2>5, <2>6 DEF Inv3, ApartInv
    <3>2. \A j \in Chunks \ {p} : Claim(p)' \cap Claim(j)' = {} \/ Pair(p, j)'
      <4>1. ASSUME NEW j \in Chunks \ {p}, j \notin sweep[w].valid
            PROVE  Claim(p)' \cap Claim(j)' = {}
        <5>1. \A i \in sweep[w].valid : Claim(i) \cap Claim(j) = {}
          BY <1>3, <2>7, <4>1
        <5>2. Claim(j)' \subseteq Claim(j)
          BY <2>5
        <5>. QED
          BY <2>6, <5>1, <5>2
      <4>. QED
        BY <1>3, <2>8, <4>1
    <3>3. \A i, j \in Chunks \ {p} : i # j => Claim(i)' \cap Claim(j)' = {}
      BY <2>5, <2>7
    <3>4. ASSUME NEW i \in Chunks, NEW j \in Chunks, i # j
          PROVE  Claim(i)' \cap Claim(j)' = {} \/ Pair(i, j)' \/ Pair(j, i)'
      <4>1. CASE i = p
        BY <3>2, <3>4, <4>1
      <4>2. CASE j = p
        BY <3>2, <3>4, <4>2
      <4>3. CASE i # p /\ j # p
        BY <3>3, <3>4, <4>3
      <4>. QED
        BY <4>1, <4>2, <4>3
    <3>. QED
      BY <3>1, <3>4 DEF ApartInv
  <2>10. FreshInv'
    <3>1. captured' = captured /\ ripe' = ripe /\ inflight' = inflight
      BY <1>1 DEF time
    <3>2. captured \in Nat /\ ripe \in Nat /\ Chunks \subseteq Nat \ {0}
      BY Constants DEF Inv3, Inv1, Types, TimeTypes
    <3>3. ripe' >= ripe /\ \A i \in Chunks : ~(i <= captured) => i > captured'
      BY <3>1, <3>2
    <3>4. \A k \in inflight' : k > ripe'
      BY <3>1 DEF Inv3, FreshInv
    <3>5. \A i \in Chunks : i > ripe => i # p
      BY <1>3, RipeOnly
    <3>6. \A i \in Chunks : i > ripe /\ i <= captured => StillFresh(i)
      BY <1>1, <2>2, <3>5 DEF StillFresh, Inv3, FreshInv
    <3>7. \A i \in Chunks : i > ripe' =>
             IF i <= captured THEN StillFresh(i) ELSE Born(i) \/ i > captured'
      BY <3>1, <3>3, <3>6
    <3>. QED
      BY <1>1, <3>3, <3>4, <3>7, FreshKept
  <2>11. DueInv'
    <3>1. \A i \in Chunks : ~Due(i)'
      BY <1>1, NoneDue3, DueStays DEF Good1
    <3>. QED
      BY <3>1 DEF DueInv
  <2>12. \A v \in Sweepers : BatchInv(v)'
    <3>1. file'[p] # NoFile
      BY <1>1, <1>3, <2>2, JoinedOnce DEF NoFile
    <3>2. BatchInv(w) /\ ripe' = ripe
      BY <1>1 DEF Inv3, time
    <3>3. BatchInv(w)'
      BY <1>1, <1>2, <2>1, <3>1, <3>2 DEF BatchInv, Jobbing
    <3>4. ASSUME NEW v \in Sweepers \ {w}
          PROVE  BatchInv(v)'
      <4>1. BatchInv(v)
        BY DEF Inv3
      <4>. QED
        BY <2>3, <3>2, <4>1 DEF BatchInv, Jobbing
    <3>. QED
      BY <3>3, <3>4
  <2>. QED
    BY <2>5, <2>6, <2>9, <2>10, <2>11, <2>12 DEF Good3
<1>7. CASE UNCHANGED file /\ sweep'[w] = [sweep[w] EXCEPT !.pc = "batch"]
  BY <1>5, <1>7
<1>8. CASE /\ file' = [file EXCEPT ![p] = NoFile]
           /\ sweep'[w] = [sweep[w] EXCEPT !.pc = "batch"]
  BY <1>3, <1>5, <1>8 DEF Inv3, Inv1, Types, FileTypes
<1>. QED
  BY <1>2, <1>6, <1>7, <1>8, MergeGood DEF Inv3

LEMMA SavePending3 ==
    ASSUME Inv3, NEW w \in Sweepers, SavePending(w)
    PROVE  Good3
<1>1. /\ Good1 /\ Others(w) /\ sweep[w].pc = "save" /\ Active(w)
      /\ UNCHANGED <<captured, time, file, row, attempts, text, renewed, inflight, running,
                     retrans, dropping, owed>>
      /\ \A i \in Chunks : i # Job(w).chunk => pend'[i] = pend[i]
      /\ sweep'[w] = [sweep[w] EXCEPT !.pc = "store"]
  BY SavePendingGood DEF Inv3, Inv1, Types, PendTypes, Active
<1>2. /\ sweep'[w].pc = "store" /\ sweep'[w].todo = sweep[w].todo /\ sweep'[w].job = sweep[w].job
      /\ sweep'[w].retrying = sweep[w].retrying
  BY <1>1, Before DEF Sweeps, Inv3
<1>3. \A i \in Chunks : Hand(w, i)' => Hand(w, i)
  BY <1>2 DEF Hand
<1>4. \A i, j \in Chunks : Merged(w, i, j) => Merged(w, i, j)'
  BY <1>2 DEF Merged, Window, Job
<1>5. \A i \in Chunks : Due(i)' => i = sweep'[w].job.chunk
  BY <1>1, <1>2, NoneDue3, DueStays DEF Good1, Job
<1>6. BatchInv(w)'
  BY <1>1, <1>2 DEF Inv3, BatchInv, Jobbing, Job, time
<1>. QED
  BY <1>1, <1>2, <1>3, <1>4, <1>5, <1>6, Quiet3

LEMMA StoreText3 ==
    ASSUME Inv3, NEW w \in Sweepers, StoreText(w)
    PROVE  Good3
<1>1. /\ Good1 /\ Others(w) /\ sweep[w].pc = "store" /\ Active(w)
      /\ UNCHANGED <<captured, time, file, pend, renewed, inflight, running, retrans, dropping, owed>>
      /\ RowTold(Job(w).chunk, Job(w).heard)
      /\ \A i \in Chunks \ {Job(w).chunk} : RowSame(i)
      /\ sweep'[w] = [sweep[w] EXCEPT !.pc = "unpend"]
  BY StoreTextGood DEF Inv3, Active
<1>2. /\ sweep'[w].pc = "unpend" /\ sweep'[w].todo = sweep[w].todo /\ sweep'[w].job = sweep[w].job
      /\ sweep'[w].retrying = sweep[w].retrying
  BY <1>1, Before DEF Sweeps, Inv3
<1>3. PICK p \in Chunks : p = Job(w).chunk
  BY <1>1, JobKnown DEF Inv3, Jobbing
<1>4. PICK t \in Texts : t = Job(w).heard
  BY <1>1, JobKnown DEF Inv3, Jobbing
<1>5. t.again = {} /\ file[p] # NoFile /\ p \in 1..ripe
  BY <1>1, <1>3, <1>4 DEF Inv3, BatchInv, Jobbing
<1>6. t.segs \subseteq file[p].segs
  BY <1>1, <1>3, <1>4, <1>5, Before DEF Inv3, Sound, Within
<1>7. Held(p) = file[p].segs
  BY <1>1, <1>3 DEF Held, RowTold, Alive
<1>8. Retold(p)
  BY <1>1, <1>3, <1>4, <1>5, <1>6, <1>7 DEF Retold
<1>9. \A i \in Chunks : RowCalm(i) /\ file'[i] \in {file[i], NoFile}
  BY <1>1, <1>3, <1>8 DEF RowCalm
<1>10. \A i \in Chunks : i > ripe /\ i <= captured => StillFresh(i)
  <2>1. \A i \in Chunks : i > ripe => i # p
    BY <1>5, RipeOnly
  <2>. QED
    BY <1>1, <1>3, <2>1 DEF StillFresh, RowSame, Inv3, FreshInv
<1>11. \A i \in Chunks : Hand(w, i)' => Hand(w, i)
  BY <1>2 DEF Hand
<1>12. \A i, j \in Chunks : Merged(w, i, j) => Merged(w, i, j)'
  BY <1>1, <1>2 DEF Merged, Window, Job
<1>13. \A i \in Chunks : Due(i)' => i = sweep'[w].job.chunk
  BY <1>1, <1>2, NoneDue3, DueStays DEF Good1, Job
<1>14. BatchInv(w)'
  BY <1>1, <1>2 DEF Inv3, BatchInv, Jobbing, Job, time
<1>. QED
  BY <1>1, <1>2, <1>9, <1>10, <1>11, <1>12, <1>13, <1>14, Sweep3

\* A batch whose first chunk is gone has nobody left who could tell its text.
LEMMA StoreFails3 ==
    ASSUME Prompt, Inv3, NEW w \in Sweepers, StoreFails(w)
    PROVE  Good3
<1>1. /\ Good1 /\ Others(w) /\ sweep[w].pc = "store" /\ Active(w) /\ ~Alive(Job(w).chunk)
      /\ UNCHANGED <<captured, time, store, inflight, running, retrans, dropping, owed>>
      /\ sweep'[w] = Finalized(sweep[w], sweep[w].errs + 1)
  BY StoreFailsGood DEF Prompt, Inv3, Active
<1>2. PICK p \in Chunks : p = Job(w).chunk
  BY <1>1, JobKnown DEF Inv3, Jobbing
<1>3. ~sweep[w].retrying /\ p \notin sweep[w].todo
  BY <1>1, <1>2 DEF Inv3, BatchInv, Jobbing
<1>4. sweep'[w].pc = "batch" /\ sweep'[w].todo = sweep[w].todo
  BY <1>1, <1>3, Before DEF Finalized, Sweeps, Inv3
<1>5. BatchInv(w)' /\ \A i \in Chunks : Hand(w, i)' => Hand(w, i) \/ row[i] # "none"
  BY <1>1, <1>4, NoBatch3
<1>6. Claim(p)' = {}
  <2>1. row'[p] = "none"
    BY <1>1, <1>2 DEF Alive, store, Inv3, FreshInv
  <2>2. \A v \in Sweepers \ {w} : sweep[v].pc = "idle" /\ sweep'[v] = sweep[v]
    BY <1>1, OneSweeps DEF Inv3, Inv1
  <2>3. ~InHand(p)'
    BY <1>3, <1>4, <2>2 DEF InHand, Hand, Inv3, BatchInv
  <2>. QED
    BY <2>1, <2>3 DEF Claim, Held, Words, Asked
<1>7. \A i, j \in Chunks : Merged(w, i, j) => Claim(i)' = {}
  BY <1>2, <1>6 DEF Merged
<1>8. \A i \in Chunks : ~Due(i)'
  <2>1. \A i \in Chunks : Due(i) => FALSE
    BY <1>1, NoneDue3 DEF Due
  <2>. QED
    BY <1>1, <2>1, DueStays DEF Good1, store
<1>. QED
  BY <1>1, <1>5, <1>7, <1>8, Quiet3 DEF store

LEMMA RemovePending3 ==
    ASSUME Inv3, NEW w \in Sweepers, RemovePending(w)
    PROVE  Good3
<1>1. /\ Good1 /\ Others(w) /\ sweep[w].pc = "unpend" /\ Active(w)
      /\ UNCHANGED <<captured, time, file, row, attempts, text, renewed, inflight, running,
                     retrans, dropping, owed>>
      /\ pend' = [pend EXCEPT ![Job(w).chunk] = NoPend]
      /\ sweep'[w] = [sweep[w] EXCEPT !.pc = "clean"]
  BY RemovePendingGood DEF Inv3, Active
<1>2. /\ sweep'[w].pc = "clean" /\ sweep'[w].todo = sweep[w].todo /\ sweep'[w].job = sweep[w].job
      /\ sweep'[w].retrying = sweep[w].retrying
  BY <1>1, Before DEF Sweeps, Inv3
<1>3. \A i \in Chunks : Hand(w, i)' => Hand(w, i)
  BY <1>2 DEF Hand
<1>4. \A i, j \in Chunks : Merged(w, i, j) => Merged(w, i, j)'
  BY <1>2 DEF Merged, Window, Job
<1>5. ASSUME NEW i \in Chunks
      PROVE  ~Due(i)'
  <2>1. CASE i = Job(w).chunk
    BY <1>1, <2>1, Recorded DEF Due, Inv3, Inv1, Types, PendTypes
  <2>2. CASE i # Job(w).chunk
    <3>1. pend'[i] = pend[i] /\ ~Due(i)
      BY <1>1, <2>2, NoneDue3 DEF Inv3, Inv1, Types, PendTypes
    <3>. QED
      BY <1>1, <3>1, DueStays DEF Good1
  <2>. QED
    BY <2>1, <2>2
<1>6. BatchInv(w)'
  BY <1>1, <1>2 DEF Inv3, BatchInv, Jobbing, Job, time
<1>. QED
  BY <1>1, <1>3, <1>4, <1>5, <1>6, Quiet3

\* The other chunks of the batch claim nothing once they are deleted.
LEMMA Delete3 ==
    ASSUME Prompt, Inv3, NEW w \in Sweepers, DeleteSecondaries(w)
    PROVE  Good3
<1>1. /\ Good1 /\ Others(w) /\ sweep[w].pc = "clean" /\ Active(w)
      /\ UNCHANGED <<captured, time, pend, renewed, inflight, running, retrans, dropping, owed>>
      /\ \A i \in Chunks : IF i \in Job(w).secs /\ Alive(i) THEN RowGone(i) ELSE RowSame(i)
      /\ \A i \in Chunks :
            file'[i] = IF i \in Job(w).secs /\ ~sweep[w].retrying THEN NoFile ELSE file[i]
      /\ sweep'[w] = Finalized(sweep[w], 0)
  BY DeleteGood DEF Prompt, Inv3, Active
<1>2. ~sweep[w].retrying /\ Job(w).secs \subseteq 1..ripe
  BY <1>1 DEF Inv3, BatchInv, Jobbing
<1>3. sweep'[w].pc = "batch" /\ sweep'[w].todo = sweep[w].todo
  BY <1>1, <1>2, Before DEF Finalized, Sweeps, Inv3
<1>4. BatchInv(w)' /\ \A i \in Chunks : Hand(w, i)' => Hand(w, i) \/ row[i] # "none"
  BY <1>1, <1>3, NoBatch3
<1>5. \A j \in Chunks : j \in Job(w).secs => Claim(j)' = {}
  <2>1. ASSUME NEW j \in Chunks, j \in Job(w).secs
        PROVE  row'[j] = "none" /\ file'[j] = NoFile
    BY <1>1, <1>2, <2>1 DEF RowGone, RowSame, Alive, Inv3, FreshInv
  <2>. QED
    BY <2>1 DEF Claim, Held, Words, Asked, NoFile
<1>6. \A i, j \in Chunks : Merged(w, i, j) => Claim(j)' = {}
  BY <1>5 DEF Merged
<1>7. \A i \in Chunks : ~Due(i)'
  BY <1>1, NoneDue3, DueStays DEF Good1
<1>8. \A i \in Chunks : RowCalm(i) /\ file'[i] \in {file[i], NoFile}
  BY <1>1 DEF RowCalm
<1>9. \A i \in Chunks : i > ripe /\ i <= captured => StillFresh(i)
  <2>1. \A i \in Chunks : i > ripe => i \notin Job(w).secs
    BY <1>2, RipeOnly
  <2>. QED
    BY <1>1, <2>1 DEF StillFresh, RowSame, Inv3, FreshInv
<1>. QED
  BY <1>1, <1>4, <1>6, <1>7, <1>8, <1>9, Sweep3

-----------------------------------------------------------------------------
\* A drop is of a chunk that was ripe when it was asked for.
LEMMA DropsRipe ==
    ASSUME Inv3, [Next]_vars
    PROVE  dropping'.chunk <= ripe'
<1>1. /\ dropping.chunk <= ripe /\ ripe \in Nat /\ ripe + 1 \in Nat /\ dropping.chunk \in Nat
      /\ Chunks \subseteq Nat
  <2>1. dropping \in Drops /\ ripe \in Nat /\ dropping.chunk <= ripe
    BY Constants DEF Inv3, Inv1, Types, RestTypes, TimeTypes
  <2>2. dropping.chunk \in Nat
    <3>1. CASE dropping = NoDrop
      BY <3>1, Recorded
    <3>2. CASE dropping # NoDrop
      <4>1. dropping.chunk \in Chunks
        BY <2>1, <3>2 DEF Drops
      <4>. QED
        BY <4>1, Constants
    <3>. QED
      BY <3>1, <3>2
  <2>. QED
    BY <2>1, <2>2, Constants
<1>2. \/ UNCHANGED <<ripe, dropping>>
      \/ dropping' = dropping /\ ripe' = ripe + 1
      \/ dropping' = NoDrop /\ ripe' = ripe
      \/ \E k \in Chunks : dropping'.chunk = k /\ k <= ripe /\ ripe' = ripe
  <2>1. ASSUME NEW w \in Sweepers, BeginSweep(w) \/ Sweep(w)
        PROVE  UNCHANGED <<ripe, dropping>>
    BY <2>1 DEF BeginSweep, Sweep, RetryPending, RetriesDone, QueryCandidates, LastBatch, ReadBatch,
       TranscribeFails, BatchSilent, Transcribed, Merge, SavePending, StoreText, StoreFails,
       RemovePending, DeleteSecondaries, time
  <2>2. CASE \E k \in Chunks : DropCheck(k)
    BY <2>2 DEF DropCheck, Candidate, time
  <2>3. CASE Ripen
    BY <2>3 DEF Ripen
  <2>4. CASE DropDelete \/ Crash
    BY <2>4 DEF DropDelete, Crash, time
  <2>5. CASE \/ Capture \/ GoStale \/ RetranscribeStore \/ UNCHANGED vars
             \/ \E k \in Chunks : LiveInsert(k) \/ RetranscribeRead(k)
    BY <2>5 DEF Capture, GoStale, RetranscribeStore, LiveInsert, RetranscribeRead, time, vars
  <2>. QED
    BY <2>1, <2>2, <2>3, <2>4, <2>5 DEF Next
<1>. QED
  BY <1>1, <1>2, Recorded

LEMMA Step3 ==
    ASSUME Prompt, Inv3, [Next]_vars
    PROVE  Inv3'
<1>1. Inv1' /\ dropping'.chunk <= ripe'
  BY Step1, DropsRipe DEF Inv3
<1>2. CASE UNCHANGED vars
  <2>1. /\ UNCHANGED <<captured, ripe, file, row, text, pend, renewed, inflight, sweep, retrans, dropping>>
    BY <1>2 DEF vars, time, store
  <2>2. (\A i \in Chunks : InHand(i)' <=> InHand(i)) /\ (\A i, j \in Chunks : Pair(i, j)' <=> Pair(i, j))
    BY <2>1 DEF InHand, Hand, Pair, Merged, Window, Job
  <2>3. \A i \in Chunks : Claim(i)' = Claim(i) /\ Held(i)' = Held(i) /\ Once(i)' = Once(i)
    BY <2>1, <2>2 DEF Claim, Held, Words, Said, Asked, Once
  <2>4. ApartInv' /\ \A i \in Chunks : Once(i)'
    BY <2>1, <2>2, <2>3 DEF Inv3, ApartInv
  <2>5. FreshInv' /\ DueInv' /\ \A w \in Sweepers : BatchInv(w)'
    BY <2>1 DEF Inv3, FreshInv, DueInv, Due, Alive, BatchInv, Job
  <2>. QED
    BY <1>1, <2>4, <2>5 DEF Inv3
<1>3. CASE Next
  <2>1. Capture \/ Ripen \/ GoStale => Good3
    BY Capture3, Time3
  <2>2. ASSUME NEW k \in Chunks, LiveInsert(k) \/ DropCheck(k) \/ RetranscribeRead(k)
        PROVE  Good3
    BY <2>2, LiveInsert3, DropCheck3, RetranscribeRead3
  <2>3. RetranscribeStore \/ DropDelete => Good3
    BY RetranscribeStore3, DropDelete3
  <2>4. ~Crash
    BY DEF Crash, Hit, Prompt
  <2>5. ASSUME NEW w \in Sweepers, BeginSweep(w) \/ Sweep(w)
        PROVE  Good3
    <3>1. ASSUME \/ BeginSweep(w) \/ RetryPending(w) \/ RetriesDone(w) \/ QueryCandidates(w)
                 \/ LastBatch(w) \/ ReadBatch(w) \/ TranscribeFails(w) \/ BatchSilent(w)
          PROVE  Good3
      BY <3>1, BeginSweep3, RetryPending3, RetriesDone3, Query3, LastBatch3, ReadBatch3,
         TranscribeFails3, BatchSilent3
    <3>2. ASSUME \/ Transcribed(w) \/ Merge(w) \/ SavePending(w) \/ StoreText(w) \/ StoreFails(w)
                 \/ RemovePending(w) \/ DeleteSecondaries(w)
          PROVE  Good3
      BY <3>2, Transcribed3, Merge3, SavePending3, StoreText3, StoreFails3, RemovePending3, Delete3
    <3>. QED
      BY <2>5, <3>1, <3>2 DEF Sweep
  <2>6. Good3
    BY <1>3, <2>1, <2>2, <2>3, <2>4, <2>5 DEF Next
  <2>. QED
    BY <1>1, <2>6 DEF Inv3, Good3
<1>. QED
  BY <1>2, <1>3

LEMMA Start3 ==
    ASSUME Init
    PROVE  Inv3
<1>1. Inv1
  BY Start1
<1>2. \A w \in Sweepers : sweep[w] = Idle /\ sweep[w].pc = "idle" /\ sweep[w].todo = {}
  BY DEF Init, Idle
<1>3. ApartInv /\ \A i \in Chunks : Once(i)
  <2>1. \A i \in Chunks : Claim(i) = {} /\ Held(i) = {}
    BY Recorded DEF Init, Claim, Held, Words, Asked, NoFile
  <2>2. \A i \in Chunks : text[i] = {} /\ retrans.chunk # i
    BY Recorded, Constants DEF Init
  <2>. QED
    BY <2>1, <2>2 DEF ApartInv, Once
<1>4. FreshInv /\ DueInv
  BY Recorded, Constants DEF Init, FreshInv, DueInv, Due
<1>5. \A w \in Sweepers : BatchInv(w)
  BY <1>2 DEF BatchInv, Jobbing
<1>6. dropping.chunk <= ripe
  BY Recorded DEF Init
<1>. QED
  BY <1>1, <1>3, <1>4, <1>5, <1>6 DEF Inv3

\* Two chunks claim different speech, except between the merge of a batch and the deletion
\* of its other chunks; no recording and no text has a segment twice.
THEOREM ClaimsApart ==
    ASSUME Prompt
    PROVE  Spec => []Inv3
<1>1. Init => Inv3
  BY Start3
<1>2. Inv3 /\ [Next]_vars => Inv3'
  BY Step3
<1>. QED
  BY <1>1, <1>2, PTL DEF Spec

\* While nobody sweeps, no speech is told twice, neither by two chunks nor twice by one.
THEOREM ToldOnce ==
    ASSUME Prompt
    PROVE  Spec => []TextOnce
<1>1. Inv3 => TextOnce
  <2>. SUFFICES ASSUME Inv3, ~running, NEW i \in Chunks, NEW j \in Chunks,
                        NEW t \in text[i], NEW u \in text[j]
                 PROVE  t.again = {} /\ ((i # j \/ t # u) => t.segs \cap u.segs = {})
    BY DEF TextOnce
  <2>2. \A v \in Sweepers : ~Window(v)
    BY DEF Inv3, Inv1, SweepInv, Sound, Active, Window
  <2>3. t.again = {} /\ (i = j => t = u)
    BY DEF Inv3, Once
  <2>4. t.segs \subseteq Claim(i) /\ u.segs \subseteq Claim(j)
    <3>1. row[i] # "none" /\ row[j] # "none"
      BY DEF Inv3, Inv1, RowInv
    <3>. QED
      BY <3>1 DEF Claim, Words, Said
  <2>5. i # j => Claim(i) \cap Claim(j) = {}
    BY <2>2 DEF Inv3, ApartInv, Pair, Merged
  <2>. QED
    BY <2>3, <2>4, <2>5
<1>. QED
  BY <1>1, ClaimsApart, PTL
=============================================================================
