--------------------------- MODULE CampaignsProofs ---------------------------
(***************************************************************************)
(* What holds of the measurement campaigns for any arms, cells, reps,       *)
(* catalogs and answers: nothing is measured twice, a finished cell has     *)
(* its evidence, and the baseline's file is one experiment.                 *)
(***************************************************************************)
EXTENDS Campaigns, FiniteSetTheorems, SequenceTheorems, WellFoundedInduction, TLAPS

-----------------------------------------------------------------------------
(* The inductive invariant of the matrix.                                   *)

MatrixRecord ==
  [cell : Cells, rep : 1..Reps, status : {"completed", "failed", "refused"}]

MatrixFile == [lines : Seq(MatrixRecord), state : FileStates]

MatrixJob ==
  [at : {"reps", "append", "export", "copy"}, arm : Arms, cell : Cells, driven : BOOLEAN,
   done : SUBSET (1..Reps), record : SUBSET MatrixRecord]

MatrixTypes ==
  /\ files \in [Names -> MatrixFile]
  /\ erps = [d \in Databases |-> erps[d]] /\ \A d \in Databases : IsFiniteSet(erps[d])
  /\ reports = [n \in Names |-> reports[n]]
  /\ \A n \in Names :
       reports[n] \in [torn : BOOLEAN, blocks : {reports[n].blocks}]
  /\ snapshots = [d \in Databases |-> snapshots[d]]
  /\ job \in MatrixJob \union {Idle}
  /\ driver \in Nat /\ finished \subseteq Arms \X Cells /\ ended \subseteq finished

(* An invocation knows the reps on record, and no other while it can read   *)
(* them.                                                                    *)
KnowsReps ==
  job # Idle =>
    /\ DoneReps(MyFile, job.cell) \subseteq job.done
    /\ Readable(MyFile) => DoneReps(MyFile, job.cell) = job.done

(* The record that is to be written is of a rep that has none; if it is of  *)
(* a completed one its key has been taken, but by no other record.          *)
PendingFresh ==
  job.at = "append" =>
    \A r \in job.record :
      /\ r.cell = job.cell /\ r.rep \notin job.done
      /\ r.status = "completed" =>
           /\ Key(r.cell, r.rep) \in erps[MyErp]
           /\ \A s \in OfCell(MyFile, job.cell) :
                s.status = "completed" => Key(s.cell, s.rep) # Key(r.cell, r.rep)

RepsOnce ==
  \A n \in Names : \A i, j \in DOMAIN files[n].lines :
    files[n].lines[i].cell = files[n].lines[j].cell /\ files[n].lines[i].rep = files[n].lines[j].rep
      => i = j

(* Each completed record has a row of its own. *)
OwnRows ==
  \A arm \in Arms, cell \in Cells :
    LET lines == files[Evidence(arm)].lines
        completed == {i \in Lines(files[Evidence(arm)], cell) : lines[i].status = "completed"}
    IN  /\ \A i \in completed : Key(cell, lines[i].rep) \in erps[Database(arm, cell)]
        /\ \A i, j \in completed : Key(cell, lines[i].rep) = Key(cell, lines[j].rep) => i = j

BlocksOK ==
  \A n \in Names : \A c \in DOMAIN reports[n].blocks :
    reports[n].blocks[c].rows >= reports[n].blocks[c].completed

(* Every rep of a cell is on record, and in the report if it can be read. *)
Complete(arm, cell) ==
  /\ 1..Reps \subseteq DoneReps(files[Evidence(arm)], cell)
  /\ ~reports[Evidence(arm)].torn =>
       /\ cell \in DOMAIN reports[Evidence(arm)].blocks
       /\ reports[Evidence(arm)].blocks[cell].n >= Reps

ExportComplete == job.at \in {"export", "copy"} => Complete(job.arm, job.cell)

FinishedComplete == \A f \in finished : Complete(f[1], f[2])

(* A copy has been made of a cell that has all its reps, which are run no   *)
(* more.                                                                    *)
CopiesOK ==
  \A arm \in Arms, cell \in Cells :
    snapshots[Database(arm, cell)].state = "whole" =>
      /\ 1..Reps \subseteq DoneReps(files[Evidence(arm)], cell)
      /\ snapshots[Database(arm, cell)].keys = erps[Database(arm, cell)]

(* The cell in hand has not ended. *)
EndedCopied ==
  /\ job # Idle => <<job.arm, job.cell>> \notin ended
  /\ \A f \in ended : f[1].pg => snapshots[Database(f[1], f[2])].state = "whole"

(* Without a rep there is nothing to do. *)
NoReps == Reps = 0 => \A d \in Databases : erps[d] = {}

MatrixInv ==
  /\ MatrixTypes /\ KnowsReps /\ PendingFresh /\ RepsOnce /\ OwnRows
  /\ BlocksOK /\ ExportComplete /\ FinishedComplete /\ CopiesOK /\ EndedCopied /\ NoReps

-----------------------------------------------------------------------------
(* The inductive invariant of the sweep and the baseline.                   *)

IsFile(file) ==
  \E S : file \in [lines : Seq(S), state : FileStates]

Generated(r) == r.size \in Sizes /\ r.point \in {Points[k] : k \in SizePoints[r.size]}

IsSweepJob(j) ==
  j \in [at : {"points"}, model : {j.model}, budget : {j.budget}, made : {j.made}, keys : {j.keys}]

IsEvalJob(j) ==
  j \in [at : {"points"}, model : {j.model}, calibration : {j.calibration}, tau : {j.tau},
         budget : {j.budget}, made : {j.made}, keys : {j.keys}]

SelectionTypes ==
  /\ IsFile(sweepFile) /\ IsFile(evalFile)
  /\ sweepJob # SweepIdle => IsSweepJob(sweepJob)
  /\ evalJob # EvalIdle => IsEvalJob(evalJob)
  /\ calibrations \in Nat

KnowsKeys ==
  /\ sweepJob # SweepIdle => Keys(sweepFile) \subseteq sweepJob.keys
  /\ evalJob # EvalIdle => Keys(evalFile) \subseteq evalJob.keys

OnceIn(file) ==
  \A i, j \in DOMAIN file.lines :
    KeyOfRecord(file.lines[i]) = KeyOfRecord(file.lines[j]) => i = j

KeysOnce == OnceIn(sweepFile) /\ OnceIn(evalFile)

(* Everything that was measured or is going to be carries a calibration     *)
(* that took place, and those of one calibration its tau.                   *)
Calibrated ==
  /\ artifact.at = "frozen" => artifact.id \in 1..calibrations
  /\ evalJob # EvalIdle =>
       /\ evalJob.calibration \in 1..calibrations
       /\ artifact.at = "frozen" /\ artifact.id = evalJob.calibration =>
            artifact.tau = evalJob.tau
  /\ \A r \in Records(evalFile) :
       /\ r.calibration \in 1..calibrations
       /\ artifact.at = "frozen" /\ artifact.id = r.calibration => artifact.tau = r.tau
       /\ evalJob # EvalIdle => r.calibration = evalJob.calibration /\ r.tau = evalJob.tau
  /\ \A a, b \in Records(evalFile) : a.calibration = b.calibration /\ a.tau = b.tau

GeneratedToday ==
  /\ \A r \in Records(evalFile) : Generated(r)
  /\ evalJob # EvalIdle \/ evalFile.lines # <<>> =>
       \A s \in Records(sweepFile) : Generated(s)

SelectionInv == SelectionTypes /\ KnowsKeys /\ KeysOnce /\ Calibrated /\ GeneratedToday

IInv == MatrixInv /\ SelectionInv

-----------------------------------------------------------------------------
(* Numbers and files.                                                       *)

(* A nonempty set of natural numbers has a least element. *)
LEMMA LeastExists ==
  ASSUME NEW T, T \subseteq Nat, T # {}
  PROVE  \E x \in T : \A y \in T : x <= y
<1> DEFINE R == OpToRel(<, Nat)
<1>1. IsWellFoundedOn(R, Nat)
  BY NatLessThanWellFounded
<1>2. \A y, x \in Nat : y < x => <<y, x>> \in R
  BY Zenon DEF OpToRel
<1> HIDE DEF R
<1>3. PICK x \in T : \A y \in T : ~(<<y, x>> \in R)
  BY <1>1, WFMin, Zenon
<1>4. ASSUME NEW y \in T PROVE x <= y
  <2>1. x \in Nat /\ y \in Nat
    OBVIOUS
  <2>2. ~(y < x)
    BY <1>2, <1>3, <2>1, Zenon
  <2> QED BY <2>1, <2>2
<1> QED BY <1>4

(* A record more leaves the others where they are. *)
LEMMA Appending ==
  ASSUME NEW S, NEW s \in Seq(S), NEW r
  PROVE  /\ DOMAIN Append(s, r) = DOMAIN s \union {Len(s) + 1}
         /\ Len(s) + 1 \notin DOMAIN s
         /\ \A i \in DOMAIN s : Append(s, r)[i] = s[i]
         /\ Append(s, r)[Len(s) + 1] = r
         /\ Append(s, r) \in Seq(S \union {r})
<1>1. s \in Seq(S \union {r}) /\ Len(s) \in Nat /\ DOMAIN s = 1..Len(s)
  BY SMT
<1>2. /\ Append(s, r) \in Seq(S \union {r})
      /\ Len(Append(s, r)) = Len(s) + 1
      /\ \A i \in 1..Len(s) : Append(s, r)[i] = s[i]
      /\ Append(s, r)[Len(s) + 1] = r
  BY <1>1, AppendProperties
<1>3. DOMAIN Append(s, r) = 1..(Len(s) + 1)
  BY <1>2
<1>4. DOMAIN Append(s, r) = DOMAIN s \union {Len(s) + 1} /\ Len(s) + 1 \notin DOMAIN s
  BY <1>1, <1>3
<1> QED BY <1>1, <1>2, <1>4

LEMMA AppendedRange ==
  ASSUME NEW S, NEW s \in Seq(S), NEW r
  PROVE  ToSet(Append(s, r)) = ToSet(s) \union {r}
<1>1. /\ DOMAIN Append(s, r) = DOMAIN s \union {Len(s) + 1}
      /\ \A i \in DOMAIN s : Append(s, r)[i] = s[i]
      /\ Append(s, r)[Len(s) + 1] = r
  BY Appending
<1> QED BY <1>1, Zenon DEF ToSet

(* A write leaves a file with the record or without it, *)
LEMMA Writing ==
  ASSUME NEW S, NEW r \in S, NEW file \in [lines : Seq(S), state : FileStates],
         NEW g, g = Appended(file, r) \/ g \in TornAppends(file, r)
  PROVE  /\ g \in [lines : Seq(S), state : FileStates]
         /\ g.lines = file.lines \/ g.lines = Append(file.lines, r)
<1>1. Append(file.lines, r) \in Seq(S)
  BY AppendProperties
<1>2. Appended(file, r) \in {[file EXCEPT !.state = "broken"],
                            [file EXCEPT !.lines = Append(@, r)]}
  BY DEF Appended
<1>3. file = [lines |-> file.lines, state |-> file.state]
  OBVIOUS
<1>4. Appended(file, r) \in {[lines |-> file.lines, state |-> "broken"],
                            [lines |-> Append(file.lines, r), state |-> file.state]}
  BY <1>2, <1>3
<1> DEFINE h == Appended(file, r)
<1>5. /\ h \in [lines : Seq(S), state : FileStates]
      /\ h.lines = file.lines \/ h.lines = Append(file.lines, r)
  BY <1>1, <1>4 DEF FileStates
<1> HIDE DEF h
<1>6. CASE g = [file EXCEPT !.state = "broken"]
  BY <1>3, <1>6 DEF FileStates
<1>7. CASE g = [h EXCEPT !.state = IF @ = "whole" THEN "open" ELSE @]
  BY <1>5, <1>7 DEF FileStates
<1> QED BY <1>5, <1>6, <1>7 DEF TornAppends, h

(* and a whole write leaves it unless the file is broken by it. *)
LEMMA WholeWrite ==
  ASSUME NEW S, NEW r \in S, NEW file \in [lines : Seq(S), state : FileStates]
  PROVE  Readable(Appended(file, r)) => Appended(file, r).lines = Append(file.lines, r)
BY DEF Appended, Readable, FileStates

-----------------------------------------------------------------------------
(* The matrix.                                                              *)

LEMMA NamesOK ==
  ASSUME NEW arm \in Arms
  PROVE  /\ Evidence(arm) \in Names
         /\ \A cell \in Cells : Database(arm, cell) \in Databases
BY DEF Names, Databases

(* Whatever is put at the end of a cell's file, its reps stay on record. *)
LEMMA RecordsGrow ==
  ASSUME MatrixTypes, job \in MatrixJob, NEW r \in job.record, NEW g,
         g = Appended(MyFile, r) \/ g \in TornAppends(MyFile, r),
         files' = [files EXCEPT ![Evidence(job.arm)] = g]
  PROVE  /\ files' \in [Names -> MatrixFile]
         /\ \A n \in Names : n # Evidence(job.arm) => files'[n] = files[n]
         /\ files'[Evidence(job.arm)] = g
         /\ \/ g.lines = MyFile.lines
            \/ g.lines = Append(MyFile.lines, r)
         /\ \A n \in Names : Records(files[n]) \subseteq Records(files'[n])
<1>1. r \in MatrixRecord /\ Evidence(job.arm) \in Names
  BY NamesOK DEF MatrixJob
<1>2. MyFile \in [lines : Seq(MatrixRecord), state : FileStates]
  BY <1>1 DEF MatrixTypes, MyFile, MatrixFile
<1>3. /\ g \in [lines : Seq(MatrixRecord), state : FileStates]
      /\ g.lines = MyFile.lines \/ g.lines = Append(MyFile.lines, r)
  BY <1>1, <1>2, Writing
<1>4. Records(MyFile) \subseteq Records(g)
  <2>1. MyFile.lines \in Seq(MatrixRecord)
    BY <1>2
  <2>2. ToSet(Append(MyFile.lines, r)) = ToSet(MyFile.lines) \union {r}
    BY <2>1, AppendedRange, Zenon
  <2> QED BY <1>3, <2>2 DEF Records
<1>5. /\ files' \in [Names -> MatrixFile]
      /\ \A n \in Names : n # Evidence(job.arm) => files'[n] = files[n]
      /\ files'[Evidence(job.arm)] = g
  BY <1>1, <1>3 DEF MatrixTypes, MatrixFile
<1> QED BY <1>1, <1>3, <1>4, <1>5 DEF MyFile

(* A record of a rep that has none keeps RepsOnce. *)
LEMMA RepsOnceGrow ==
  ASSUME MatrixInv, job.at = "append", job \in MatrixJob, NEW r \in job.record, NEW g,
         g = Appended(MyFile, r) \/ g \in TornAppends(MyFile, r),
         files' = [files EXCEPT ![Evidence(job.arm)] = g]
  PROVE  RepsOnce'
<1> DEFINE n0 == Evidence(job.arm)
           s == MyFile.lines
           k == Len(s) + 1
<1>1. n0 \in Names /\ s \in Seq(MatrixRecord)
  BY NamesOK DEF MatrixJob, MatrixInv, MatrixTypes, MyFile, MatrixFile
<1>2. SUFFICES ASSUME NEW i \in DOMAIN g.lines, NEW j \in DOMAIN g.lines,
                      g.lines[i].cell = g.lines[j].cell, g.lines[i].rep = g.lines[j].rep
               PROVE  i = j
  BY RecordsGrow DEF MatrixInv, RepsOnce
<1>3. g.lines = s \/ g.lines = Append(s, r)
  BY RecordsGrow DEF MatrixInv
<1>4. \A a, b \in DOMAIN s : s[a].cell = s[b].cell /\ s[a].rep = s[b].rep => a = b
  BY <1>1 DEF MatrixInv, RepsOnce, MyFile
<1>5. CASE g.lines = s
  BY <1>2, <1>4, <1>5
<1>6. CASE g.lines = Append(s, r)
  <2>1. \A a \in DOMAIN s : s[a].cell = r.cell => s[a].rep # r.rep
    <3>1. r.cell = job.cell /\ r.rep \notin job.done
      BY DEF MatrixInv, PendingFresh
    <3>2. DoneReps(MyFile, job.cell) \subseteq job.done
      BY DEF MatrixInv, KnowsReps, Idle
    <3>3. \A a \in DOMAIN s : s[a] \in Records(MyFile)
      BY DEF Records, ToSet
    <3> QED BY <3>1, <3>2, <3>3 DEF DoneReps, OfCell
  <2>2. /\ DOMAIN Append(s, r) = DOMAIN s \union {k} /\ k \notin DOMAIN s
        /\ \A a \in DOMAIN s : Append(s, r)[a] = s[a]
        /\ Append(s, r)[k] = r
    BY <1>1, Appending
  <2> HIDE DEF s, k
  <2> QED BY <1>2, <1>4, <1>6, <2>1, <2>2
<1> QED BY <1>3, <1>5, <1>6

(* The same of OwnRows: the key of a completed record has not been used by  *)
(* one before it.                                                           *)
CompletedLines(file, cell) ==
  {i \in Lines(file, cell) : file.lines[i].status = "completed"}

LEMMA OneRowMore ==
  ASSUME NEW s, NEW t, NEW old, NEW new, NEW k, NEW r, NEW cell, NEW rows,
         \A i \in old : Key(cell, s[i].rep) \in rows,
         \A i, j \in old : Key(cell, s[i].rep) = Key(cell, s[j].rep) => i = j,
         \A i \in new :
           \/ i \in old /\ t[i] = s[i]
           \/ /\ i = k /\ t[i] = r /\ Key(cell, r.rep) \in rows
              /\ \A j \in old : Key(cell, s[j].rep) # Key(cell, r.rep)
  PROVE  /\ \A i \in new : Key(cell, t[i].rep) \in rows
         /\ \A i, j \in new : Key(cell, t[i].rep) = Key(cell, t[j].rep) => i = j
OBVIOUS

LEMMA OwnRowsGrow ==
  ASSUME MatrixInv, job.at = "append", job \in MatrixJob, NEW r \in job.record, NEW g,
         g = Appended(MyFile, r) \/ g \in TornAppends(MyFile, r),
         files' = [files EXCEPT ![Evidence(job.arm)] = g], erps' = erps
  PROVE  OwnRows'
<1>1. SUFFICES ASSUME NEW arm \in Arms, NEW cell \in Cells
               PROVE  LET file == files'[Evidence(arm)]
                          completed == CompletedLines(file, cell)
                      IN  /\ \A i \in completed :
                               Key(cell, file.lines[i].rep) \in erps[Database(arm, cell)]
                          /\ \A i, j \in completed :
                               Key(cell, file.lines[i].rep) = Key(cell, file.lines[j].rep) => i = j
  BY Zenon DEF OwnRows, CompletedLines
<1> DEFINE n == Evidence(arm)
           s == files[n].lines
           t == files'[n].lines
           old == CompletedLines(files[n], cell)
           new == CompletedLines(files'[n], cell)
           rows == erps[Database(arm, cell)]
           k == Len(s) + 1
<1>2. /\ \A i \in old : Key(cell, s[i].rep) \in rows
      /\ \A i, j \in old : Key(cell, s[i].rep) = Key(cell, s[j].rep) => i = j
  BY DEF MatrixInv, OwnRows, CompletedLines
<1>3. CASE t = s
  <2>1. new = old
    BY <1>3, Zenon DEF CompletedLines, Lines
  <2> HIDE DEF n, s, t, old, new, rows
  <2>2. /\ \A i \in new : Key(cell, t[i].rep) \in rows
        /\ \A i, j \in new : Key(cell, t[i].rep) = Key(cell, t[j].rep) => i = j
    BY <1>2, <1>3, <2>1
  <2> QED BY <2>2 DEF n, t, new, rows
<1>4. CASE arm = job.arm /\ t = Append(s, r)
  <2>1. s \in Seq(MatrixRecord)
    BY NamesOK DEF MatrixInv, MatrixTypes, MatrixFile
  <2>2. /\ DOMAIN Append(s, r) = DOMAIN s \union {k}
        /\ \A a \in DOMAIN s : Append(s, r)[a] = s[a]
        /\ Append(s, r)[k] = r
    BY <2>1, Appending
  <2>3. MyFile = files[n] /\ MyErp = Database(arm, job.cell)
    BY <1>4 DEF MyFile, MyErp
  <2>4. r.cell = job.cell
    BY DEF MatrixInv, PendingFresh
  <2>5. ASSUME cell = job.cell, r.status = "completed"
        PROVE  /\ Key(cell, r.rep) \in rows
               /\ \A i \in old : Key(cell, s[i].rep) # Key(cell, r.rep)
    <3>1. \A i \in old : /\ s[i] \in OfCell(MyFile, job.cell) /\ s[i].cell = cell
                         /\ s[i].status = "completed"
      BY <2>3, <2>5 DEF OfCell, Records, ToSet, Lines, CompletedLines
    <3> HIDE DEF old, s
    <3> QED BY <2>3, <2>4, <2>5, <3>1 DEF MatrixInv, PendingFresh
  <2>6. \A i \in new : \/ i \in old /\ t[i] = s[i]
                       \/ i = k /\ t[i] = r /\ cell = job.cell /\ r.status = "completed"
    BY <1>4, <2>2, <2>4 DEF Lines, CompletedLines
  <2> HIDE DEF n, s, t, old, new, rows, k
  <2>7. /\ \A i \in new : Key(cell, t[i].rep) \in rows
        /\ \A i, j \in new : Key(cell, t[i].rep) = Key(cell, t[j].rep) => i = j
    BY <1>2, <2>5, <2>6, OneRowMore
  <2> QED BY <2>7 DEF n, t, new, rows
<1>5. n = Evidence(job.arm) => arm = job.arm
  BY ArmsApart DEF MatrixJob
<1>6. t = s \/ (arm = job.arm /\ t = Append(s, r))
  <2>1. MatrixTypes
    BY DEF MatrixInv
  <2>2. /\ \A m \in Names : m # Evidence(job.arm) => files'[m] = files[m]
        /\ files'[Evidence(job.arm)] = g
        /\ g.lines = MyFile.lines \/ g.lines = Append(MyFile.lines, r)
    BY <2>1, RecordsGrow
  <2>3. n \in Names
    BY NamesOK
  <2>4. CASE n = Evidence(job.arm)
    BY <1>5, <2>2, <2>4 DEF MyFile
  <2>5. CASE n # Evidence(job.arm)
    BY <2>2, <2>3, <2>5
  <2> QED BY <2>4, <2>5
<1> QED BY <1>3, <1>4, <1>6, Zenon

(* A cell that is complete stays so as its file grows. *)
LEMMA CompleteGrow ==
  ASSUME NEW arm, NEW cell, Complete(arm, cell),
         Records(files[Evidence(arm)]) \subseteq Records(files'[Evidence(arm)]), reports' = reports
  PROVE  Complete(arm, cell)'
BY DEF Complete, DoneReps, OfCell

-----------------------------------------------------------------------------
(* What holds of the cell in hand.                                          *)

(* Nothing is left of a cell that has all its reps. *)
LEMMA NothingLeft ==
  ASSUME KnowsReps, job # Idle, 1..Reps \subseteq DoneReps(files[Evidence(job.arm)], job.cell)
  PROVE  Missing(MyFile, job.cell, job.done) = {}
BY DEF KnowsReps, Missing, MyFile

(* The copies stay true while the records stay and the ERP does of the      *)
(* cells that have one.                                                     *)
LEMMA CopiesStay ==
  ASSUME CopiesOK, UNCHANGED snapshots,
         \A n \in Names : Records(files[n]) \subseteq Records(files'[n]),
         \A arm \in Arms, cell \in Cells :
           \/ erps'[Database(arm, cell)] = erps[Database(arm, cell)]
           \/ ~(1..Reps \subseteq DoneReps(files[Evidence(arm)], cell))
  PROVE  CopiesOK'
<1> SUFFICES ASSUME NEW arm \in Arms, NEW cell \in Cells,
                    snapshots[Database(arm, cell)].state = "whole"
             PROVE  /\ 1..Reps \subseteq DoneReps(files'[Evidence(arm)], cell)
                    /\ snapshots[Database(arm, cell)].keys = erps'[Database(arm, cell)]
  BY DEF CopiesOK
<1>1. /\ 1..Reps \subseteq DoneReps(files[Evidence(arm)], cell)
      /\ snapshots[Database(arm, cell)].keys = erps[Database(arm, cell)]
  BY DEF CopiesOK
<1>2. DoneReps(files[Evidence(arm)], cell) \subseteq DoneReps(files'[Evidence(arm)], cell)
  BY NamesOK DEF DoneReps, OfCell
<1> QED BY <1>1, <1>2

LEMMA Unmoved ==
  ASSUME MatrixInv, UNCHANGED <<files, erps, reports, snapshots, job, finished>>, driver' \in Nat,
         ended' \subseteq ended
  PROVE  MatrixInv'
<1>1. MatrixTypes'
  BY DEF MatrixInv, MatrixTypes
<1>2. KnowsReps' /\ PendingFresh'
  BY DEF MatrixInv, KnowsReps, PendingFresh, MyFile, MyErp
<1>3. RepsOnce' /\ OwnRows' /\ BlocksOK' /\ NoReps'
  BY DEF MatrixInv, RepsOnce, OwnRows, BlocksOK, NoReps
<1>4. ExportComplete' /\ FinishedComplete'
  BY DEF MatrixInv, ExportComplete, FinishedComplete, Complete
<1>5. CopiesOK' /\ EndedCopied'
  BY DEF MatrixInv, CopiesOK, EndedCopied
<1> QED BY <1>1, <1>2, <1>3, <1>4, <1>5 DEF MatrixInv

-----------------------------------------------------------------------------
(* The steps of the matrix.                                                 *)

LEMMA StopsOK ==
  ASSUME MatrixInv, job' = Idle, UNCHANGED <<files, erps, reports, snapshots, finished, ended>>,
         driver' \in Nat
  PROVE  MatrixInv'
<1>1. MatrixTypes'
  BY DEF MatrixInv, MatrixTypes
<1>2. KnowsReps' /\ PendingFresh' /\ ExportComplete'
  BY DEF KnowsReps, PendingFresh, ExportComplete, Idle
<1>3. RepsOnce' /\ OwnRows' /\ BlocksOK' /\ NoReps'
  BY DEF MatrixInv, RepsOnce, OwnRows, BlocksOK, NoReps
<1>4. FinishedComplete' /\ CopiesOK' /\ EndedCopied'
  BY DEF MatrixInv, FinishedComplete, Complete, CopiesOK, EndedCopied
<1> QED BY <1>1, <1>2, <1>3, <1>4 DEF MatrixInv

LEMMA StartOK ==
  ASSUME MatrixInv, NEW arm \in Arms, NEW cell \in Cells, NEW driven \in BOOLEAN,
         Start(arm, cell, driven)
  PROVE  MatrixInv'
<1> DEFINE file == files[Evidence(arm)]
           erp == Database(arm, cell)
<1>1. driver' \in Nat
  BY DEF Start, MatrixInv, MatrixTypes
<1>2. CASE ~Readable(file)
  <2>1. ended' \subseteq ended
    BY DEF Start
  <2> QED BY <1>1, <1>2, <2>1, Unmoved DEF Start
<1>3. CASE Readable(file)
  <2>1. /\ job' = [at |-> "reps", arm |-> arm, cell |-> cell, driven |-> driven,
                   done |-> DoneReps(file, cell), record |-> {}]
        /\ erps' = IF IsFirstRun(file, cell) THEN [erps EXCEPT ![erp] = {}] ELSE erps
        /\ ended' = ended \ {<<arm, cell>>}
        /\ UNCHANGED <<files, reports, snapshots, finished>>
    BY <1>3 DEF Start
  <2>2. file \in MatrixFile /\ erp \in Databases
    BY NamesOK DEF MatrixInv, MatrixTypes
  <2>3. DoneReps(file, cell) \subseteq 1..Reps
    <3>1. Records(file) \subseteq MatrixRecord
      BY <2>2 DEF Records, ToSet, MatrixFile
    <3> QED BY <3>1 DEF DoneReps, OfCell, MatrixRecord
  <2>4. job' \in MatrixJob
    BY <2>1, <2>3 DEF MatrixJob
  <2>5. /\ erps' = [d \in Databases |-> erps'[d]]
        /\ \A d \in Databases : \/ erps'[d] = erps[d]
                                \/ d = erp /\ IsFirstRun(file, cell) /\ erps'[d] = {}
    BY <2>1, <2>2 DEF MatrixInv, MatrixTypes
  <2>6. MatrixTypes'
    <3>1. \A d \in Databases : IsFiniteSet(erps'[d])
      BY <2>5, FS_EmptySet DEF MatrixInv, MatrixTypes
    <3> QED BY <1>1, <2>1, <2>4, <2>5, <3>1 DEF MatrixInv, MatrixTypes
  <2>7. MyFile' = file /\ job'.done = DoneReps(file, cell) /\ job'.cell = cell
    BY <2>1 DEF MyFile
  <2>8. KnowsReps'
    BY <2>7, Zenon DEF KnowsReps
  <2>9. PendingFresh' /\ ExportComplete'
    BY <2>1 DEF PendingFresh, ExportComplete
  <2>10. RepsOnce' /\ BlocksOK'
    BY <2>1 DEF MatrixInv, RepsOnce, BlocksOK
  <2>11. NoReps'
    BY <2>1, <2>5 DEF MatrixInv, NoReps
  <2>12. OwnRows'
    <3>1. SUFFICES ASSUME NEW a \in Arms, NEW c \in Cells,
                          IsFirstRun(file, cell), Database(a, c) = erp
                   PROVE  Lines(files[Evidence(a)], c) = {}
      BY <2>1, <2>5, NamesOK DEF MatrixInv, OwnRows
    <3>2. a = arm /\ c = cell
      BY <3>1, ArmsApart
    <3> QED BY <3>1, <3>2 DEF IsFirstRun, OfCell, Lines, Records, ToSet
  <2>13. FinishedComplete'
    BY <2>1 DEF MatrixInv, FinishedComplete, Complete
  <2>14. CopiesOK'
    <3>1. ASSUME NEW a \in Arms, NEW c \in Cells
          PROVE  \/ erps'[Database(a, c)] = erps[Database(a, c)]
                 \/ ~(1..Reps \subseteq DoneReps(files[Evidence(a)], c))
      <4>1. CASE erps'[Database(a, c)] = erps[Database(a, c)]
        BY <4>1
      <4>2. CASE /\ Database(a, c) = erp /\ IsFirstRun(file, cell)
                 /\ erps'[Database(a, c)] = {}
        <5>1. a = arm /\ c = cell
          BY <4>2, ArmsApart
        <5>2. DoneReps(file, cell) = {}
          BY <4>2 DEF IsFirstRun, DoneReps
        <5>3. CASE Reps = 0
          BY <4>2, <5>3, <2>2 DEF MatrixInv, NoReps
        <5>4. CASE Reps # 0
          BY <5>1, <5>2, <5>4, MatrixAssumption
        <5> QED BY <5>3, <5>4
      <4> QED BY <2>5, <4>1, <4>2, NamesOK
    <3>2. \A n \in Names : Records(files[n]) \subseteq Records(files'[n])
      BY <2>1
    <3> QED BY <2>1, <3>1, <3>2, CopiesStay DEF MatrixInv
  <2>15. EndedCopied'
    <3>1. job'.arm = arm /\ job'.cell = cell
      BY <2>1
    <3> QED BY <2>1, <3>1 DEF MatrixInv, EndedCopied
  <2> QED BY <2>6, <2>8, <2>9, <2>10, <2>11, <2>12, <2>13, <2>14, <2>15 DEF MatrixInv
<1> QED BY <1>2, <1>3

LEMMA ExecuteOK ==
  ASSUME MatrixInv, Execute
  PROVE  MatrixInv'
<1> DEFINE rep == NextRep
           key == Key(job.cell, rep)
           erp == MyErp
<1>1. job # Idle /\ job \in MatrixJob
  BY DEF Execute, Idle, MatrixInv, MatrixTypes
<1>2. rep \in 1..Reps /\ rep \notin job.done
  <2>1. Missing(MyFile, job.cell, job.done) \subseteq Nat
    BY MatrixAssumption DEF Missing
  <2>2. rep \in Missing(MyFile, job.cell, job.done)
    BY <2>1, LeastExists DEF Execute, NextRep
  <2> QED BY <2>2 DEF Missing
<1>3. PICK status \in {"completed", "failed", "refused"} :
        /\ job' = [job EXCEPT !.at = "append",
                     !.record = {[cell |-> job.cell, rep |-> rep, status |-> status]}]
        /\ status = "completed" => key \notin erps[erp] /\ key \in erps'[erp]
        /\ erps' = erps \/ erps' = [erps EXCEPT ![erp] = @ \union {key}]
  <2>1. erps = [d \in Databases |-> erps[d]] /\ erp \in Databases
    BY <1>1, NamesOK DEF MatrixInv, MatrixTypes, MatrixJob, MyErp
  <2> QED BY <2>1, Zenon DEF Execute
<1>4. UNCHANGED <<files, reports, snapshots, driver, finished, ended, starts>>
  BY DEF Execute
<1> DEFINE r == [cell |-> job.cell, rep |-> rep, status |-> status]
<1>5. /\ job' = [at |-> "append", arm |-> job.arm, cell |-> job.cell, driven |-> job.driven,
                 done |-> job.done, record |-> {r}]
      /\ r \in MatrixRecord
  BY <1>1, <1>2, <1>3 DEF MatrixJob, MatrixRecord
<1>6. job' \in MatrixJob
  BY <1>1, <1>5 DEF MatrixJob
<1>7. MyFile' = MyFile /\ MyErp' = erp /\ erp \in Databases
  BY <1>1, <1>4, <1>5, NamesOK DEF MyFile, MyErp, MatrixJob
<1>8. /\ erps' = [d \in Databases |-> erps'[d]]
      /\ \A d \in Databases : \/ erps'[d] = erps[d]
                              \/ d = erp /\ erps'[d] = erps[d] \union {key}
  BY <1>3, <1>7 DEF MatrixInv, MatrixTypes
<1> HIDE DEF rep, key, erp
<1>9. MatrixTypes'
  <2>1. \A d \in Databases : IsFiniteSet(erps'[d])
    <3>1. \A d \in Databases : IsFiniteSet(erps[d])
      BY DEF MatrixInv, MatrixTypes
    <3>2. \A d \in Databases : IsFiniteSet(erps[d] \union {key})
      BY <3>1, FS_AddElement, Zenon
    <3> QED BY <1>8, <3>1, <3>2, Zenon
  <2> QED BY <1>4, <1>6, <1>8, <2>1 DEF MatrixInv, MatrixTypes
<1>10. KnowsReps'
  BY <1>1, <1>5, <1>7 DEF MatrixInv, KnowsReps
<1>11. PendingFresh'
  <2>1. SUFFICES ASSUME status = "completed"
                 PROVE  /\ key \in erps'[erp]
                        /\ \A s \in OfCell(MyFile, job.cell) :
                             s.status = "completed" => Key(s.cell, s.rep) # key
    BY <1>2, <1>5, <1>7 DEF PendingFresh, key
  <2>2. \A s \in OfCell(MyFile, job.cell) :
          s.status = "completed" => Key(s.cell, s.rep) \in erps[erp]
    <3>1. \A s \in OfCell(MyFile, job.cell) : \E i \in Lines(MyFile, job.cell) :
            s = MyFile.lines[i] /\ s.cell = job.cell
      BY DEF OfCell, Lines, Records, ToSet
    <3> QED BY <1>1, <3>1 DEF MatrixInv, OwnRows, MatrixJob, MyFile, MyErp, erp
  <2> QED BY <1>3, <2>1, <2>2
<1>12. RepsOnce' /\ BlocksOK' /\ ExportComplete'
  BY <1>4, <1>5 DEF MatrixInv, RepsOnce, BlocksOK, ExportComplete
<1>13. OwnRows'
  BY <1>4, <1>8, NamesOK DEF MatrixInv, OwnRows
<1>14. FinishedComplete' /\ EndedCopied'
  <2>1. job'.arm = job.arm /\ job'.cell = job.cell
    BY <1>5
  <2> QED BY <1>1, <1>4, <2>1 DEF MatrixInv, FinishedComplete, Complete, EndedCopied
<1>16. CopiesOK'
  <2>1. ASSUME NEW a \in Arms, NEW c \in Cells, Database(a, c) = erp
        PROVE  ~(1..Reps \subseteq DoneReps(files[Evidence(a)], c))
    <3>1. a = job.arm /\ c = job.cell
      BY <1>1, <2>1, ArmsApart DEF MatrixJob, MyErp, erp
    <3> QED BY <1>1, <3>1, NothingLeft DEF MatrixInv, Execute
  <2>2. \A n \in Names : Records(files[n]) \subseteq Records(files'[n])
    BY <1>4
  <2> QED BY <1>4, <1>8, <2>1, <2>2, CopiesStay, NamesOK DEF MatrixInv
<1>15. NoReps'
  BY <1>2, MatrixAssumption DEF NoReps
<1> QED BY <1>9, <1>10, <1>11, <1>12, <1>13, <1>14, <1>15, <1>16 DEF MatrixInv

LEMMA AppendRecordOK ==
  ASSUME MatrixInv, AppendRecord
  PROVE  MatrixInv'
<1> DEFINE n == Evidence(job.arm)
<1>1. job # Idle /\ job \in MatrixJob /\ job.at = "append"
  BY DEF AppendRecord, Idle, MatrixInv, MatrixTypes
<1>2. PICK r \in job.record :
        /\ files' = [files EXCEPT ![n] = Appended(@, r)]
        /\ job' = [job EXCEPT !.at = "reps", !.done = @ \union {r.rep}, !.record = {}]
  BY DEF AppendRecord
<1>3. UNCHANGED <<erps, reports, snapshots, driver, finished, ended, starts>>
  BY DEF AppendRecord
<1> DEFINE g == Appended(MyFile, r)
<1>4. /\ r \in MatrixRecord /\ n \in Names /\ MyFile \in MatrixFile
      /\ files' = [files EXCEPT ![n] = g]
  BY <1>1, <1>2, NamesOK DEF MatrixJob, MatrixInv, MatrixTypes, MyFile
<1>5. job' = [at |-> "reps", arm |-> job.arm, cell |-> job.cell, driven |-> job.driven,
              done |-> job.done \union {r.rep}, record |-> {}]
  BY <1>1, <1>2 DEF MatrixJob
<1>6. job' \in MatrixJob
  BY <1>1, <1>4, <1>5 DEF MatrixJob, MatrixRecord
<1>7. /\ files' \in [Names -> MatrixFile] /\ files'[n] = g
      /\ g.lines = MyFile.lines \/ g.lines = Append(MyFile.lines, r)
      /\ \A m \in Names : Records(files[m]) \subseteq Records(files'[m])
  BY <1>1, <1>4, RecordsGrow DEF MatrixInv
<1>8. MatrixTypes'
  BY <1>3, <1>6, <1>7 DEF MatrixInv, MatrixTypes
<1>9. RepsOnce'
  BY <1>1, <1>4, RepsOnceGrow
<1>10. OwnRows'
  BY <1>1, <1>3, <1>4, OwnRowsGrow
<1>11. KnowsReps'
  <2>1. MyFile' = g /\ job'.cell = job.cell /\ job'.done = job.done \union {r.rep}
    BY <1>5, <1>7 DEF MyFile
  <2>2. MyFile.lines \in Seq(MatrixRecord)
    BY <1>4 DEF MatrixFile
  <2>3. ToSet(Append(MyFile.lines, r)) = ToSet(MyFile.lines) \union {r}
    BY <2>2, AppendedRange, Zenon
  <2>4. /\ Records(g) = Records(MyFile) \/ Records(g) = Records(MyFile) \union {r}
        /\ Readable(g) => Readable(MyFile) /\ Records(g) = Records(MyFile) \union {r}
    <3>1. Readable(g) => g.lines = Append(MyFile.lines, r) /\ Readable(MyFile)
      BY <1>4, WholeWrite DEF MatrixFile, Readable, Appended, FileStates
    <3> HIDE DEF g
    <3> QED BY <1>7, <2>3, <3>1 DEF Records
  <2>5. r.cell = job.cell
    BY <1>1 DEF MatrixInv, PendingFresh
  <2>6. /\ DoneReps(MyFile, job.cell) \subseteq job.done
        /\ Readable(MyFile) => DoneReps(MyFile, job.cell) = job.done
    BY <1>1 DEF MatrixInv, KnowsReps
  <2> HIDE DEF g
  <2>7. /\ DoneReps(g, job.cell) \subseteq job.done \union {r.rep}
        /\ Readable(g) => DoneReps(g, job.cell) = job.done \union {r.rep}
    BY <2>4, <2>5, <2>6 DEF DoneReps, OfCell
  <2> QED BY <2>1, <2>7 DEF KnowsReps
<1>12. PendingFresh' /\ ExportComplete'
  BY <1>5 DEF PendingFresh, ExportComplete
<1>13. BlocksOK' /\ NoReps'
  BY <1>3 DEF MatrixInv, BlocksOK, NoReps
<1>14. FinishedComplete'
  BY <1>3, <1>7, CompleteGrow, NamesOK DEF MatrixInv, FinishedComplete, MatrixTypes
<1>15. CopiesOK'
  BY <1>3, <1>7, CopiesStay DEF MatrixInv
<1>16. EndedCopied'
  <2>1. job'.arm = job.arm /\ job'.cell = job.cell
    BY <1>5
  <2> QED BY <1>1, <1>3, <2>1 DEF MatrixInv, EndedCopied
<1> QED BY <1>8, <1>9, <1>10, <1>11, <1>12, <1>13, <1>14, <1>15, <1>16 DEF MatrixInv

-----------------------------------------------------------------------------
(* The report.                                                              *)

(* The reps on record are no more than the lines. *)
LEMMA EnoughLines ==
  ASSUME NEW file \in MatrixFile, NEW cell, 1..Reps \subseteq DoneReps(file, cell)
  PROVE  Cardinality(Lines(file, cell)) >= Reps
<1> DEFINE L == Lines(file, cell)
<1>1. L \subseteq 1..Len(file.lines) /\ Len(file.lines) \in Nat
  BY DEF Lines, MatrixFile
<1>2. IsFiniteSet(L)
  <2>1. IsFiniteSet(1..Len(file.lines))
    BY <1>1, FS_Interval
  <2> HIDE DEF L
  <2> QED BY <1>1, <2>1, FS_Subset, Zenon
<1> DEFINE f == [i \in L |-> file.lines[i].rep]
<1>3. DoneReps(file, cell) \subseteq {f[i] : i \in L}
  BY DEF DoneReps, OfCell, Records, ToSet, Lines
<1>4. f \in Surjection(L, {f[i] : i \in L})
  BY DEF Surjection
<1>5. IsFiniteSet({f[i] : i \in L}) /\ Cardinality({f[i] : i \in L}) <= Cardinality(L)
  BY <1>2, <1>4, FS_Surjection
<1>6. Cardinality(1..Reps) = Reps /\ Cardinality(1..Reps) <= Cardinality({f[i] : i \in L})
  <2>1. 1..Reps \subseteq {f[i] : i \in L}
    BY <1>3
  <2> HIDE DEF f
  <2>2. Cardinality(1..Reps) = Reps
    BY FS_Interval, MatrixAssumption
  <2>3. Cardinality(1..Reps) <= Cardinality({f[i] : i \in L})
    BY <1>5, <2>1, FS_Subset, Zenon
  <2> QED BY <2>2, <2>3
<1>7. Cardinality(L) \in Nat /\ Cardinality({f[i] : i \in L}) \in Nat
  BY <1>2, <1>5, FS_CardinalityType
<1> HIDE DEF f, L
<1> QED BY <1>5, <1>6, <1>7, MatrixAssumption DEF L

(* There are at least as many rows as completed records. *)
LEMMA EnoughRows ==
  ASSUME MatrixInv, NEW arm \in Arms, NEW cell \in Cells
  PROVE  LET block == Block(files[Evidence(arm)], arm, cell) IN block.rows >= block.completed
<1> DEFINE file == files[Evidence(arm)]
           C == CompletedLines(file, cell)
           rows == erps[Database(arm, cell)]
           f == [i \in C |-> Key(cell, file.lines[i].rep)]
<1>1. /\ \A i \in C : f[i] \in rows
      /\ \A i, j \in C : f[i] = f[j] => i = j
  BY DEF MatrixInv, OwnRows, CompletedLines
<1>2. IsFiniteSet(rows)
  BY NamesOK DEF MatrixInv, MatrixTypes
<1>3. f \in Injection(C, rows)
  BY <1>1 DEF Injection, IsInjective
<1>4. IsFiniteSet(C) /\ Cardinality(C) <= Cardinality(rows)
  BY <1>2, <1>3, FS_Injection
<1>5. Cardinality(C) \in Nat /\ Cardinality(rows) \in Nat
  BY <1>2, <1>4, FS_CardinalityType
<1>6. Block(file, arm, cell).rows = Cardinality(rows) /\ Block(file, arm, cell).completed = Cardinality(C)
  BY DEF Block, CompletedLines
<1> HIDE DEF C, rows
<1> QED BY <1>4, <1>5, <1>6

(* A report that is rewritten has the blocks of the cells that were asked   *)
(* for, and the others' as they were.                                       *)
LEMMA ReportWritten ==
  ASSUME MatrixInv, NEW arm \in Arms, NEW cells, cells \subseteq Cells,
         reports' = WithBlocks(arm, cells, files[Evidence(arm)]), UNCHANGED <<files, erps>>
  PROVE  /\ reports' = [n \in Names |-> reports'[n]]
         /\ \A n \in Names : reports'[n] \in [torn : BOOLEAN, blocks : {reports'[n].blocks}]
         /\ BlocksOK'
         /\ \A a \in Arms, c \in Cells : Complete(a, c) => Complete(a, c)'
         /\ \A c \in cells :
              1..Reps \subseteq DoneReps(files[Evidence(arm)], c) => Complete(arm, c)'
<1> DEFINE n0 == Evidence(arm)
           new == [c \in cells |-> Block(files[n0], arm, c)]
           blocks == Merged(reports[n0].blocks, new)
<1>1. n0 \in Names /\ files[n0] \in MatrixFile
  BY NamesOK DEF MatrixInv, MatrixTypes
<1>2. /\ \A c \in cells : new[c].rows >= new[c].completed
      /\ \A c \in cells : 1..Reps \subseteq DoneReps(files[n0], c) => new[c].n >= Reps
  <2>1. \A c \in cells : new[c].rows >= new[c].completed
    BY EnoughRows
  <2>2. \A c \in cells : new[c].n = Cardinality(Lines(files[n0], c))
    BY DEF Block
  <2> QED BY <1>1, <2>1, <2>2, EnoughLines
<1>3. /\ DOMAIN blocks = DOMAIN reports[n0].blocks \union cells
      /\ \A c \in cells : blocks[c] = new[c]
      /\ \A c \in DOMAIN reports[n0].blocks \ cells : blocks[c] = reports[n0].blocks[c]
  BY DEF Merged
<1> HIDE DEF new
<1>4. /\ reports = [n \in Names |-> reports[n]]
      /\ \A n \in Names : reports[n] \in [torn : BOOLEAN, blocks : {reports[n].blocks}]
  BY DEF MatrixInv, MatrixTypes
<1>5. reports' = [reports EXCEPT ![n0].blocks = blocks]
  BY DEF WithBlocks, new
<1> HIDE DEF blocks
<1>6. reports'= [n \in Names |->
                   IF n = n0 THEN [torn |-> reports[n].torn, blocks |-> blocks] ELSE reports[n]]
  BY <1>1, <1>4, <1>5
<1>7. /\ reports' = [n \in Names |-> reports'[n]]
      /\ \A n \in Names : reports'[n] \in [torn : BOOLEAN, blocks : {reports'[n].blocks}]
  BY <1>4, <1>6
<1>8. BlocksOK'
  BY <1>1, <1>2, <1>3, <1>6 DEF BlocksOK, MatrixInv
<1>9. ASSUME NEW c \in cells, 1..Reps \subseteq DoneReps(files[n0], c)
      PROVE  Complete(arm, c)'
  BY <1>1, <1>2, <1>3, <1>6, <1>9 DEF Complete
<1>10. ASSUME NEW a \in Arms, NEW c \in Cells, Complete(a, c)
       PROVE  Complete(a, c)'
  <2>1. CASE a = arm /\ c \in cells
    BY <1>9, <1>10, <2>1 DEF Complete
  <2>2. CASE a = arm /\ c \notin cells
    BY <1>1, <1>3, <1>6, <1>10, <2>2 DEF Complete
  <2>3. CASE a # arm
    BY <1>6, <1>10, <2>3, ArmsApart, NamesOK DEF Complete
  <2> QED BY <2>1, <2>2, <2>3
<1> QED BY <1>7, <1>8, <1>9, <1>10

LEMMA ReportTruncated ==
  ASSUME MatrixInv, NEW arm \in Arms, reports' = Truncated(arm), UNCHANGED <<files, erps>>
  PROVE  /\ reports' = [n \in Names |-> reports'[n]]
         /\ \A n \in Names : reports'[n] \in [torn : BOOLEAN, blocks : {reports'[n].blocks}]
         /\ BlocksOK'
         /\ \A a \in Arms, c \in Cells : Complete(a, c) => Complete(a, c)'
<1> DEFINE n0 == Evidence(arm)
<1>1. n0 \in Names
  BY NamesOK
<1>2. /\ reports = [n \in Names |-> reports[n]]
      /\ \A n \in Names : reports[n] \in [torn : BOOLEAN, blocks : {reports[n].blocks}]
  BY DEF MatrixInv, MatrixTypes
<1>3. /\ reports' = [n \in Names |-> reports'[n]]
      /\ \A n \in Names : n # n0 => reports'[n] = reports[n]
      /\ reports'[n0] = [reports[n0] EXCEPT !.torn = TRUE]
  BY <1>1, <1>2 DEF Truncated
<1> DEFINE old == reports[n0]
           new == [old EXCEPT !.torn = TRUE]
<1>4. /\ reports'[n0] = new /\ new.torn /\ new.blocks = old.blocks
      /\ new \in [torn : BOOLEAN, blocks : {old.blocks}]
  <2>1. old \in [torn : BOOLEAN, blocks : {old.blocks}]
    BY <1>1, <1>2
  <2>2. reports'[n0] = new
    BY <1>3
  <2> HIDE DEF old
  <2> QED BY <2>1, <2>2
<1> HIDE DEF new
<1>5. \A n \in Names : reports'[n] \in [torn : BOOLEAN, blocks : {reports'[n].blocks}]
  BY <1>2, <1>3, <1>4
<1>6. BlocksOK'
  BY <1>3, <1>4 DEF BlocksOK, MatrixInv
<1>7. \A a \in Arms, c \in Cells : Complete(a, c) => Complete(a, c)'
  BY <1>3, <1>4, NamesOK DEF Complete
<1> QED BY <1>3, <1>5, <1>6, <1>7

(* The end of an invocation, or a report only, whatever the report became.  *)
LEMMA ReportEnds ==
  ASSUME MatrixInv, NEW arm \in Arms, NEW cell \in Cells,
         UNCHANGED <<files, erps, snapshots>>, job' = Idle, driver' \in Nat,
         reports' = [n \in Names |-> reports'[n]],
         \A n \in Names : reports'[n] \in [torn : BOOLEAN, blocks : {reports'[n].blocks}],
         BlocksOK', \A a \in Arms, c \in Cells : Complete(a, c) => Complete(a, c)',
         \/ finished' = finished /\ ended' = ended
         \/ /\ finished' = finished \union {<<arm, cell>>}
            /\ ended' = ended \union {<<arm, cell>>}
            /\ ~arm.pg /\ Complete(arm, cell)'
  PROVE  MatrixInv'
<1>1. MatrixTypes'
  BY DEF MatrixInv, MatrixTypes
<1>2. KnowsReps' /\ PendingFresh' /\ ExportComplete'
  BY DEF KnowsReps, PendingFresh, ExportComplete, Idle
<1>3. RepsOnce' /\ OwnRows' /\ NoReps'
  BY DEF MatrixInv, RepsOnce, OwnRows, NoReps
<1>4. FinishedComplete'
  <2>1. SUFFICES ASSUME NEW f \in finished' PROVE Complete(f[1], f[2])'
    BY DEF FinishedComplete
  <2>2. CASE f \in finished
    <3>1. f[1] \in Arms /\ f[2] \in Cells
      BY <2>2 DEF MatrixInv, MatrixTypes
    <3> QED BY <2>2, <3>1 DEF MatrixInv, FinishedComplete
  <2>3. CASE f = <<arm, cell>> /\ ~arm.pg /\ Complete(arm, cell)'
    BY <2>3
  <2> QED BY <2>2, <2>3
<1>5. CopiesOK' /\ EndedCopied'
  BY DEF MatrixInv, CopiesOK, EndedCopied
<1> QED BY <1>1, <1>2, <1>3, <1>4, <1>5 DEF MatrixInv

LEMMA ReportStays ==
  ASSUME MatrixInv, UNCHANGED <<files, erps, snapshots, finished, ended>>, job' = Idle,
         driver' \in Nat,
         reports' = [n \in Names |-> reports'[n]],
         \A n \in Names : reports'[n] \in [torn : BOOLEAN, blocks : {reports'[n].blocks}],
         BlocksOK', \A a \in Arms, c \in Cells : Complete(a, c) => Complete(a, c)'
  PROVE  MatrixInv'
<1>1. MatrixTypes'
  BY DEF MatrixInv, MatrixTypes
<1>2. KnowsReps' /\ PendingFresh' /\ ExportComplete'
  BY DEF KnowsReps, PendingFresh, ExportComplete, Idle
<1>3. RepsOnce' /\ OwnRows' /\ NoReps'
  BY DEF MatrixInv, RepsOnce, OwnRows, NoReps
<1>4. FinishedComplete'
  <2>1. \A f \in finished : f[1] \in Arms /\ f[2] \in Cells
    BY DEF MatrixInv, MatrixTypes
  <2> QED BY <2>1 DEF MatrixInv, FinishedComplete
<1>5. CopiesOK' /\ EndedCopied'
  BY DEF MatrixInv, CopiesOK, EndedCopied
<1> QED BY <1>1, <1>2, <1>3, <1>4, <1>5 DEF MatrixInv

(* An invocation that has no rep to run and can read the records has them   *)
(* all.                                                                     *)
LEMMA NothingMissing ==
  ASSUME KnowsReps, job # Idle, Missing(MyFile, job.cell, job.done) = {}, Readable(MyFile)
  PROVE  1..Reps \subseteq DoneReps(files[Evidence(job.arm)], job.cell)
BY DEF KnowsReps, Missing, MyFile

LEMMA ReportOK ==
  ASSUME MatrixInv, Report
  PROVE  MatrixInv'
<1>1. job # Idle /\ job \in MatrixJob
  BY DEF Report, Idle, MatrixInv, MatrixTypes
<1> PICK arm \in Arms, cell \in Cells : job.arm = arm /\ job.cell = cell
  BY <1>1 DEF MatrixJob
<1>2. UNCHANGED <<files, erps, snapshots, starts>> /\ driver \in Nat
  BY DEF Report, MatrixInv, MatrixTypes
<1>3. CASE ~(Readable(MyFile) /\ ~reports[Evidence(arm)].torn)
  BY <1>2, <1>3, StopsOK DEF Report, Returns
<1>4. CASE Readable(MyFile) /\ ~reports[Evidence(arm)].torn
  <2>1. reports' = WithBlocks(arm, {cell}, files[Evidence(arm)])
    BY <1>4 DEF Report, MyFile
  <2>2. 1..Reps \subseteq DoneReps(files[Evidence(arm)], cell)
    BY <1>1, <1>4, NothingMissing DEF Report, MatrixInv
  <2>3. /\ reports' = [n \in Names |-> reports'[n]]
        /\ \A n \in Names : reports'[n] \in [torn : BOOLEAN, blocks : {reports'[n].blocks}]
        /\ BlocksOK'
        /\ \A a \in Arms, c \in Cells : Complete(a, c) => Complete(a, c)'
        /\ Complete(arm, cell)'
    <3> DEFINE cells == {cell}
    <3>1. cells \subseteq Cells /\ cell \in cells
      OBVIOUS
    <3>2. reports' = WithBlocks(arm, cells, files[Evidence(arm)])
      BY <2>1
    <3> HIDE DEF cells
    <3> QED BY <1>2, <2>2, <3>1, <3>2, ReportWritten
  <2>4. CASE arm.pg
    <3>1. job' = [at |-> "export", arm |-> arm, cell |-> cell, driven |-> job.driven,
                  done |-> job.done, record |-> job.record]
      BY <1>1, <1>4, <2>4 DEF Report, MatrixJob
    <3>2. UNCHANGED <<finished, ended, driver>>
      BY <1>4, <2>4 DEF Report
    <3>3. job' \in MatrixJob
      BY <1>1, <3>1 DEF MatrixJob
    <3>4. MatrixTypes'
      BY <1>2, <2>3, <3>2, <3>3 DEF MatrixInv, MatrixTypes
    <3>5. MyFile' = MyFile
      BY <1>2, <3>1 DEF MyFile
    <3>6. KnowsReps'
      BY <1>1, <3>1, <3>5 DEF MatrixInv, KnowsReps
    <3>7. PendingFresh'
      BY <3>1 DEF PendingFresh
    <3>8. ExportComplete'
      <4>1. job'.arm = arm /\ job'.cell = cell
        BY <3>1
      <4> QED BY <2>3, <4>1 DEF ExportComplete, Complete
    <3>9. RepsOnce' /\ OwnRows' /\ NoReps'
      BY <1>2 DEF MatrixInv, RepsOnce, OwnRows, NoReps
    <3>10. FinishedComplete'
      <4>1. \A f \in finished : f[1] \in Arms /\ f[2] \in Cells
        BY DEF MatrixInv, MatrixTypes
      <4> QED BY <1>2, <2>3, <3>2, <4>1 DEF MatrixInv, FinishedComplete
    <3>11. CopiesOK' /\ EndedCopied'
      <4>1. job'.arm = arm /\ job'.cell = cell
        BY <3>1
      <4> QED BY <1>1, <1>2, <3>2, <4>1 DEF MatrixInv, CopiesOK, EndedCopied
    <3> QED BY <2>3, <3>4, <3>6, <3>7, <3>8, <3>9, <3>10, <3>11 DEF MatrixInv
  <2>5. CASE ~arm.pg
    <3>1. /\ job' = Idle /\ driver' \in Nat
          /\ \/ finished' = finished /\ ended' = ended
             \/ /\ finished' = finished \union {<<arm, cell>>}
                /\ ended' = ended \union {<<arm, cell>>}
      <4>1. Returns(ReturnCode)
        BY <1>4, <2>5 DEF Report
      <4>2. /\ job' = Idle
            /\ driver' = IF ~job.driven THEN driver ELSE IF ReturnCode = 0 THEN driver + 1 ELSE 0
        BY <4>1 DEF Returns
      <4>3. ReturnCode = 0 =>
              finished' = finished \union {<<arm, cell>>} /\ ended' = ended \union {<<arm, cell>>}
        BY <4>1 DEF Returns
      <4>4. ReturnCode # 0 => finished' = finished /\ ended' = ended
        BY <4>1 DEF Returns
      <4> QED BY <1>2, <4>2, <4>3, <4>4
    <3> QED BY <1>2, <2>3, <2>5, <3>1, ReportEnds
  <2> QED BY <2>4, <2>5
<1> QED BY <1>3, <1>4

(* The copy of the cell in hand is of a complete one, and no other's. *)
LEMMA ExportSteps ==
  ASSUME MatrixInv, job.at \in {"export", "copy"}, NEW copy,
         snapshots' = [snapshots EXCEPT ![MyErp] = copy],
         copy.state = "whole" => copy.keys = erps[MyErp], UNCHANGED <<files, erps>>
  PROVE  /\ job \in MatrixJob /\ job # Idle /\ Complete(job.arm, job.cell)
         /\ snapshots' = [d \in Databases |-> snapshots'[d]]
         /\ snapshots'[MyErp] = copy
         /\ CopiesOK'
         /\ \A f \in ended : f[1].pg => snapshots'[Database(f[1], f[2])].state = "whole"
<1>1. job \in MatrixJob /\ job # Idle
  BY DEF Idle, MatrixInv, MatrixTypes
<1>2. MyErp = Database(job.arm, job.cell) /\ MyErp \in Databases
  BY <1>1, NamesOK DEF MyErp, MatrixJob
<1>3. Complete(job.arm, job.cell)
  BY DEF MatrixInv, ExportComplete
<1>4. snapshots = [d \in Databases |-> snapshots[d]]
  BY DEF MatrixInv, MatrixTypes
<1>5. /\ snapshots' = [d \in Databases |-> snapshots'[d]]
      /\ snapshots'[MyErp] = copy
      /\ \A d \in Databases \ {MyErp} : snapshots'[d] = snapshots[d]
  BY <1>2, <1>4
<1>6. ASSUME NEW a \in Arms, NEW c \in Cells, Database(a, c) = MyErp
      PROVE  a = job.arm /\ c = job.cell
  BY <1>1, <1>2, <1>6, ArmsApart DEF MatrixJob
<1>7. ASSUME NEW a \in Arms, NEW c \in Cells, snapshots'[Database(a, c)].state = "whole"
      PROVE  /\ 1..Reps \subseteq DoneReps(files[Evidence(a)], c)
             /\ snapshots'[Database(a, c)].keys = erps[Database(a, c)]
  <2>1. CASE Database(a, c) = MyErp
    BY <1>3, <1>5, <1>6, <1>7, <2>1 DEF Complete
  <2>2. CASE Database(a, c) # MyErp
    BY <1>5, <1>7, <2>2, NamesOK DEF MatrixInv, CopiesOK
  <2> QED BY <2>1, <2>2
<1>8. CopiesOK'
  BY <1>7 DEF CopiesOK
<1>9. ASSUME NEW f \in ended, f[1].pg
      PROVE  snapshots'[Database(f[1], f[2])].state = "whole"
  <2>1. f[1] \in Arms /\ f[2] \in Cells /\ f = <<f[1], f[2]>>
    BY DEF MatrixInv, MatrixTypes
  <2>2. f # <<job.arm, job.cell>>
    BY <1>1 DEF MatrixInv, EndedCopied
  <2>3. Database(f[1], f[2]) # MyErp
    BY <1>6, <2>1, <2>2
  <2> QED BY <1>5, <1>9, <2>1, <2>3, NamesOK DEF MatrixInv, EndedCopied
<1> QED BY <1>1, <1>3, <1>5, <1>8, <1>9

LEMMA BeginExportOK ==
  ASSUME MatrixInv, BeginExport
  PROVE  MatrixInv'
<1>1. PICK copy \in {NoCopy, EmptyCopy} : snapshots' = [snapshots EXCEPT ![MyErp] = copy]
  BY DEF BeginExport
<1>2. /\ UNCHANGED <<files, erps, reports, driver, finished, ended>>
      /\ job.at = "export" /\ job' = [job EXCEPT !.at = "copy"]
  BY DEF BeginExport
<1>3. copy.state # "whole"
  BY DEF NoCopy, EmptyCopy
<1>4. /\ job \in MatrixJob /\ job # Idle /\ Complete(job.arm, job.cell)
      /\ snapshots' = [d \in Databases |-> snapshots'[d]]
      /\ CopiesOK'
      /\ \A f \in ended : f[1].pg => snapshots'[Database(f[1], f[2])].state = "whole"
  BY <1>1, <1>2, <1>3, ExportSteps
<1>5. job' = [at |-> "copy", arm |-> job.arm, cell |-> job.cell, driven |-> job.driven,
              done |-> job.done, record |-> job.record]
  BY <1>2, <1>4 DEF MatrixJob
<1>6. job' \in MatrixJob
  BY <1>4, <1>5 DEF MatrixJob
<1>7. MatrixTypes'
  BY <1>2, <1>4, <1>6 DEF MatrixInv, MatrixTypes
<1>8. MyFile' = MyFile /\ job'.arm = job.arm /\ job'.cell = job.cell /\ job'.done = job.done
  BY <1>2, <1>5 DEF MyFile
<1>9. KnowsReps' /\ PendingFresh'
  BY <1>4, <1>5, <1>8 DEF MatrixInv, KnowsReps, PendingFresh
<1>10. ExportComplete' /\ FinishedComplete'
  BY <1>2, <1>4, <1>8 DEF MatrixInv, ExportComplete, FinishedComplete, Complete
<1>11. RepsOnce' /\ OwnRows' /\ BlocksOK' /\ NoReps'
  BY <1>2 DEF MatrixInv, RepsOnce, OwnRows, BlocksOK, NoReps
<1>12. EndedCopied'
  BY <1>2, <1>4, <1>8 DEF MatrixInv, EndedCopied
<1> QED BY <1>4, <1>7, <1>9, <1>10, <1>11, <1>12 DEF MatrixInv

LEMMA CommitExportOK ==
  ASSUME MatrixInv, CommitExport
  PROVE  MatrixInv'
<1> DEFINE copy == WholeCopy(erps[MyErp])
           mine == <<job.arm, job.cell>>
<1>1. /\ UNCHANGED <<files, erps, reports>> /\ job.at = "copy" /\ job' = Idle /\ driver' \in Nat
      /\ snapshots' = [snapshots EXCEPT ![MyErp] = copy]
      /\ \/ finished' = finished /\ ended' = ended
         \/ finished' = finished \union {mine} /\ ended' = ended \union {mine}
  BY DEF CommitExport, Returns, MatrixInv, MatrixTypes
<1>2. copy.state = "whole" /\ copy.keys = erps[MyErp]
  BY DEF WholeCopy
<1> HIDE DEF copy
<1>3. /\ job \in MatrixJob /\ job # Idle /\ Complete(job.arm, job.cell)
      /\ snapshots' = [d \in Databases |-> snapshots'[d]]
      /\ snapshots'[MyErp] = copy
      /\ CopiesOK'
      /\ \A f \in ended : f[1].pg => snapshots'[Database(f[1], f[2])].state = "whole"
  BY <1>1, <1>2, ExportSteps
<1>4. mine \in Arms \X Cells /\ MyErp = Database(mine[1], mine[2])
  BY <1>3 DEF MatrixJob, MyErp
<1>5. MatrixTypes'
  BY <1>1, <1>3, <1>4 DEF MatrixInv, MatrixTypes
<1>6. KnowsReps' /\ PendingFresh' /\ ExportComplete'
  BY <1>1 DEF KnowsReps, PendingFresh, ExportComplete, Idle
<1>7. RepsOnce' /\ OwnRows' /\ BlocksOK' /\ NoReps'
  BY <1>1 DEF MatrixInv, RepsOnce, OwnRows, BlocksOK, NoReps
<1>8. FinishedComplete'
  <2>1. \A f \in finished' : Complete(f[1], f[2])
    BY <1>1, <1>3 DEF MatrixInv, FinishedComplete
  <2> QED BY <1>1, <2>1 DEF FinishedComplete, Complete
<1>9. EndedCopied'
  BY <1>1, <1>2, <1>3, <1>4 DEF EndedCopied
<1> QED BY <1>3, <1>5, <1>6, <1>7, <1>8, <1>9 DEF MatrixInv

LEMMA ReportOnlyOK ==
  ASSUME MatrixInv, ReportOnly
  PROVE  MatrixInv'
<1>1. PICK arm \in Arms :
        LET file == files[Evidence(arm)]
        IN  IF Readable(file) /\ Records(file) # {} /\ ~reports[Evidence(arm)].torn
            THEN reports' \in {WithBlocks(arm, {r.cell : r \in Records(file)}, file),
                               Truncated(arm)}
            ELSE UNCHANGED reports
  BY DEF ReportOnly
<1>2. /\ UNCHANGED <<files, erps, snapshots, job, finished, ended>> /\ job = Idle /\ driver' \in Nat
  BY DEF ReportOnly, MatrixInv, MatrixTypes
<1>3. CASE UNCHANGED reports
  BY <1>2, <1>3, Unmoved
<1> DEFINE cells == {r.cell : r \in Records(files[Evidence(arm)])}
<1>4. cells \subseteq Cells
  <2>1. files[Evidence(arm)] \in MatrixFile
    BY NamesOK DEF MatrixInv, MatrixTypes
  <2>2. Records(files[Evidence(arm)]) \subseteq MatrixRecord
    BY <2>1 DEF MatrixFile, Records, ToSet
  <2>3. \A r \in Records(files[Evidence(arm)]) : r.cell \in Cells
    BY <2>2 DEF MatrixRecord
  <2> QED BY <2>3
<1>5. CASE reports' = WithBlocks(arm, cells, files[Evidence(arm)])
  <2> HIDE DEF cells
  <2>1. /\ reports' = [n \in Names |-> reports'[n]]
        /\ \A n \in Names : reports'[n] \in [torn : BOOLEAN, blocks : {reports'[n].blocks}]
        /\ BlocksOK'
        /\ \A a \in Arms, c \in Cells : Complete(a, c) => Complete(a, c)'
    BY <1>2, <1>4, <1>5, ReportWritten
  <2> QED BY <1>2, <2>1, ReportStays
<1>6. CASE reports' = Truncated(arm)
  <2>1. /\ reports' = [n \in Names |-> reports'[n]]
        /\ \A n \in Names : reports'[n] \in [torn : BOOLEAN, blocks : {reports'[n].blocks}]
        /\ BlocksOK'
        /\ \A a \in Arms, c \in Cells : Complete(a, c) => Complete(a, c)'
    BY <1>2, <1>6, ReportTruncated
  <2> QED BY <1>2, <2>1, ReportStays
<1> QED BY <1>1, <1>3, <1>5, <1>6

LEMMA DiesOK ==
  ASSUME MatrixInv, Dies
  PROVE  MatrixInv'
BY StopsOK DEF Dies, Stops, MatrixInv, MatrixTypes

LEMMA DiesInReportOK ==
  ASSUME MatrixInv, DiesInReport
  PROVE  MatrixInv'
<1>1. job \in MatrixJob
  BY DEF DiesInReport, Stops, Idle, MatrixInv, MatrixTypes
<1> PICK arm \in Arms : job.arm = arm
  BY <1>1 DEF MatrixJob
<1>2. /\ reports' = Truncated(arm) /\ job' = Idle /\ driver' \in Nat
      /\ UNCHANGED <<files, erps, snapshots, finished, ended>>
  BY DEF DiesInReport, Stops, MatrixInv, MatrixTypes
<1>3. /\ reports' = [n \in Names |-> reports'[n]]
      /\ \A n \in Names : reports'[n] \in [torn : BOOLEAN, blocks : {reports'[n].blocks}]
      /\ BlocksOK'
      /\ \A a \in Arms, c \in Cells : Complete(a, c) => Complete(a, c)'
  BY <1>2, ReportTruncated
<1> QED BY <1>2, <1>3, ReportStays

LEMMA DiesInAppendOK ==
  ASSUME MatrixInv, DiesInAppend
  PROVE  MatrixInv'
<1> DEFINE n == Evidence(job.arm)
<1>1. job # Idle /\ job \in MatrixJob /\ job.at = "append"
  BY DEF DiesInAppend, Idle, MatrixInv, MatrixTypes
<1> PICK r \in job.record :
      \E g \in TornAppends(MyFile, r) : files' = [files EXCEPT ![n] = g]
  BY DEF DiesInAppend
<1>2. PICK g \in TornAppends(MyFile, r) : files' = [files EXCEPT ![n] = g]
  OBVIOUS
<1>3. /\ UNCHANGED <<erps, reports, snapshots, finished, ended>> /\ job' = Idle /\ driver' \in Nat
  BY DEF DiesInAppend, Stops, MatrixInv, MatrixTypes
<1>4. /\ files' \in [Names -> MatrixFile]
      /\ \A m \in Names : Records(files[m]) \subseteq Records(files'[m])
  BY <1>1, <1>2, RecordsGrow DEF MatrixInv
<1>5. MatrixTypes'
  BY <1>3, <1>4 DEF MatrixInv, MatrixTypes
<1>6. RepsOnce'
  BY <1>1, <1>2, RepsOnceGrow
<1>7. OwnRows'
  BY <1>1, <1>2, <1>3, OwnRowsGrow
<1>8. KnowsReps' /\ PendingFresh' /\ ExportComplete'
  BY <1>3 DEF KnowsReps, PendingFresh, ExportComplete, Idle
<1>9. BlocksOK' /\ NoReps'
  BY <1>3 DEF MatrixInv, BlocksOK, NoReps
<1>10. FinishedComplete'
  BY <1>3, <1>4, CompleteGrow, NamesOK DEF MatrixInv, FinishedComplete, MatrixTypes
<1>11. CopiesOK' /\ EndedCopied'
  BY <1>3, <1>4, CopiesStay DEF MatrixInv, EndedCopied
<1> QED BY <1>5, <1>6, <1>7, <1>8, <1>9, <1>10, <1>11 DEF MatrixInv

LEMMA MatrixInitOK ==
  ASSUME MatrixInit
  PROVE  MatrixInv
<1>1. \A n \in Names : /\ files[n] = NoFile /\ files[n].lines = <<>>
                       /\ reports[n].blocks = [c \in {} |-> {}] /\ ~reports[n].torn
                       /\ reports[n] \in [torn : BOOLEAN, blocks : {reports[n].blocks}]
  BY DEF MatrixInit, NoFile, NoReport
<1>2. \A d \in Databases : erps[d] = {} /\ snapshots[d].state # "whole"
  BY DEF MatrixInit, NoCopy
<1>3. NoFile \in MatrixFile
  BY DEF NoFile, MatrixFile, FileStates
<1>4. MatrixTypes
  BY <1>1, <1>2, <1>3, FS_EmptySet DEF MatrixInit, MatrixTypes
<1>5. KnowsReps /\ PendingFresh /\ ExportComplete /\ FinishedComplete
  BY DEF MatrixInit, KnowsReps, PendingFresh, ExportComplete, FinishedComplete, Idle
<1>6. RepsOnce /\ BlocksOK
  BY <1>1 DEF RepsOnce, BlocksOK
<1>7. OwnRows
  BY <1>1, NamesOK DEF OwnRows, Lines
<1>8. NoReps
  BY <1>2 DEF NoReps
<1>9. CopiesOK /\ EndedCopied
  BY <1>2, NamesOK DEF MatrixInit, CopiesOK, EndedCopied
<1> QED BY <1>4, <1>5, <1>6, <1>7, <1>8, <1>9 DEF MatrixInv

LEMMA MatrixUnchanged ==
  ASSUME MatrixInv, UNCHANGED matrixVars
  PROVE  MatrixInv'
BY Unmoved DEF matrixVars, MatrixInv, MatrixTypes

-----------------------------------------------------------------------------
(* The sweep and the baseline.                                              *)

(* A write of a record whose key is not on record keeps the keys apart. *)
LEMMA FileWritten ==
  ASSUME NEW file, IsFile(file), NEW r, NEW g, g = Appended(file, r) \/ g \in TornAppends(file, r)
  PROVE  /\ IsFile(g)
         /\ Records(file) \subseteq Records(g)
         /\ Records(g) \subseteq Records(file) \union {r}
         /\ Keys(g) \subseteq Keys(file) \union {KeyOfRecord(r)}
         /\ file.lines # <<>> => g.lines # <<>>
         /\ OnceIn(file) /\ KeyOfRecord(r) \notin Keys(file) => OnceIn(g)
<1>1. PICK S : file \in [lines : Seq(S), state : FileStates]
  BY DEF IsFile
<1> DEFINE T == S \union {r}
           s == file.lines
           k == Len(s) + 1
<1>2. file \in [lines : Seq(T), state : FileStates] /\ r \in T /\ s \in Seq(T)
  <2>1. \A q \in Seq(S) : q \in Seq(T)
    OBVIOUS
  <2> HIDE DEF T
  <2> QED BY <1>1, <2>1 DEF T
<1> HIDE DEF T
<1>3. /\ g \in [lines : Seq(T), state : FileStates]
      /\ g.lines = s \/ g.lines = Append(s, r)
  BY <1>2, Writing
<1>4. IsFile(g)
  BY <1>3, Zenon DEF IsFile
<1>5. /\ DOMAIN Append(s, r) = DOMAIN s \union {k} /\ k \notin DOMAIN s
      /\ \A i \in DOMAIN s : Append(s, r)[i] = s[i]
      /\ Append(s, r)[k] = r
  BY <1>2, Appending
<1>6. ToSet(Append(s, r)) = ToSet(s) \union {r}
  BY <1>2, AppendedRange, Zenon
<1>7. Records(file) \subseteq Records(g) /\ Records(g) \subseteq Records(file) \union {r}
  BY <1>3, <1>6 DEF Records
<1>8. Keys(g) \subseteq Keys(file) \union {KeyOfRecord(r)}
  BY <1>7, Zenon DEF Keys
<1>9. s # <<>> => g.lines # <<>>
  <2>1. Append(s, r) # <<>>
    BY <1>2
  <2> QED BY <1>3, <2>1
<1>10. ASSUME OnceIn(file), KeyOfRecord(r) \notin Keys(file)
       PROVE  OnceIn(g)
  <2>1. \A i \in DOMAIN s : KeyOfRecord(s[i]) \in Keys(file)
    BY DEF Keys, Records, ToSet
  <2> HIDE DEF s, k
  <2>2. SUFFICES ASSUME NEW i \in DOMAIN g.lines, NEW j \in DOMAIN g.lines,
                        KeyOfRecord(g.lines[i]) = KeyOfRecord(g.lines[j])
                 PROVE  i = j
    BY DEF OnceIn
  <2>3. CASE g.lines = s
    BY <1>10, <2>2, <2>3 DEF OnceIn, s
  <2>4. CASE g.lines = Append(s, r)
    <3>1. /\ (i \in DOMAIN s /\ g.lines[i] = s[i]) \/ (i = k /\ g.lines[i] = r)
          /\ (j \in DOMAIN s /\ g.lines[j] = s[j]) \/ (j = k /\ g.lines[j] = r)
      BY <1>5, <2>2, <2>4
    <3>2. \A a, b \in DOMAIN s : KeyOfRecord(s[a]) = KeyOfRecord(s[b]) => a = b
      BY <1>10 DEF OnceIn, s
    <3> QED BY <1>10, <2>1, <2>2, <3>1, <3>2
  <2> QED BY <1>3, <2>3, <2>4
<1> QED BY <1>4, <1>7, <1>8, <1>9, <1>10

(* What is to be measured next is one of the points generated today, and    *)
(* not on record.                                                           *)
LEMMA DueItem ==
  ASSUME NEW reps, NEW model, NEW keys, NEW item \in Foremost(Due(Agenda(reps), model, keys))
  PROVE  /\ KeyOf(model, item) \notin keys
         /\ item.size \in Sizes /\ item.nr \in SizePoints[item.size]
BY DEF Foremost, Due, Agenda

LEMMA EmptyHasNone ==
  ASSUME NEW file, file.lines = <<>>
  PROVE  Records(file) = {} /\ Keys(file) = {} /\ OnceIn(file)
<1>1. Records(file) = {}
  BY DEF Records, ToSet
<1> QED BY <1>1 DEF Keys, OnceIn

LEMMA NoFileIsFile == IsFile(NoFile)
<1>1. NoFile \in [lines : Seq({}), state : FileStates]
  BY DEF NoFile, FileStates
<1> QED BY <1>1, Zenon DEF IsFile

(* A line of the sweep. *)
LEMMA SweepWrites ==
  ASSUME SelectionInv, sweepJob # SweepIdle, NEW r, Generated(r),
         KeyOfRecord(r) \notin sweepJob.keys,
         sweepFile' = Appended(sweepFile, r) \/ sweepFile' \in TornAppends(sweepFile, r),
         UNCHANGED baselineVars,
         \/ sweepJob' = SweepIdle
         \/ \E n : sweepJob' = [sweepJob EXCEPT !.made = n, !.keys = @ \union {KeyOfRecord(r)}]
  PROVE  SelectionInv'
<1>1. UNCHANGED <<artifact, calibrations, evalFile, evalJob>>
  BY DEF baselineVars
<1>2. IsFile(sweepFile) /\ OnceIn(sweepFile) /\ Keys(sweepFile) \subseteq sweepJob.keys
  BY DEF SelectionInv, SelectionTypes, KeysOnce, KnowsKeys
<1>3. /\ IsFile(sweepFile') /\ OnceIn(sweepFile')
      /\ Records(sweepFile') \subseteq Records(sweepFile) \union {r}
      /\ Keys(sweepFile') \subseteq Keys(sweepFile) \union {KeyOfRecord(r)}
  BY <1>2, FileWritten
<1>4. sweepJob' # SweepIdle =>
        /\ IsSweepJob(sweepJob')
        /\ sweepJob'.keys = sweepJob.keys \union {KeyOfRecord(r)}
  <2>1. SUFFICES ASSUME NEW n, sweepJob' = [sweepJob EXCEPT !.made = n,
                                              !.keys = @ \union {KeyOfRecord(r)}]
                 PROVE  /\ IsSweepJob(sweepJob')
                        /\ sweepJob'.keys = sweepJob.keys \union {KeyOfRecord(r)}
    BY Zenon
  <2>2. IsSweepJob(sweepJob)
    BY DEF SelectionInv, SelectionTypes
  <2> QED BY <2>1, <2>2 DEF IsSweepJob
<1>5. SelectionTypes'
  BY <1>1, <1>3, <1>4 DEF SelectionInv, SelectionTypes
<1>6. KnowsKeys'
  BY <1>1, <1>2, <1>3, <1>4 DEF SelectionInv, KnowsKeys
<1>7. KeysOnce'
  BY <1>1, <1>3 DEF SelectionInv, KeysOnce
<1>8. Calibrated'
  BY <1>1 DEF SelectionInv, Calibrated
<1>9. GeneratedToday'
  <2>1. \A s \in Records(sweepFile') : s \in Records(sweepFile) \/ s = r
    BY <1>3
  <2> QED BY <1>1, <2>1 DEF SelectionInv, GeneratedToday
<1> QED BY <1>5, <1>6, <1>7, <1>8, <1>9 DEF SelectionInv

LEMMA SelectionUnmoved ==
  ASSUME SelectionInv, UNCHANGED <<sweepFile, sweepJob, evalFile, evalJob, artifact, calibrations>>
  PROVE  SelectionInv'
<1>1. SelectionTypes' /\ KnowsKeys' /\ KeysOnce'
  BY DEF SelectionInv, SelectionTypes, KnowsKeys, KeysOnce
<1>2. Calibrated' /\ GeneratedToday'
  BY DEF SelectionInv, Calibrated, GeneratedToday
<1> QED BY <1>1, <1>2 DEF SelectionInv

LEMMA SweepStops ==
  ASSUME SelectionInv, UNCHANGED <<sweepFile, evalFile, evalJob, artifact, calibrations>>,
         sweepJob' = SweepIdle
  PROVE  SelectionInv'
<1>1. SelectionTypes' /\ KnowsKeys' /\ KeysOnce'
  BY DEF SelectionInv, SelectionTypes, KnowsKeys, KeysOnce
<1>2. Calibrated' /\ GeneratedToday'
  BY DEF SelectionInv, Calibrated, GeneratedToday
<1> QED BY <1>1, <1>2 DEF SelectionInv

LEMMA StartSweepOK ==
  ASSUME SelectionInv, StartSweep, UNCHANGED baselineVars
  PROVE  SelectionInv'
<1>1. PICK model \in Models, budget \in Budgets :
        sweepJob' = [at |-> "points", model |-> model, budget |-> budget, made |-> 0,
                     keys |-> Keys(sweepFile)]
  BY DEF StartSweep
<1>2. UNCHANGED <<sweepFile, evalFile, evalJob, artifact, calibrations>>
  BY DEF StartSweep, baselineVars
<1>3. SelectionTypes' /\ KnowsKeys' /\ KeysOnce'
  BY <1>1, <1>2 DEF SelectionInv, SelectionTypes, IsSweepJob, KnowsKeys, KeysOnce
<1>4. Calibrated' /\ GeneratedToday'
  BY <1>2 DEF SelectionInv, Calibrated, GeneratedToday
<1> QED BY <1>3, <1>4 DEF SelectionInv

LEMMA AnsweredOK ==
  ASSUME NEW item \in Foremost(Unmeasured), NEW chosen
  PROVE  LET r == Answered(item, sweepJob.model, chosen)
         IN  /\ KeyOfRecord(r) = KeyOf(sweepJob.model, item)
             /\ KeyOfRecord(r) \notin sweepJob.keys /\ Generated(r)
<1> DEFINE r == Answered(item, sweepJob.model, chosen)
<1>1. /\ r.model = sweepJob.model /\ r.rep = item.rep /\ r.size = item.size
      /\ r.point = Points[item.nr]
  BY DEF Answered
<1>2. KeyOf(sweepJob.model, item) \notin sweepJob.keys /\ item.size \in Sizes
        /\ item.nr \in SizePoints[item.size]
  BY DueItem DEF Unmeasured, SweepAgenda
<1> HIDE DEF r
<1>3. KeyOfRecord(r) = KeyOf(sweepJob.model, item)
  BY <1>1 DEF KeyOfRecord, KeyOf
<1>4. Generated(r)
  BY <1>1, <1>2 DEF Generated
<1> QED BY <1>2, <1>3, <1>4 DEF r

LEMMA RunPointOK ==
  ASSUME SelectionInv, RunPoint, UNCHANGED baselineVars
  PROVE  SelectionInv'
<1>1. PICK chosen \in Answers, item \in Foremost(Unmeasured) :
        /\ sweepFile' = Appended(sweepFile, Answered(item, sweepJob.model, chosen))
        /\ sweepJob' = [sweepJob EXCEPT !.made = @ + 1,
                                        !.keys = @ \union {KeyOf(sweepJob.model, item)}]
  BY DEF RunPoint
<1>2. sweepJob # SweepIdle
  BY DEF RunPoint, SweepIdle
<1> DEFINE r == Answered(item, sweepJob.model, chosen)
<1>3. /\ KeyOfRecord(r) = KeyOf(sweepJob.model, item)
      /\ KeyOfRecord(r) \notin sweepJob.keys /\ Generated(r)
  BY AnsweredOK
<1>4. \E n : sweepJob' = [sweepJob EXCEPT !.made = n, !.keys = @ \union {KeyOfRecord(r)}]
  BY <1>1, <1>3, Zenon
<1>5. sweepFile' = Appended(sweepFile, r)
  BY <1>1
<1> HIDE DEF r
<1> QED BY <1>2, <1>3, <1>4, <1>5, SweepWrites

LEMMA SweepDiesOK ==
  ASSUME SelectionInv, SweepDies, UNCHANGED baselineVars
  PROVE  SelectionInv'
<1>1. sweepJob # SweepIdle /\ sweepJob' = SweepIdle
  BY DEF SweepDies
<1>2. CASE UNCHANGED sweepFile
  BY <1>1, <1>2, SweepStops DEF baselineVars
<1>3. ASSUME NEW chosen \in Answers, NEW item \in Foremost(Unmeasured),
             sweepFile' \in TornAppends(sweepFile, Answered(item, sweepJob.model, chosen))
      PROVE  SelectionInv'
  <2> DEFINE r == Answered(item, sweepJob.model, chosen)
  <2>1. KeyOfRecord(r) \notin sweepJob.keys /\ Generated(r)
    BY AnsweredOK
  <2>2. sweepFile' \in TornAppends(sweepFile, r)
    BY <1>3
  <2> HIDE DEF r
  <2> QED BY <1>1, <2>1, <2>2, SweepWrites
<1> QED BY <1>2, <1>3 DEF SweepDies

(* A line of the baseline. *)
LEMMA EvalWrites ==
  ASSUME SelectionInv, evalJob # EvalIdle, NEW r, Generated(r),
         r.calibration = evalJob.calibration, r.tau = evalJob.tau,
         KeyOfRecord(r) \notin evalJob.keys,
         evalFile' = Appended(evalFile, r) \/ evalFile' \in TornAppends(evalFile, r),
         UNCHANGED <<sweepVars, artifact, calibrations>>,
         \/ evalJob' = EvalIdle
         \/ \E n : evalJob' = [evalJob EXCEPT !.made = n, !.keys = @ \union {KeyOfRecord(r)}]
  PROVE  SelectionInv'
<1>1. UNCHANGED <<artifact, calibrations, sweepFile, sweepJob>>
  BY DEF sweepVars
<1>2. IsFile(evalFile) /\ OnceIn(evalFile) /\ Keys(evalFile) \subseteq evalJob.keys
  BY DEF SelectionInv, SelectionTypes, KeysOnce, KnowsKeys
<1>3. /\ IsFile(evalFile') /\ OnceIn(evalFile')
      /\ Records(evalFile') \subseteq Records(evalFile) \union {r}
      /\ Keys(evalFile') \subseteq Keys(evalFile) \union {KeyOfRecord(r)}
  BY <1>2, FileWritten
<1>4. evalJob' # EvalIdle =>
        /\ IsEvalJob(evalJob')
        /\ evalJob'.keys = evalJob.keys \union {KeyOfRecord(r)}
        /\ evalJob'.calibration = evalJob.calibration /\ evalJob'.tau = evalJob.tau
  <2>1. SUFFICES ASSUME NEW n, evalJob' = [evalJob EXCEPT !.made = n,
                                             !.keys = @ \union {KeyOfRecord(r)}]
                 PROVE  /\ IsEvalJob(evalJob')
                        /\ evalJob'.keys = evalJob.keys \union {KeyOfRecord(r)}
                        /\ evalJob'.calibration = evalJob.calibration
                        /\ evalJob'.tau = evalJob.tau
    BY Zenon
  <2>2. IsEvalJob(evalJob)
    BY DEF SelectionInv, SelectionTypes
  <2> QED BY <2>1, <2>2 DEF IsEvalJob
<1>5. SelectionTypes'
  BY <1>1, <1>3, <1>4 DEF SelectionInv, SelectionTypes
<1>6. KnowsKeys'
  BY <1>1, <1>2, <1>3, <1>4 DEF SelectionInv, KnowsKeys
<1>7. KeysOnce'
  BY <1>1, <1>3 DEF SelectionInv, KeysOnce
<1>8. \A s \in Records(evalFile') : s \in Records(evalFile) \/ s = r
  BY <1>3
<1>9. Calibrated'
  <2>1. /\ evalJob.calibration \in 1..calibrations
        /\ artifact.at = "frozen" /\ artifact.id = evalJob.calibration => artifact.tau = evalJob.tau
        /\ \A s \in Records(evalFile) :
             s.calibration = evalJob.calibration /\ s.tau = evalJob.tau
    BY DEF SelectionInv, Calibrated
  <2>2. \A s \in Records(evalFile') :
          s.calibration = evalJob.calibration /\ s.tau = evalJob.tau
    BY <1>8, <2>1
  <2>3. artifact.at = "frozen" => artifact.id \in 1..calibrations
    BY DEF SelectionInv, Calibrated
  <2> QED BY <1>1, <1>4, <2>1, <2>2, <2>3 DEF Calibrated
<1>10. GeneratedToday'
  BY <1>1, <1>8 DEF SelectionInv, GeneratedToday
<1> QED BY <1>5, <1>6, <1>7, <1>9, <1>10 DEF SelectionInv

LEMMA EvaluatedOK ==
  ASSUME NEW item \in Foremost(Unevaluated)
  PROVE  LET r == Evaluated(item)
         IN  /\ KeyOfRecord(r) = KeyOf(evalJob.model, item)
             /\ KeyOfRecord(r) \notin evalJob.keys /\ Generated(r)
             /\ r.calibration = evalJob.calibration /\ r.tau = evalJob.tau
<1> DEFINE r == Evaluated(item)
<1>1. /\ r.model = evalJob.model /\ r.rep = item.rep /\ r.size = item.size
      /\ r.point = Points[item.nr]
      /\ r.calibration = evalJob.calibration /\ r.tau = evalJob.tau
  BY DEF Evaluated
<1>2. KeyOf(evalJob.model, item) \notin evalJob.keys /\ item.size \in Sizes
        /\ item.nr \in SizePoints[item.size]
  BY DueItem DEF Unevaluated, EvalAgenda
<1> HIDE DEF r
<1>3. KeyOfRecord(r) = KeyOf(evalJob.model, item)
  BY <1>1 DEF KeyOfRecord, KeyOf
<1>4. Generated(r)
  BY <1>1, <1>2 DEF Generated
<1> QED BY <1>1, <1>2, <1>3, <1>4 DEF r

(* A new calibration has a number of its own. *)
LEMMA CalibrateOK ==
  ASSUME SelectionInv, Calibrate, UNCHANGED sweepVars
  PROVE  SelectionInv'
<1>1. /\ calibrations' = calibrations + 1 /\ calibrations \in Nat
      /\ UNCHANGED <<sweepFile, sweepJob, evalFile, evalJob>>
  BY DEF Calibrate, sweepVars, SelectionInv, SelectionTypes
<1>2. artifact'.at = "frozen" => artifact'.id = calibrations'
  BY DEF Calibrate, Torn
<1>3. SelectionTypes' /\ KnowsKeys' /\ KeysOnce' /\ GeneratedToday'
  BY <1>1 DEF SelectionInv, SelectionTypes, KnowsKeys, KeysOnce, GeneratedToday
<1>4. \A id \in 1..calibrations : id \in 1..calibrations' /\ id # calibrations'
  BY <1>1
<1>5. Calibrated'
  <2>1. calibrations' \in 1..calibrations'
    BY <1>1
  <2>2. artifact'.at = "frozen" => artifact'.id \in 1..calibrations'
    BY <1>2, <2>1
  <2>3. evalJob # EvalIdle => evalJob.calibration \in 1..calibrations
    BY DEF SelectionInv, Calibrated
  <2>4. \A r \in Records(evalFile) :
          /\ r.calibration \in 1..calibrations
          /\ evalJob # EvalIdle => r.calibration = evalJob.calibration /\ r.tau = evalJob.tau
    BY DEF SelectionInv, Calibrated
  <2>5. \A a, b \in Records(evalFile) : a.calibration = b.calibration /\ a.tau = b.tau
    BY DEF SelectionInv, Calibrated
  <2> QED BY <1>1, <1>2, <1>4, <2>2, <2>3, <2>4, <2>5, Zenon DEF Calibrated
<1> QED BY <1>3, <1>5 DEF SelectionInv

LEMMA StartEvalOK ==
  ASSUME SelectionInv, StartEval, UNCHANGED sweepVars
  PROVE  SelectionInv'
<1>1. PICK budget \in Budgets :
        evalJob' = [at |-> "points", model |-> artifact.model, calibration |-> artifact.id,
                    tau |-> artifact.tau, budget |-> budget, made |-> 0, keys |-> Keys(evalFile)]
  BY DEF StartEval
<1>2. UNCHANGED <<sweepFile, sweepJob, evalFile, artifact, calibrations>>
  BY DEF StartEval, sweepVars
<1>3. artifact.at = "frozen" /\ DatasetMatches /\ CalibrationUnchanged(evalFile, artifact.id)
  BY DEF StartEval
<1>4. SelectionTypes' /\ KnowsKeys' /\ KeysOnce'
  BY <1>1, <1>2 DEF SelectionInv, SelectionTypes, IsEvalJob, KnowsKeys, KeysOnce
<1>5. evalJob'.calibration = artifact.id /\ evalJob'.tau = artifact.tau
  BY <1>1
<1>6. Calibrated'
  BY <1>2, <1>3, <1>5 DEF SelectionInv, Calibrated, CalibrationUnchanged
<1>7. GeneratedToday'
  BY <1>2, <1>3 DEF SelectionInv, GeneratedToday, DatasetMatches, Generated
<1> QED BY <1>4, <1>6, <1>7 DEF SelectionInv

LEMMA EvalStops ==
  ASSUME SelectionInv, UNCHANGED <<sweepFile, sweepJob, evalFile, artifact, calibrations>>,
         evalJob' = EvalIdle
  PROVE  SelectionInv'
<1>1. SelectionTypes' /\ KnowsKeys' /\ KeysOnce'
  BY DEF SelectionInv, SelectionTypes, KnowsKeys, KeysOnce
<1>2. Calibrated' /\ GeneratedToday'
  BY DEF SelectionInv, Calibrated, GeneratedToday
<1> QED BY <1>1, <1>2 DEF SelectionInv

LEMMA RunEvalPointOK ==
  ASSUME SelectionInv, RunEvalPoint, UNCHANGED sweepVars
  PROVE  SelectionInv'
<1>1. PICK item \in Foremost(Unevaluated) :
        /\ evalFile' = Appended(evalFile, Evaluated(item))
        /\ \E n : evalJob' = [evalJob EXCEPT !.made = n,
                                             !.keys = @ \union {KeyOf(evalJob.model, item)}]
  BY Zenon DEF RunEvalPoint
<1>2. evalJob # EvalIdle /\ UNCHANGED <<sweepVars, artifact, calibrations>>
  BY DEF RunEvalPoint, EvalIdle
<1> DEFINE r == Evaluated(item)
<1>3. /\ KeyOfRecord(r) = KeyOf(evalJob.model, item)
      /\ KeyOfRecord(r) \notin evalJob.keys /\ Generated(r)
      /\ r.calibration = evalJob.calibration /\ r.tau = evalJob.tau
  BY EvaluatedOK
<1>4. \E n : evalJob' = [evalJob EXCEPT !.made = n, !.keys = @ \union {KeyOfRecord(r)}]
  BY <1>1, <1>3, Zenon
<1>5. evalFile' = Appended(evalFile, r)
  BY <1>1
<1> HIDE DEF r
<1> QED BY <1>2, <1>3, <1>4, <1>5, EvalWrites

LEMMA EvalDiesOK ==
  ASSUME SelectionInv, EvalDies, UNCHANGED sweepVars
  PROVE  SelectionInv'
<1>1. /\ evalJob # EvalIdle /\ evalJob' = EvalIdle
      /\ UNCHANGED <<sweepVars, artifact, calibrations>>
  BY DEF EvalDies
<1>2. CASE UNCHANGED evalFile
  BY <1>1, <1>2, EvalStops DEF sweepVars
<1>3. ASSUME NEW item \in Foremost(Unevaluated),
             evalFile' \in TornAppends(evalFile, Evaluated(item))
      PROVE  SelectionInv'
  <2> DEFINE r == Evaluated(item)
  <2>1. /\ KeyOfRecord(r) \notin evalJob.keys /\ Generated(r)
        /\ r.calibration = evalJob.calibration /\ r.tau = evalJob.tau
    BY EvaluatedOK
  <2>2. evalFile' \in TornAppends(evalFile, r)
    BY <1>3
  <2> HIDE DEF r
  <2> QED BY <1>1, <2>1, <2>2, EvalWrites
<1>4. \/ UNCHANGED evalFile
      \/ \E item \in Foremost(Unevaluated) : evalFile' \in TornAppends(evalFile, Evaluated(item))
  BY Zenon DEF EvalDies
<1> QED BY <1>2, <1>3, <1>4

LEMMA StartAfreshOK ==
  ASSUME SelectionInv, StartAfresh, UNCHANGED sweepVars
  PROVE  SelectionInv'
<1>1. /\ UNCHANGED <<sweepFile, sweepJob, evalJob, artifact, calibrations>>
      /\ evalJob = EvalIdle /\ evalFile' = NoFile
  BY DEF StartAfresh, sweepVars
<1>2. evalFile'.lines = <<>>
  BY <1>1 DEF NoFile
<1>3. Records(evalFile') = {} /\ OnceIn(evalFile')
  BY <1>2, EmptyHasNone
<1>4. IsFile(evalFile')
  BY <1>1, NoFileIsFile
<1>5. SelectionTypes' /\ KnowsKeys' /\ KeysOnce'
  BY <1>1, <1>3, <1>4 DEF SelectionInv, SelectionTypes, KnowsKeys, KeysOnce
<1>6. Calibrated' /\ GeneratedToday'
  BY <1>1, <1>2, <1>3 DEF SelectionInv, Calibrated, GeneratedToday
<1> QED BY <1>5, <1>6 DEF SelectionInv

LEMMA SelectionInitOK ==
  ASSUME CampaignsInit
  PROVE  SelectionInv
<1>1. /\ sweepFile \in Recorded /\ sweepJob = SweepIdle /\ evalFile = NoFile
      /\ evalJob = EvalIdle /\ artifact = NoArtifact /\ calibrations = 0
  BY DEF CampaignsInit, SweepInit, BaselineInit
<1>2. evalFile.lines = <<>>
  BY <1>1 DEF NoFile
<1>3. Records(evalFile) = {} /\ OnceIn(evalFile)
  BY <1>2, EmptyHasNone
<1>4. IsFile(sweepFile) /\ OnceIn(sweepFile)
  BY <1>1, RecordedAssumption, Zenon DEF IsFile, OnceIn
<1>5. SelectionTypes /\ KnowsKeys /\ KeysOnce
  BY <1>1, <1>3, <1>4, NoFileIsFile DEF SelectionTypes, KnowsKeys, KeysOnce
<1>6. Calibrated /\ GeneratedToday
  BY <1>1, <1>2, <1>3 DEF Calibrated, GeneratedToday, NoArtifact
<1> QED BY <1>5, <1>6 DEF SelectionInv

-----------------------------------------------------------------------------
(* The campaigns.                                                           *)

LEMMA NextIInv ==
  ASSUME IInv, [CampaignsNext]_campaignVars
  PROVE  IInv'
<1>1. CASE UNCHANGED campaignVars
  BY <1>1, MatrixUnchanged, SelectionUnmoved DEF campaignVars, sweepVars, baselineVars, IInv
<1>2. ASSUME SelectionInv, UNCHANGED <<sweepVars, baselineVars>>
      PROVE  SelectionInv'
  BY <1>2, SelectionUnmoved DEF sweepVars, baselineVars
<1>3. CASE \/ InMatrix(StartByHand) \/ InMatrix(StartDriven) \/ InMatrix(Execute)
           \/ InMatrix(AppendRecord) \/ InMatrix(Report) \/ InMatrix(BeginExport)
           \/ InMatrix(CommitExport) \/ InMatrix(ReportOnly) \/ InMatrix(Dies) \/ InMatrix(DiesInAppend)
           \/ InMatrix(DiesInReport)
  <2>1. SelectionInv'
    BY <1>2, <1>3 DEF IInv, InMatrix
  <2>2. CASE StartByHand
    <3>1. PICK arm \in Arms, cell \in Cells : Start(arm, cell, FALSE)
      BY <2>2 DEF StartByHand
    <3> QED BY <2>1, <3>1, StartOK, FALSE \in BOOLEAN, Zenon DEF IInv
  <2>3. CASE StartDriven
    <3>1. PICK arm \in Arms : Start(arm, Order[driver + 1], TRUE)
      BY <2>3 DEF StartDriven
    <3>2. Order[driver + 1] \in Cells
      BY <2>3, MatrixAssumption DEF StartDriven, IInv, MatrixInv, MatrixTypes
    <3> QED BY <2>1, <3>1, <3>2, StartOK, TRUE \in BOOLEAN, Zenon DEF IInv
  <2> QED BY <1>3, <2>1, <2>2, <2>3, ExecuteOK, AppendRecordOK, ReportOK, BeginExportOK,
             CommitExportOK, ReportOnlyOK, DiesOK, DiesInAppendOK, DiesInReportOK DEF InMatrix, IInv
<1>4. CASE \/ InSweep(StartSweep) \/ InSweep(RunPoint) \/ InSweep(SweepDies)
           \/ InSweep(EndSweep) \/ InSweep(ReportSweep)
  <2>1. MatrixInv' /\ UNCHANGED baselineVars
    BY <1>4, MatrixUnchanged DEF InSweep, IInv
  <2>2. CASE EndSweep
    BY <2>1, <2>2, SweepStops DEF EndSweep, baselineVars, IInv
  <2>3. CASE ReportSweep
    BY <2>1, <2>3, SelectionUnmoved DEF ReportSweep, baselineVars, IInv
  <2> QED BY <1>4, <2>1, <2>2, <2>3, StartSweepOK, RunPointOK, SweepDiesOK DEF InSweep, IInv
<1>5. CASE \/ InBaseline(Calibrate) \/ InBaseline(StartEval) \/ InBaseline(RunEvalPoint)
           \/ InBaseline(EvalDies) \/ InBaseline(EndEval) \/ InBaseline(ReportEval)
           \/ InBaseline(StartAfresh)
  <2>1. MatrixInv' /\ UNCHANGED sweepVars
    BY <1>5, MatrixUnchanged DEF InBaseline, IInv
  <2>2. CASE EndEval
    BY <2>1, <2>2, EvalStops DEF EndEval, sweepVars, IInv
  <2>3. CASE ReportEval
    BY <2>1, <2>3, SelectionUnmoved DEF ReportEval, sweepVars, IInv
  <2> QED BY <1>5, <2>1, <2>2, <2>3, CalibrateOK, StartEvalOK, RunEvalPointOK, EvalDiesOK,
             StartAfreshOK DEF InBaseline, IInv
<1> QED BY <1>1, <1>3, <1>4, <1>5 DEF CampaignsNext

(* The inductive invariant, from which the others follow. *)
THEOREM Invariance == CampaignsSpec => []IInv
<1>1. CampaignsInit => IInv
  BY MatrixInitOK, SelectionInitOK DEF CampaignsInit, IInv
<1> QED BY <1>1, NextIInv, PTL DEF CampaignsSpec

(* However often a campaign is stopped, anywhere, and resumed: no rep of a  *)
(* cell and no point of a catalog is twice in its evidence.                 *)
THEOREM EvidenceOnce == CampaignsSpec => []MeasuredOnce
<1>1. IInv => MeasuredOnce
  BY DEF IInv, MatrixInv, SelectionInv, RepsOnce, KeysOnce, OnceIn, MeasuredOnce, NoneTwice
<1> QED BY <1>1, Invariance, PTL

(* A cell is never started from scratch under the records it has.           *)
THEOREM EvidenceKept == CampaignsSpec => []CompletedInErp
<1>1. ASSUME IInv, NEW arm \in Arms, NEW cell \in Cells,
             NEW r \in OfCell(files[Evidence(arm)], cell), r.status = "completed"
      PROVE  Key(cell, r.rep) \in erps[Database(arm, cell)]
  <2>1. PICK i \in Lines(files[Evidence(arm)], cell) : files[Evidence(arm)].lines[i] = r
    BY DEF OfCell, Lines, Records, ToSet
  <2> QED BY <1>1, <2>1 DEF IInv, MatrixInv, OwnRows
<1>2. IInv => CompletedInErp
  BY <1>1 DEF CompletedInErp
<1> QED BY <1>2, Invariance, PTL

(* Whichever cells are run and interrupted after it, a cell that returned 0 *)
(* stays in the report with all its reps.                                   *)
THEOREM ReportComplete == CampaignsSpec => []FinishedMeansReported
<1>1. IInv => FinishedMeansReported
  <2>1. SUFFICES ASSUME IInv, NEW f \in finished, ~reports[Evidence(f[1])].torn
                 PROVE  /\ f[2] \in DOMAIN reports[Evidence(f[1])].blocks
                        /\ reports[Evidence(f[1])].blocks[f[2]].n >= Reps
                        /\ reports[Evidence(f[1])].blocks[f[2]].rows
                             >= reports[Evidence(f[1])].blocks[f[2]].completed
    BY DEF FinishedMeansReported
  <2>2. Complete(f[1], f[2]) /\ Evidence(f[1]) \in Names
    BY <2>1, NamesOK DEF IInv, MatrixInv, MatrixTypes, FinishedComplete
  <2> QED BY <2>1, <2>2 DEF IInv, MatrixInv, FinishedComplete, BlocksOK, Complete
<1> QED BY <1>1, Invariance, PTL

(* The copy of a Postgres database is all of it or says nothing, however    *)
(* often the cell is run again and killed; after a 0 it is all of it.       *)
THEOREM CopiesWhole == CampaignsSpec => []CopiesTrue
<1>1. IInv => CopiesTrue
  BY DEF IInv, MatrixInv, CopiesOK, EndedCopied, CopiesTrue
<1> QED BY <1>1, Invariance, PTL

(* Whatever is calibrated, stopped or put away in between, the baseline's   *)
(* file is of one calibration and agrees with the sweep's on its points.    *)
THEOREM SingleExperiment == CampaignsSpec => []OneExperiment
<1>1. ASSUME IInv, NEW r \in Records(evalFile), NEW s \in Records(sweepFile),
             r.point.id = s.point.id
      PROVE  r.point = s.point
  <2>1. Generated(r) /\ Generated(s)
    <3>1. evalFile.lines # <<>>
      BY EmptyHasNone
    <3> QED BY <1>1, <3>1 DEF IInv, SelectionInv, GeneratedToday
  <2>2. \A n \in Sizes : SizePoints[n] \subseteq DOMAIN Points
    BY DEF SizePoints, PointsForSize
  <2>3. PICK j \in DOMAIN Points, k \in DOMAIN Points : r.point = Points[j] /\ s.point = Points[k]
    BY <2>1, <2>2 DEF Generated
  <2> QED BY <1>1, <2>3, PointsApart
<1>2. IInv => OneExperiment
  BY <1>1 DEF IInv, SelectionInv, Calibrated, OneExperiment
<1> QED BY <1>2, Invariance, PTL
=============================================================================
