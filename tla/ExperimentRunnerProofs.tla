------------------------- MODULE ExperimentRunnerProofs -------------------------
(***************************************************************************)
(* Proofs about the jobs of latency-sim and the mutex and writer that they *)
(* share, for any grid, any number of threads and fields, and any failures.*)
(***************************************************************************)
EXTENDS ExperimentRunner, SequenceTheorems, FiniteSetTheorems, TLAPS

Cells == [job : Jobs \cup {Header}, field : 1..Fields]

(***************************************************************************)
(* Only the thread that holds the mutex writes.  It holds it from its      *)
(* first field to the end of the flush, or until it panics, and then       *)
(* nobody gets it again.                                                   *)
(***************************************************************************)
Writing(w) == running[w].step \in {"write", "flush"}

LockInv ==
  /\ \A w \in Workers : Writing(w) <=> holder = w
  /\ \A w \in Workers : /\ running[w].step = "write" => running[w].field < Fields
                        /\ running[w].step = "flush" => running[w].field = Fields
                        /\ ~Writing(w) => running[w].field = 0
                        /\ running[w].step # "idle" => running[w].job \in Jobs
  /\ poisoned => holder = NoWorker /\ panicked # {}
  /\ main # "running" => taken = Len(Grid) /\ \A w \in Workers : running[w] = Idle
  /\ main = "returned" => panicked = {}

(***************************************************************************)
(* The buffer is a number of whole rows, and then, if a thread is writing, *)
(* the part of its row that it has written.  What is out ends with a row   *)
(* too, unless a write was refused.                                        *)
(***************************************************************************)
Midway(w) == Writing(w) /\ running[w].field # 0

BufferEnd ==
  /\ buffer # <<>> => buffer[1].field = 1
  /\ \A w \in Workers : Midway(w) =>
       buffer # <<>> /\ buffer[Len(buffer)] = Cell(running[w].job, running[w].field)
  /\ (\A w \in Workers : ~Midway(w)) => buffer = <<>> \/ buffer[Len(buffer)].field = Fields

OutputEnd == output # <<>> => output[Len(output)].field = Fields \/ failures > 0

WriterInv == InRows(failures > 0, output) /\ InRows(failures > 0, buffer) /\ BufferEnd /\ OutputEnd

RunnerInv == TypeOK /\ LockInv /\ WriterInv

-------------------------------------------------------------------------------
(***************************************************************************)
(* Two pieces of output are in rows together if they are each, and the     *)
(* second begins where a row may begin.                                    *)
(***************************************************************************)
LEMMA InRowsConcat ==
  ASSUME NEW torn, NEW s \in Seq(Cells), NEW t \in Seq(Cells), InRows(torn, s), InRows(torn, t),
         s # <<>> /\ t # <<>> => Follows(torn, s[Len(s)], t[1])
  PROVE  InRows(torn, s \o t)
<1>1. /\ Len(s) \in Nat /\ Len(t) \in Nat /\ Len(s \o t) = Len(s) + Len(t)
      /\ \A i \in 1..(Len(s) + Len(t)) : (s \o t)[i] = IF i <= Len(s) THEN s[i] ELSE t[i - Len(s)]
  BY LenProperties, ConcatProperties
<1>2. (Len(s) > 0 => s # <<>>) /\ (Len(t) > 0 => t # <<>>)
  BY EmptySeq
<1> SUFFICES ASSUME NEW i \in 1..(Len(s) + Len(t) - 1)
             PROVE  Follows(torn, (s \o t)[i], (s \o t)[i + 1])
  BY <1>1 DEF InRows
<1>3. CASE i + 1 <= Len(s)
  <2>1. (s \o t)[i] = s[i] /\ (s \o t)[i + 1] = s[i + 1]
    BY <1>1, <1>3
  <2> QED BY <2>1, <1>1, <1>3 DEF InRows
<1>4. CASE i = Len(s)
  <2>1. (s \o t)[i] = s[Len(s)] /\ (s \o t)[i + 1] = t[1]
    BY <1>1, <1>4
  <2> QED BY <2>1, <1>1, <1>2, <1>4
<1>5. CASE i > Len(s)
  <2>1. (s \o t)[i] = t[i - Len(s)] /\ (s \o t)[i + 1] = t[(i - Len(s)) + 1]
    BY <1>1, <1>5
  <2>2. i - Len(s) \in 1..(Len(t) - 1)
    BY <1>1, <1>5
  <2> QED BY <2>1, <2>2 DEF InRows
<1> QED BY <1>1, <1>3, <1>4, <1>5

LEMMA InRowsPrefix ==
  ASSUME NEW torn, NEW s \in Seq(Cells), InRows(torn, s), NEW n \in 0..Len(s)
  PROVE  /\ SubSeq(s, 1, n) \in Seq(Cells)
         /\ InRows(torn, SubSeq(s, 1, n))
         /\ n # 0 => SubSeq(s, 1, n)[1] = s[1]
         /\ n = 0 => SubSeq(s, 1, n) = <<>>
<1>1. Len(s) \in Nat /\ \A i \in 1..n : s[i] \in Cells
  BY LenProperties, ElementOfSeq
<1>2. /\ SubSeq(s, 1, n) \in Seq(Cells) /\ Len(SubSeq(s, 1, n)) = n
      /\ \A i \in 1..n : SubSeq(s, 1, n)[i] = s[i]
  BY <1>1, SubSeqProperties
<1>3. InRows(torn, SubSeq(s, 1, n))
  BY <1>1, <1>2 DEF InRows
<1>4. n = 0 => SubSeq(s, 1, n) = <<>>
  BY <1>2, EmptySeq
<1> QED BY <1>2, <1>3, <1>4

(***************************************************************************)
(* What the state of the writer gives: with the buffer behind it, with a   *)
(* part of it, or alone, the output is in rows.                            *)
(***************************************************************************)
LEMMA RowsWhole ==
  ASSUME TypeOK, WriterInv
  PROVE  /\ output \in Seq(Cells) /\ buffer \in Seq(Cells)
         /\ InRows(failures > 0, output \o buffer)
<1>1. output \in Seq(Cells) /\ buffer \in Seq(Cells)
  BY DEF TypeOK, Cells
<1>2. ASSUME output # <<>>, buffer # <<>> PROVE Follows(failures > 0, output[Len(output)], buffer[1])
  BY <1>2 DEF WriterInv, OutputEnd, BufferEnd, Follows, RowEnds
<1> QED BY <1>1, <1>2, InRowsConcat DEF WriterInv

LEMMA RowsStay ==
  ASSUME NEW torn, NEW later, torn => later, NEW s, InRows(torn, s)
  PROVE  InRows(later, s)
BY DEF InRows, Follows

-------------------------------------------------------------------------------
LEMMA InitRunnerInv == Init => RunnerInv
<1> SUFFICES ASSUME Init PROVE RunnerInv
  OBVIOUS
<1> USE RunnerAssumption
<1>1. /\ buffer \in Seq(Cells) /\ Len(buffer) = Fields
      /\ \A i \in 1..Fields : buffer[i] = Cell(Header, i)
  <2>1. Row(Header) \in [1..Fields -> Cells]
    BY DEF Row, Cell, Cells
  <2>2. Row(Header) \in Seq(Cells)
    BY <2>1, SeqDef
  <2>3. Len(Row(Header)) = Fields
    BY <2>2, <2>1, LenProperties DEF Row
  <2> QED BY <2>2, <2>3 DEF Init, Row
<1>2. TypeOK
  <2>1. output \in Seq(Cells)
    BY EmptySeq DEF Init
  <2>2. Len(Grid) \in Nat
    BY LenProperties
  <2>3. running \in [Workers -> [step : {"idle", "run", "lock", "write", "flush"},
                                 job : Jobs \cup {Header}, field : 0..Fields]]
    BY DEF Init, Idle
  <2>4. poisoned \in BOOLEAN /\ panicked \subseteq Jobs
    BY DEF Init
  <2>5. spawned \in 0..Len(Grid) /\ taken \in 0..spawned /\ failures \in 0..MaxFailures
    BY <2>2 DEF Init
  <2>6. holder \in Workers \cup {NoWorker} /\ main \in {"running", "returned", "panicked"}
    BY DEF Init
  <2> QED BY <1>1, <2>1, <2>3, <2>4, <2>5, <2>6 DEF TypeOK, Cells
<1>3. LockInv
  BY DEF Init, LockInv, Writing, Idle
<1>4. WriterInv
  <2>1. InRows(failures > 0, buffer)
    BY <1>1 DEF InRows, Follows, Consecutive, Cell
  <2>2. InRows(failures > 0, output) /\ output = <<>>
    BY EmptySeq DEF Init, InRows
  <2>3. buffer # <<>>
    BY <1>1, EmptySeq
  <2>4. \A w \in Workers : ~Midway(w)
    BY DEF Init, Midway, Writing, Idle
  <2>5. buffer[1].field = 1 /\ buffer[Len(buffer)].field = Fields
    BY <1>1 DEF Cell
  <2> QED BY <2>1, <2>2, <2>3, <2>4, <2>5 DEF WriterInv, BufferEnd, OutputEnd
<1> QED BY <1>2, <1>3, <1>4 DEF RunnerInv

-------------------------------------------------------------------------------
(***************************************************************************)
(* A step that leaves the writer alone, and every thread in the middle of  *)
(* its row.                                                                *)
(***************************************************************************)
LEMMA WriterUntouched ==
  ASSUME WriterInv, UNCHANGED <<buffer, output, failures>>,
         \A w \in Workers : (Midway(w)' <=> Midway(w)) /\ (Midway(w) => running'[w] = running[w])
  PROVE  WriterInv'
BY DEF WriterInv, BufferEnd, OutputEnd

LEMMA JobOf ==
  ASSUME RunnerAssumption, NEW i \in 1..Len(Grid)
  PROVE  Grid[i] \in Jobs /\ Len(Grid) \in Nat
BY LenProperties DEF Jobs, RunnerAssumption

Steps == [step : {"idle", "run", "lock", "write", "flush"}, job : Jobs \cup {Header}, field : 0..Fields]

LEMMA SpawnInv == RunnerInv /\ Spawn => RunnerInv'
<1> SUFFICES ASSUME RunnerInv, Spawn PROVE RunnerInv'
  OBVIOUS
<1>1. spawned' \in 0..Len(Grid) /\ taken' \in 0..spawned'
  BY RunnerAssumption, LenProperties DEF RunnerInv, TypeOK, Spawn
<1>2. TypeOK'
  BY <1>1 DEF RunnerInv, TypeOK, Spawn
<1>3. LockInv'
  BY DEF RunnerInv, LockInv, Writing, Spawn
<1>4. WriterInv'
  BY WriterUntouched DEF RunnerInv, Midway, Writing, Spawn
<1> QED BY <1>2, <1>3, <1>4 DEF RunnerInv

LEMMA TakeInv == ASSUME RunnerInv, NEW w \in Workers, Take(w) PROVE RunnerInv'
<1> DEFINE next == [step |-> "run", job |-> Grid[taken + 1], field |-> 0]
<1>1. taken + 1 \in 1..Len(Grid) /\ Len(Grid) \in Nat
  BY RunnerAssumption, LenProperties DEF RunnerInv, TypeOK, Take
<1>2. Grid[taken + 1] \in Jobs
  BY <1>1, JobOf, RunnerAssumption
<1>3. running' = [running EXCEPT ![w] = next] /\ running[w] = Idle
  BY DEF Take
<1>4. next \in Steps
  BY <1>2, RunnerAssumption DEF Steps
<1>5. /\ next.step = "run" /\ next.field = 0 /\ next.job \in Jobs
  BY <1>2
<1>6. Idle.step = "idle"
  BY DEF Idle
<1> HIDE DEF next
<1>7. running \in [Workers -> Steps]
  BY DEF RunnerInv, TypeOK, Steps
<1>8. TypeOK'
  <2>1. running' \in [Workers -> Steps]
    BY <1>3, <1>4, <1>7
  <2>2. taken' \in 0..spawned'
    BY DEF RunnerInv, TypeOK, Take
  <2> QED BY <2>1, <2>2 DEF RunnerInv, TypeOK, Take, Steps
<1>9. \A v \in Workers : v # w => running'[v] = running[v]
  BY <1>3, <1>7
<1>10. running'[w] = next
  BY <1>3, <1>7
<1>11. \A v \in Workers : Writing(v)' <=> Writing(v)
  BY <1>3, <1>5, <1>6, <1>9, <1>10 DEF Writing
<1>12. LockInv'
  <2>1. main = "running"
    BY <1>1, <1>3 DEF RunnerInv, LockInv, TypeOK, Take
  <2> QED BY <1>5, <1>9, <1>10, <1>11, <2>1 DEF RunnerInv, LockInv, Take
<1>13. WriterInv'
  BY <1>3, <1>5, <1>6, <1>9, <1>10, <1>11, WriterUntouched DEF RunnerInv, Take, Midway, Writing
<1> QED BY <1>8, <1>12, <1>13 DEF RunnerInv

(***************************************************************************)
(* What the invariant says of the thread that takes a step, and that the   *)
(* thread that holds the mutex is the only one in the middle of a row.     *)
(***************************************************************************)
LEMMA ThreadFacts ==
  ASSUME RunnerInv, NEW w \in Workers
  PROVE  /\ running \in [Workers -> Steps]
         /\ running[w] \in Steps
         /\ running[w].step # "idle" => main = "running" /\ running[w].job \in Jobs
         /\ Midway(w) => holder = w
         /\ \A v \in Workers : v # w /\ holder = w => ~Writing(v) /\ ~Midway(v)
         /\ holder = w => ~poisoned
<1>1. running \in [Workers -> Steps] /\ w # NoWorker
  BY RunnerAssumption DEF RunnerInv, TypeOK, Steps
<1>2. running[w].step # "idle" => main = "running" /\ running[w].job \in Jobs
  BY DEF RunnerInv, LockInv, TypeOK, Idle
<1>3. \A v \in Workers : v # w /\ holder = w => ~Writing(v) /\ ~Midway(v)
  BY DEF RunnerInv, LockInv, Midway
<1>4. Midway(w) => holder = w
  BY DEF RunnerInv, LockInv, Midway
<1>5. holder = w => ~poisoned
  BY <1>1 DEF RunnerInv, LockInv
<1> QED BY <1>1, <1>2, <1>3, <1>4, <1>5

LEMMA MidwayFacts ==
  ASSUME RunnerInv, NEW w \in Workers, Midway(w)
  PROVE  /\ buffer # <<>> /\ buffer[1].field = 1
         /\ buffer[Len(buffer)].job = running[w].job /\ buffer[Len(buffer)].field = running[w].field
<1>1. /\ buffer # <<>> /\ buffer[1].field = 1
      /\ buffer[Len(buffer)] = Cell(running[w].job, running[w].field)
  BY Zenon DEF RunnerInv, WriterInv, BufferEnd
<1> QED BY <1>1 DEF Cell

LEMMA SimulateInv == ASSUME RunnerInv, NEW w \in Workers, Simulate(w) PROVE RunnerInv'
<1>1. /\ running' = [running EXCEPT ![w].step = "lock"] /\ running[w].step = "run"
      /\ running \in [Workers -> Steps] /\ running[w] \in Steps
      /\ main = "running" /\ running[w].job \in Jobs
  BY ThreadFacts DEF Simulate
<1>2. \A v \in Workers : v # w => running'[v] = running[v]
  BY <1>1
<1>3. /\ running'[w] \in Steps /\ running'[w].step = "lock"
      /\ running'[w].field = running[w].field /\ running'[w].job = running[w].job
  BY <1>1 DEF Steps
<1>4. running' \in [Workers -> Steps]
  BY <1>1, <1>3 DEF Steps
<1>5. \A v \in Workers : Writing(v)' <=> Writing(v)
  BY <1>1, <1>2, <1>3 DEF Writing
<1>6. TypeOK'
  BY <1>4 DEF RunnerInv, TypeOK, Simulate, Steps
<1>7. LockInv'
  BY <1>1, <1>2, <1>3, <1>5 DEF RunnerInv, LockInv, Simulate
<1>8. \A v \in Workers : (Midway(v)' <=> Midway(v)) /\ (Midway(v) => running'[v] = running[v])
  BY <1>1, <1>2, <1>3, <1>5 DEF Midway, Writing
<1>9. WriterInv'
  BY <1>8, WriterUntouched DEF RunnerInv, Simulate
<1> QED BY <1>6, <1>7, <1>9 DEF RunnerInv

(***************************************************************************)
(* A panic of a thread that does not hold the mutex changes nothing that   *)
(* concerns the mutex or the writer.                                       *)
(***************************************************************************)
LEMMA PanicOutsideInv ==
  ASSUME RunnerInv, NEW w \in Workers, running[w].step \in {"run", "lock"}, Panic(w),
         UNCHANGED <<spawned, taken, main, buffer, output, failures>>
  PROVE  RunnerInv'
<1>1. /\ running \in [Workers -> Steps] /\ running[w] \in Steps
      /\ main = "running" /\ running[w].job \in Jobs
  BY ThreadFacts
<1>2. ~Writing(w) /\ holder # w
  BY DEF RunnerInv, LockInv, Writing
<1>3. holder' = holder /\ poisoned' = poisoned
  BY <1>2 DEF Panic, Unlocked, Poisons, RunnerInv, TypeOK
<1>4. /\ \A v \in Workers : v # w => running'[v] = running[v]
      /\ running'[w] = Idle
  BY <1>1 DEF Panic
<1>5. running' \in [Workers -> Steps]
  <2>1. Idle \in Steps
    BY RunnerAssumption DEF Idle, Steps
  <2> QED BY <2>1, <1>1 DEF Panic
<1>6. TypeOK'
  <2>1. panicked' \subseteq Jobs
    BY <1>1 DEF Panic, RunnerInv, TypeOK
  <2>2. poisoned' \in BOOLEAN
    BY <1>3 DEF RunnerInv, TypeOK
  <2> QED BY <1>3, <1>5, <2>1, <2>2 DEF RunnerInv, TypeOK, Steps
<1>7. \A v \in Workers : Writing(v)' <=> Writing(v)
  BY <1>2, <1>4 DEF Writing, Idle
<1>8. LockInv'
  <2>1. panicked' # {}
    BY DEF Panic
  <2> QED BY <1>1, <1>3, <1>4, <1>7, <2>1 DEF RunnerInv, LockInv, Idle
<1>9. WriterInv'
  BY <1>2, <1>4, <1>7, WriterUntouched DEF RunnerInv, Midway
<1> QED BY <1>6, <1>8, <1>9 DEF RunnerInv

LEMMA SimulationPanicsInv == ASSUME RunnerInv, NEW w \in Workers, SimulationPanics(w) PROVE RunnerInv'
BY PanicOutsideInv DEF SimulationPanics

LEMMA LockPanicsInv == ASSUME RunnerInv, NEW w \in Workers, LockPanics(w) PROVE RunnerInv'
BY PanicOutsideInv DEF LockPanics

LEMMA LockStepInv == ASSUME RunnerInv, NEW w \in Workers, Lock(w) PROVE RunnerInv'
<1>1. /\ running' = [running EXCEPT ![w].step = "write"] /\ running[w].step = "lock"
      /\ running \in [Workers -> Steps] /\ running[w] \in Steps
      /\ main = "running" /\ running[w].job \in Jobs
  BY ThreadFacts DEF Lock
<1>2. \A v \in Workers : v # w => running'[v] = running[v]
  BY <1>1
<1>3. /\ running'[w] \in Steps /\ running'[w].step = "write"
      /\ running'[w].field = running[w].field /\ running'[w].job = running[w].job
  BY <1>1 DEF Steps
<1>4. running' \in [Workers -> Steps]
  BY <1>1, <1>3 DEF Steps
<1>5. running[w].field = 0 /\ 0 < Fields
  BY <1>1, RunnerAssumption DEF RunnerInv, LockInv, Writing
<1>6. holder = NoWorker /\ holder' = w /\ w # NoWorker /\ ~poisoned
  BY RunnerAssumption DEF Lock, Free, Usable
<1>7. \A v \in Workers : ~Writing(v)
  BY <1>6, RunnerAssumption DEF RunnerInv, LockInv
<1>8. \A v \in Workers : Writing(v)' <=> v = w
  BY <1>2, <1>3, <1>7 DEF Writing
<1>9. TypeOK'
  BY <1>4, <1>6 DEF RunnerInv, TypeOK, Lock, Steps
<1>10. LockInv'
  <2>1. \A v \in Workers : Writing(v)' <=> holder' = v
    BY <1>6, <1>8
  <2>2. \A v \in Workers : /\ running'[v].step = "write" => running'[v].field < Fields
                           /\ running'[v].step = "flush" => running'[v].field = Fields
                           /\ ~Writing(v)' => running'[v].field = 0
                           /\ running'[v].step # "idle" => running'[v].job \in Jobs
    BY <1>1, <1>2, <1>3, <1>5, <1>7, <1>8 DEF RunnerInv, LockInv
  <2> QED BY <2>1, <2>2, <1>1, <1>6 DEF RunnerInv, LockInv, Lock
<1>11. \A v \in Workers : ~Midway(v) /\ ~Midway(v)'
  BY <1>2, <1>3, <1>5, <1>7, <1>8 DEF Midway
<1>12. WriterInv'
  BY <1>11, WriterUntouched DEF RunnerInv, Lock
<1> QED BY <1>9, <1>10, <1>12 DEF RunnerInv

-------------------------------------------------------------------------------
(***************************************************************************)
(* The writing thread appends the field that its row has next.             *)
(***************************************************************************)
LEMMA WriteFieldInv == ASSUME RunnerInv, NEW w \in Workers, WriteField(w) PROVE RunnerInv'
<1> DEFINE cell == Cell(running[w].job, running[w].field + 1)
           next == IF running[w].field + 1 = Fields THEN "flush" ELSE "write"
<1> USE RunnerAssumption
<1>1. /\ running \in [Workers -> Steps] /\ running[w] \in Steps
      /\ running[w].step = "write" /\ running[w].field < Fields
      /\ main = "running" /\ running[w].job \in Jobs
      /\ running' = [running EXCEPT ![w].field = @ + 1, ![w].step = next]
  BY ThreadFacts DEF WriteField
<1>2. Writing(w) /\ holder = w
  BY <1>1 DEF Writing, RunnerInv, LockInv
<1>3. ~poisoned /\ \A v \in Workers : v # w => ~Writing(v) /\ ~Midway(v)
  BY <1>2, ThreadFacts
<1>4. running[w].field \in Nat /\ running[w].field + 1 \in 1..Fields
  BY <1>1 DEF Steps
<1>5. cell \in Cells /\ cell.job = running[w].job /\ cell.field = running[w].field + 1
  BY <1>1, <1>4 DEF Cell, Cells
<1>6. \A v \in Workers : v # w => running'[v] = running[v]
  BY <1>1
<1>7. /\ running'[w].step = next /\ running'[w].job = running[w].job
      /\ running'[w].field = running[w].field + 1
      /\ running'[w] \in Steps
  <2>1. next \in {"write", "flush"}
    OBVIOUS
  <2> HIDE DEF next
  <2>2. running'[w] = [running[w] EXCEPT !.field = running[w].field + 1, !.step = next]
    BY <1>1
  <2>3. running[w] \in Steps /\ running[w].field + 1 \in 0..Fields
    BY <1>1, <1>4
  <2>4. /\ running'[w].step = next /\ running'[w].job = running[w].job
        /\ running'[w].field = running[w].field + 1
    BY <2>2, <2>3 DEF Steps
  <2>5. running'[w] \in Steps
    BY <2>1, <2>2, <2>3 DEF Steps
  <2> QED BY <2>4, <2>5
<1>8. running' \in [Workers -> Steps]
  BY <1>1, <1>7 DEF Steps
<1>9. buffer \in Seq(Cells) /\ buffer' = Append(buffer, cell)
  BY DEF RunnerInv, TypeOK, Cells, WriteField
<1> HIDE DEF cell
<1>10. /\ buffer' \in Seq(Cells) /\ Len(buffer) \in Nat /\ Len(buffer') = Len(buffer) + 1
       /\ \A i \in 1..Len(buffer) : buffer'[i] = buffer[i]
       /\ buffer'[Len(buffer')] = cell
  BY <1>5, <1>9, AppendProperties, LenProperties
<1>11. buffer' # <<>> /\ (buffer = <<>> => Len(buffer) = 0) /\ (buffer # <<>> => Len(buffer) > 0)
  BY <1>10, <1>9, EmptySeq
<1>12. TypeOK'
  BY <1>8, <1>10 DEF RunnerInv, TypeOK, WriteField, Steps, Cells
<1>13. \A v \in Workers : Writing(v)' <=> Writing(v)
  BY <1>2, <1>6, <1>7 DEF Writing
<1>14. LockInv'
  <2>1. \A v \in Workers : /\ running'[v].step = "write" => running'[v].field < Fields
                           /\ running'[v].step = "flush" => running'[v].field = Fields
                           /\ ~Writing(v)' => running'[v].field = 0
                           /\ running'[v].step # "idle" => running'[v].job \in Jobs
    <3>1. CASE running[w].field + 1 = Fields
      BY <1>1, <1>2, <1>6, <1>7, <1>13, <3>1 DEF RunnerInv, LockInv
    <3>2. CASE running[w].field + 1 # Fields
      <4>1. running'[w].field < Fields /\ running'[w].step = "write"
        BY <1>4, <1>7, <3>2
      <4> QED BY <1>1, <1>2, <1>6, <1>7, <1>13, <4>1 DEF RunnerInv, LockInv
    <3> QED BY <3>1, <3>2
  <2> QED BY <2>1, <1>1, <1>3, <1>13 DEF RunnerInv, LockInv, WriteField
<1>15. InRows(failures > 0, buffer)'
  <2>1. buffer # <<>> => Follows(failures > 0, buffer[Len(buffer)], cell)
    <3>1. CASE running[w].field = 0
      <4>1. \A v \in Workers : ~Midway(v)
        BY <1>3, <3>1 DEF Midway
      <4> QED BY <4>1, <3>1, <1>5 DEF RunnerInv, WriterInv, BufferEnd, Follows, RowEnds
    <3>2. CASE running[w].field # 0
      <4>1. Midway(w)
        BY <1>2, <3>2 DEF Midway
      <4>2. buffer[Len(buffer)].job = cell.job /\ buffer[Len(buffer)].field + 1 = cell.field
        BY <4>1, <1>5, MidwayFacts
      <4> QED BY <4>2 DEF Follows, Consecutive
    <3> QED BY <3>1, <3>2
  <2>2. failures' = failures
    BY DEF WriteField
  <2>3. ASSUME NEW i \in 1..(Len(buffer') - 1) PROVE Follows(failures > 0, buffer'[i], buffer'[i + 1])
    <3>1. CASE i = Len(buffer)
      BY <3>1, <2>1, <1>10, <1>11
    <3>2. CASE i # Len(buffer)
      <4>1. i \in 1..(Len(buffer) - 1) /\ buffer'[i] = buffer[i] /\ buffer'[i + 1] = buffer[i + 1]
        BY <3>2, <1>10
      <4> QED BY <4>1 DEF RunnerInv, WriterInv, InRows
    <3> QED BY <3>1, <3>2
  <2> QED BY <2>2, <2>3 DEF InRows
<1>16. BufferEnd'
  <2>1. buffer'[1].field = 1
    <3>1. CASE buffer = <<>>
      <4>1. \A v \in Workers : v # w => ~Midway(v)
        BY <1>3
      <4>2. running[w].field = 0
        BY <1>2, <3>1 DEF RunnerInv, WriterInv, BufferEnd, Midway
      <4> QED BY <4>2, <3>1, <1>5, <1>10, <1>11
    <3>2. CASE buffer # <<>>
      <4>1. buffer[1].field = 1
        BY <3>2, Zenon DEF RunnerInv, WriterInv, BufferEnd
      <4>2. 1 \in 1..Len(buffer)
        BY <3>2, <1>10, <1>11
      <4> QED BY <4>1, <4>2, <1>10
    <3> QED BY <3>1, <3>2
  <2>2. Midway(w)' /\ \A v \in Workers : v # w => ~Midway(v)'
    BY <1>2, <1>3, <1>4, <1>6, <1>7, <1>13 DEF Midway
  <2>3. buffer'[Len(buffer')] = Cell(running'[w].job, running'[w].field)
    BY <1>7, <1>10 DEF cell
  <2> QED BY <2>1, <2>2, <2>3, <1>11 DEF BufferEnd
<1>17. WriterInv'
  BY <1>15, <1>16 DEF RunnerInv, WriterInv, OutputEnd, WriteField
<1> QED BY <1>12, <1>14, <1>17 DEF RunnerInv

(***************************************************************************)
(* What ends with a row still does when whole rows are put behind it.      *)
(***************************************************************************)
LEMMA LastOfConcat ==
  ASSUME NEW s \in Seq(Cells), NEW t \in Seq(Cells), t # <<>>
  PROVE  s \o t # <<>> /\ (s \o t)[Len(s \o t)] = t[Len(t)]
<1>1. Len(s) \in Nat /\ Len(t) \in Nat /\ Len(t) # 0 /\ Len(s \o t) = Len(s) + Len(t)
  BY LenProperties, EmptySeq, ConcatProperties
<1>2. \A i \in 1..(Len(s) + Len(t)) : (s \o t)[i] = IF i <= Len(s) THEN s[i] ELSE t[i - Len(s)]
  BY ConcatProperties
<1>3. Len(s) + Len(t) \in 1..(Len(s) + Len(t)) /\ ~(Len(s) + Len(t) <= Len(s))
      /\ (Len(s) + Len(t)) - Len(s) = Len(t)
  BY <1>1
<1>4. (s \o t)[Len(s) + Len(t)] = t[Len(t)]
  BY <1>2, <1>3
<1>5. s \o t # <<>>
  BY <1>1, EmptySeq
<1> QED BY <1>1, <1>4, <1>5

LEMMA FlushInv == ASSUME RunnerInv, NEW w \in Workers, Flush(w) PROVE RunnerInv'
<1> USE RunnerAssumption
<1>1. /\ running \in [Workers -> Steps] /\ running[w] \in Steps /\ running[w].step = "flush"
      /\ main = "running" /\ running' = [running EXCEPT ![w] = Idle]
  BY ThreadFacts DEF Flush
<1>2. Writing(w) /\ holder = w /\ w # NoWorker /\ running[w].field = Fields
  BY <1>1 DEF Writing, RunnerInv, LockInv
<1>3. ~poisoned /\ \A v \in Workers : v # w => ~Writing(v) /\ ~Midway(v)
  BY <1>2, ThreadFacts
<1>4. holder' = NoWorker
  BY <1>2 DEF Flush, Unlocked
<1>5. (\A v \in Workers : v # w => running'[v] = running[v]) /\ running'[w] = Idle
  BY <1>1
<1>6. running' \in [Workers -> Steps]
  <2>1. Idle \in Steps
    BY DEF Idle, Steps
  <2> QED BY <2>1, <1>1
<1>7. output' = output \o buffer /\ buffer' = <<>> /\ failures' = failures
  BY DEF Flush
<1>8. output \in Seq(Cells) /\ buffer \in Seq(Cells) /\ InRows(failures > 0, output')
  BY <1>7, RowsWhole DEF RunnerInv
<1>9. output' \in Seq(Cells) /\ buffer' \in Seq(Cells)
  BY <1>7, <1>8, ConcatProperties, EmptySeq
<1>10. TypeOK'
  BY <1>4, <1>6, <1>9 DEF RunnerInv, TypeOK, Flush, Steps, Cells
<1>11. \A v \in Workers : ~Writing(v)'
  BY <1>3, <1>5 DEF Writing, Idle
<1>12. LockInv'
  <2>1. \A v \in Workers : Writing(v)' <=> holder' = v
    BY <1>4, <1>11
  <2>2. \A v \in Workers : /\ running'[v].step = "write" => running'[v].field < Fields
                           /\ running'[v].step = "flush" => running'[v].field = Fields
                           /\ ~Writing(v)' => running'[v].field = 0
                           /\ running'[v].step # "idle" => running'[v].job \in Jobs
    BY <1>3, <1>5, <1>11 DEF RunnerInv, LockInv, Idle
  <2> QED BY <2>1, <2>2, <1>1, <1>3 DEF RunnerInv, LockInv, Flush
<1>13. output'[Len(output')].field = Fields
  <2>1. Midway(w)
    BY <1>2 DEF Midway
  <2>2. buffer # <<>> /\ buffer[Len(buffer)].field = Fields
    BY <2>1, <1>2, MidwayFacts
  <2> QED BY <2>2, <1>7, <1>8, LastOfConcat
<1>14. InRows(failures > 0, buffer)'
  BY <1>7, EmptySeq DEF InRows
<1>15. BufferEnd'
  BY <1>7, <1>11 DEF BufferEnd, Midway
<1>16. WriterInv'
  BY <1>7, <1>8, <1>13, <1>14, <1>15 DEF WriterInv, OutputEnd
<1> QED BY <1>10, <1>12, <1>16 DEF RunnerInv

(***************************************************************************)
(* A refused write leaves a beginning of the buffer behind the output, and *)
(* from then on a row may be torn off.                                     *)
(***************************************************************************)
LEMMA WrittenInPartRows ==
  ASSUME TypeOK, WriterInv, WrittenInPart, buffer' = buffer, failures' = failures + 1
  PROVE  /\ output' \in Seq(Cells) /\ buffer' \in Seq(Cells)
         /\ InRows(failures > 0, output)' /\ InRows(failures > 0, buffer)' /\ OutputEnd'
<1>1. output \in Seq(Cells) /\ buffer \in Seq(Cells) /\ failures \in Nat
  BY DEF TypeOK, Cells
<1>2. failures' > 0 /\ (failures > 0 => failures' > 0)
  BY <1>1
<1>3. InRows(failures' > 0, output) /\ InRows(failures' > 0, buffer)
  BY <1>2, RowsStay DEF WriterInv
<1>4. PICK n \in 0..Len(buffer) : output' = output \o SubSeq(buffer, 1, n)
  BY DEF WrittenInPart
<1> DEFINE part == SubSeq(buffer, 1, n)
<1>5. /\ part \in Seq(Cells) /\ InRows(failures' > 0, part)
      /\ n # 0 => part[1] = buffer[1]
      /\ n = 0 => part = <<>>
  BY <1>1, <1>3, InRowsPrefix
<1>6. n # 0 => buffer # <<>>
  BY <1>1, EmptySeq
<1>7. ASSUME output # <<>>, part # <<>> PROVE Follows(failures' > 0, output[Len(output)], part[1])
  <2>1. part[1].field = 1
    BY <1>5, <1>6, <1>7 DEF WriterInv, BufferEnd
  <2> QED BY <2>1, <1>2 DEF Follows
<1> HIDE DEF part
<1>8. InRows(failures' > 0, output \o part)
  <2> DEFINE torn == failures' > 0
  <2>1. InRows(torn, output) /\ InRows(torn, part)
    BY <1>3, <1>5
  <2>2. output # <<>> /\ part # <<>> => Follows(torn, output[Len(output)], part[1])
    BY <1>7
  <2> HIDE DEF torn
  <2>3. InRows(torn, output \o part)
    BY <2>1, <2>2, <1>1, <1>5, InRowsConcat
  <2> QED BY <2>3 DEF torn
<1>9. output' = output \o part
  BY <1>4 DEF part
<1>10. output' \in Seq(Cells)
  BY <1>1, <1>5, <1>9, ConcatProperties
<1>11. OutputEnd'
  BY <1>2 DEF OutputEnd
<1> QED BY <1>1, <1>3, <1>8, <1>9, <1>10, <1>11

LEMMA FlushPanicsInv == ASSUME RunnerInv, NEW w \in Workers, FlushPanics(w) PROVE RunnerInv'
<1> USE RunnerAssumption
<1>1. /\ running \in [Workers -> Steps] /\ running[w] \in Steps /\ running[w].step = "flush"
      /\ main = "running" /\ running' = [running EXCEPT ![w] = Idle] /\ running[w].job \in Jobs
  BY ThreadFacts DEF FlushPanics, Panic
<1>2. Writing(w) /\ holder = w /\ w # NoWorker /\ running[w].field = Fields
  BY <1>1 DEF Writing, RunnerInv, LockInv
<1>3. \A v \in Workers : v # w => ~Writing(v) /\ ~Midway(v)
  BY <1>2, ThreadFacts
<1>4. /\ holder' = NoWorker /\ poisoned' = TRUE
      /\ panicked' = panicked \cup {running[w].job} /\ panicked' # {}
  BY <1>2 DEF FlushPanics, Panic, Unlocked, Poisons
<1>5. (\A v \in Workers : v # w => running'[v] = running[v]) /\ running'[w] = Idle
  BY <1>1
<1>6. running' \in [Workers -> Steps]
  <2>1. Idle \in Steps
    BY DEF Idle, Steps
  <2> QED BY <2>1, <1>1
<1>7. WrittenInPart /\ buffer' = buffer /\ failures' = failures + 1 /\ failures < MaxFailures
  BY DEF FlushPanics
<1>8. /\ output' \in Seq(Cells) /\ buffer' \in Seq(Cells)
      /\ InRows(failures > 0, output)' /\ InRows(failures > 0, buffer)' /\ OutputEnd'
  BY <1>7, WrittenInPartRows DEF RunnerInv
<1>9. TypeOK'
  <2>1. panicked' \subseteq Jobs
    BY <1>1, <1>4 DEF RunnerInv, TypeOK
  <2>2. failures' \in 0..MaxFailures
    BY <1>7 DEF RunnerInv, TypeOK
  <2> QED BY <2>1, <2>2, <1>4, <1>6, <1>8 DEF RunnerInv, TypeOK, FlushPanics, Steps, Cells
<1>10. \A v \in Workers : ~Writing(v)'
  BY <1>3, <1>5 DEF Writing, Idle
<1>11. LockInv'
  <2>1. \A v \in Workers : Writing(v)' <=> holder' = v
    BY <1>4, <1>10
  <2>2. \A v \in Workers : /\ running'[v].step = "write" => running'[v].field < Fields
                           /\ running'[v].step = "flush" => running'[v].field = Fields
                           /\ ~Writing(v)' => running'[v].field = 0
                           /\ running'[v].step # "idle" => running'[v].job \in Jobs
    BY <1>3, <1>5, <1>10 DEF RunnerInv, LockInv, Idle
  <2> QED BY <2>1, <2>2, <1>1, <1>4 DEF RunnerInv, LockInv, FlushPanics
<1>12. BufferEnd'
  <2>1. \A v \in Workers : ~Midway(v)'
    BY <1>10 DEF Midway
  <2>2. Midway(w)
    BY <1>2 DEF Midway
  <2>3. buffer # <<>> /\ buffer[1].field = 1 /\ buffer[Len(buffer)].field = Fields
    BY <2>2, <1>2, MidwayFacts
  <2> QED BY <2>1, <2>3, <1>7 DEF BufferEnd
<1>13. WriterInv'
  BY <1>8, <1>12 DEF WriterInv
<1> QED BY <1>9, <1>11, <1>13 DEF RunnerInv

LEMMA EndInv == ASSUME RunnerInv, End PROVE RunnerInv'
<1>1. output \in Seq(Cells) /\ buffer \in Seq(Cells) /\ InRows(failures > 0, output \o buffer)
  BY RowsWhole DEF RunnerInv
<1>2. \A w \in Workers : ~Midway(w)
  BY DEF End, Midway, Writing, Idle
<1>3. buffer = <<>> \/ buffer[Len(buffer)].field = Fields
  BY <1>2, Zenon DEF RunnerInv, WriterInv, BufferEnd
<1>4. main' \in {"returned", "panicked"} /\ (main' = "returned" => panicked = {})
  BY DEF End, ScopeOutcome
<1>5. LockInv'
  BY <1>4 DEF End, RunnerInv, LockInv, Writing
<1>6. \A w \in Workers : ~Midway(w)'
  BY <1>2 DEF End, Midway, Writing
<1>7. CASE output' = output \o buffer /\ buffer' = <<>> /\ UNCHANGED failures
  <2>1. output' \in Seq(Cells) /\ buffer' \in Seq(Cells)
    BY <1>1, <1>7, ConcatProperties, EmptySeq
  <2>2. TypeOK'
    BY <1>4, <1>7, <2>1 DEF End, RunnerInv, TypeOK, Cells
  <2>3. OutputEnd'
    <3>1. CASE buffer = <<>>
      <4>1. output' = output
        BY <1>1, <1>7, <3>1, ConcatEmptySeq
      <4> QED BY <4>1, <1>7 DEF RunnerInv, WriterInv, OutputEnd
    <3>2. CASE buffer # <<>>
      BY <1>1, <1>3, <1>7, <3>2, LastOfConcat DEF OutputEnd
    <3> QED BY <3>1, <3>2
  <2>4. BufferEnd'
    BY <1>6, <1>7 DEF BufferEnd
  <2>5. InRows(failures > 0, buffer)'
    BY <1>7, EmptySeq DEF InRows
  <2>6. InRows(failures > 0, output)'
    BY <1>1, <1>7
  <2> QED BY <1>5, <2>2, <2>3, <2>4, <2>5, <2>6 DEF RunnerInv, WriterInv
<1>8. CASE failures < MaxFailures /\ failures' = failures + 1 /\ WrittenInPart /\ UNCHANGED buffer
  <2>1. /\ output' \in Seq(Cells) /\ buffer' \in Seq(Cells)
        /\ InRows(failures > 0, output)' /\ InRows(failures > 0, buffer)' /\ OutputEnd'
    BY <1>8, WrittenInPartRows DEF RunnerInv
  <2>2. failures' \in 0..MaxFailures
    BY <1>8, RunnerAssumption DEF RunnerInv, TypeOK
  <2>3. TypeOK'
    BY <1>4, <2>1, <2>2 DEF End, RunnerInv, TypeOK, Cells
  <2>4. buffer' # <<>> => buffer'[1].field = 1
    <3>1. buffer # <<>> => buffer[1].field = 1
      BY Zenon DEF RunnerInv, WriterInv, BufferEnd
    <3> QED BY <3>1, <1>8
  <2>5. BufferEnd'
    BY <1>3, <1>6, <1>8, <2>4 DEF BufferEnd
  <2> QED BY <1>5, <2>1, <2>3, <2>5 DEF RunnerInv, WriterInv
<1> QED BY <1>7, <1>8 DEF End

-------------------------------------------------------------------------------
(***************************************************************************)
(* The invariant is inductive.                                             *)
(***************************************************************************)
LEMMA NextRunnerInv == RunnerInv /\ [Next]_vars => RunnerInv'
<1> SUFFICES ASSUME RunnerInv, [Next]_vars PROVE RunnerInv'
  OBVIOUS
<1>1. CASE Spawn
  BY <1>1, SpawnInv
<1>2. CASE End
  BY <1>2, EndInv
<1>3. ASSUME NEW w \in Workers, Work(w) PROVE RunnerInv'
  BY <1>3, TakeInv, SimulateInv, SimulationPanicsInv, LockStepInv, LockPanicsInv, WriteFieldInv,
     FlushInv, FlushPanicsInv, Zenon DEF Work
<1>4. CASE UNCHANGED vars
  <2>1. TypeOK'
    BY <1>4 DEF RunnerInv, TypeOK, vars
  <2>2. LockInv'
    BY <1>4 DEF RunnerInv, LockInv, Writing, vars
  <2>3. WriterInv'
    BY <1>4, WriterUntouched DEF RunnerInv, Midway, Writing, vars
  <2> QED BY <2>1, <2>2, <2>3 DEF RunnerInv
<1> QED BY <1>1, <1>2, <1>3, <1>4 DEF Next

LEMMA RunnerInvAlways == Spec => []RunnerInv
BY InitRunnerInv, NextRunnerInv, PTL DEF Spec

(***************************************************************************)
(* The variables of main() have their types, however many jobs and threads *)
(* there are.                                                              *)
(***************************************************************************)
THEOREM RunnerTypes == Spec => []TypeOK
BY RunnerInvAlways, PTL DEF RunnerInv

(***************************************************************************)
(* Rows are never mixed on the standard output: each is whole, or, after a *)
(* refused write, torn off at its end.                                     *)
(***************************************************************************)
THEOREM RowsNeverMixedAlways == Spec => []RowsNeverMixed
<1>1. RunnerInv => RowsNeverMixed
  BY RowsWhole DEF RunnerInv, RowsNeverMixed
<1> QED BY <1>1, RunnerInvAlways, PTL

(***************************************************************************)
(* After a thread panicked with the mutex held, no other writes, and the   *)
(* program does not end as if nothing had happened.                        *)
(***************************************************************************)
THEOREM FailureIsFinalAlways == Spec => FailureIsFinal
<1> DEFINE Final == poisoned => buffer' \in {buffer, <<>>} /\ main' # "returned"
<1>1. RunnerInv /\ RunnerInv' /\ [Next]_vars => [Final]_vars
  <2> SUFFICES ASSUME RunnerInv, RunnerInv', Next, poisoned
               PROVE  buffer' \in {buffer, <<>>} /\ main' # "returned"
    OBVIOUS
  <2>1. holder = NoWorker /\ panicked # {}
    BY DEF RunnerInv, LockInv
  <2>2. panicked' # {}
    BY <2>1 DEF Next, Spawn, End, Work, Take, Simulate, SimulationPanics, Lock, LockPanics,
                WriteField, Flush, FlushPanics, Panic
  <2>3. main' # "returned"
    BY <2>2 DEF RunnerInv, LockInv
  <2>4. ASSUME NEW w \in Workers, WriteField(w) PROVE FALSE
    BY <2>1, <2>4, RunnerAssumption DEF RunnerInv, LockInv, Writing, WriteField
  <2>5. buffer' \in {buffer, <<>>}
    BY <2>4 DEF Next, Spawn, End, Work, Take, Simulate, SimulationPanics, Lock, LockPanics,
                Flush, FlushPanics
  <2> QED BY <2>3, <2>5
<1> QED BY <1>1, RunnerInvAlways, PTL DEF Spec, FailureIsFinal

-------------------------------------------------------------------------------
(***************************************************************************)
(* The jobs that were begun, those of them that no thread is at any more,  *)
(* and those of these that must have written their row.                    *)
(***************************************************************************)
Active(w) == running[w].step # "idle"

Begun == {Grid[i] : i \in 1..taken}

Over == {job \in Begun : \A w \in Workers : Active(w) => running[w].job # job}

Done == Over \ Broken

Seen == output \o buffer

(***************************************************************************)
(* A job was begun once, by one thread, and one that comes to the mutex is *)
(* not broken.                                                             *)
(***************************************************************************)
JobsInv ==
  /\ \A w \in Workers : Active(w) => /\ running[w].job \in Begun
                                     /\ running[w].step # "run" => running[w].job \notin Broken
  /\ \A v, w \in Workers : Active(v) /\ Active(w) /\ running[v].job = running[w].job => v = w

(***************************************************************************)
(* As long as no write was refused only broken jobs panic, and what was    *)
(* written is the header, a whole row of every job that is done, and       *)
(* behind them the part of its row that a thread has written.              *)
(***************************************************************************)
HasRow(s, job) ==
  \E i \in Nat : i + Fields <= Len(s) /\ \A f \in 1..Fields : s[i + f] = Cell(job, f)

EndsWith(s, job, n) ==
  n <= Len(s) /\ \A f \in 1..n : s[Len(s) - n + f] = Cell(job, f)

HasRows(s, jobs) == \A job \in jobs : HasRow(s, job)

RowsLong(s, jobs, n) == Len(s) = Fields * (1 + Cardinality(jobs)) + n

WrittenInv ==
  /\ ~poisoned /\ panicked = Over \cap Broken
  /\ HasRows(Seen, Done)
  /\ (\A w \in Workers : ~Writing(w)) => RowsLong(Seen, Done, 0)
  /\ \A w \in Workers : Writing(w) => /\ RowsLong(Seen, Done, running[w].field)
                                      /\ EndsWith(Seen, running[w].job, running[w].field)
  /\ main # "running" => /\ buffer = <<>>
                         /\ main = "returned" <=> panicked = {}

CompleteInv == RunnerInv /\ JobsInv /\ (failures = 0 => WrittenInv)

(***************************************************************************)
(* What is appended spoils no row.                                         *)
(***************************************************************************)
LEMMA RowsKept ==
  ASSUME NEW s \in Seq(Cells), NEW x \in Cells, NEW jobs, HasRows(s, jobs)
  PROVE  HasRows(Append(s, x), jobs)
<1>1. /\ Len(s) \in Nat /\ Len(Append(s, x)) = Len(s) + 1
      /\ \A i \in 1..Len(s) : Append(s, x)[i] = s[i]
  BY AppendProperties, LenProperties
<1> DEFINE t == Append(s, x)
<1> HIDE DEF t
<1> SUFFICES ASSUME NEW job \in jobs PROVE HasRow(t, job)
  BY DEF HasRows, t
<1>2. PICK i \in Nat : i + Fields <= Len(s) /\ \A f \in 1..Fields : s[i + f] = Cell(job, f)
  BY DEF HasRows, HasRow
<1>3. Fields \in Nat
  BY RunnerAssumption
<1>4. i + Fields <= Len(t)
  BY <1>1, <1>2, <1>3 DEF t
<1>5. ASSUME NEW f \in 1..Fields PROVE t[i + f] = Cell(job, f)
  <2>1. i + f \in 1..Len(s)
    BY <1>1, <1>2, <1>3
  <2> QED BY <1>1, <1>2, <2>1 DEF t
<1> QED BY <1>4, <1>5 DEF HasRow

(***************************************************************************)
(* A row is finished field by field.                                       *)
(***************************************************************************)
LEMMA RowGrows ==
  ASSUME NEW s \in Seq(Cells), NEW job, NEW n \in Nat, Cell(job, n + 1) \in Cells, EndsWith(s, job, n)
  PROVE  EndsWith(Append(s, Cell(job, n + 1)), job, n + 1)
<1> DEFINE x == Cell(job, n + 1)
           t == Append(s, x)
<1>1. /\ Len(s) \in Nat /\ Len(t) = Len(s) + 1
      /\ \A i \in 1..Len(s) : t[i] = s[i]
      /\ t[Len(s) + 1] = x
  BY AppendProperties, LenProperties
<1>2. n <= Len(s) /\ \A f \in 1..n : s[Len(s) - n + f] = Cell(job, f)
  BY DEF EndsWith
<1> HIDE DEF t
<1>3. ASSUME NEW f \in 1..(n + 1) PROVE t[Len(t) - (n + 1) + f] = Cell(job, f)
  <2>1. Len(t) - (n + 1) + f = Len(s) - n + f
    BY <1>1
  <2>2. CASE f = n + 1
    <3>1. Len(s) - n + f = Len(s) + 1
      BY <1>1, <2>2
    <3> QED BY <1>1, <2>1, <2>2, <3>1
  <2>3. CASE f # n + 1
    <3>1. f \in 1..n /\ Len(s) - n + f \in 1..Len(s)
      BY <1>1, <1>2, <2>3
    <3> QED BY <1>1, <1>2, <2>1, <3>1
  <2> QED BY <2>2, <2>3
<1>4. n + 1 <= Len(t)
  BY <1>1, <1>2
<1> QED BY <1>3, <1>4 DEF EndsWith, t

LEMMA RowFinished ==
  ASSUME NEW s \in Seq(Cells), NEW job, EndsWith(s, job, Fields)
  PROVE  HasRow(s, job)
<1>1. Len(s) \in Nat /\ Fields \in Nat /\ Fields <= Len(s)
  BY RunnerAssumption, LenProperties DEF EndsWith
<1>2. Len(s) - Fields \in Nat /\ (Len(s) - Fields) + Fields <= Len(s)
  BY <1>1
<1>3. \A f \in 1..Fields : s[(Len(s) - Fields) + f] = Cell(job, f)
  BY DEF EndsWith
<1> QED BY <1>2, <1>3 DEF HasRow

LEMMA RowsLonger ==
  ASSUME NEW s, NEW jobs, IsFiniteSet(jobs), NEW job, job \notin jobs, RowsLong(s, jobs, Fields)
  PROVE  RowsLong(s, jobs \cup {job}, 0)
<1>1. Cardinality(jobs) \in Nat /\ Cardinality(jobs \cup {job}) = Cardinality(jobs) + 1
  BY FS_CardinalityType, FS_AddElement
<1> DEFINE c == Cardinality(jobs)
<1>2. Fields * (1 + c) + Fields = Fields * (1 + (c + 1)) + 0
  <2> HIDE DEF c
  <2>1. c \in Nat /\ Fields \in Nat
    BY <1>1, RunnerAssumption DEF c
  <2> QED BY <2>1
<1> QED BY <1>1, <1>2 DEF RowsLong

LEMMA DoneFinite ==
  ASSUME RunnerInv
  PROVE  IsFiniteSet(Done)
<1>1. taken \in Nat
  BY RunnerAssumption, LenProperties DEF RunnerInv, TypeOK
<1>2. IsFiniteSet(1..taken)
  BY <1>1, FS_Interval
<1>3. IsFiniteSet(Begun)
  <2> DEFINE I == 1..taken
             f == [i \in I |-> Grid[i]]
  <2>1. f \in Surjection(I, Begun)
    BY DEF Begun, Surjection
  <2> HIDE DEF I, f
  <2>2. IsFiniteSet(I)
    BY <1>2 DEF I
  <2> QED BY <2>1, <2>2, FS_Surjection
<1>4. Done \subseteq Begun
  BY DEF Done, Over
<1> QED BY <1>3, <1>4, FS_Subset

-------------------------------------------------------------------------------
(***************************************************************************)
(* What a step leaves of the jobs: a thread goes on with its job, stops,   *)
(* or begins the next.                                                     *)
(***************************************************************************)
LEMMA JobsKept ==
  ASSUME JobsInv, taken' = taken,
         \A w \in Workers : Active(w)' =>
           /\ Active(w) /\ running'[w].job = running[w].job
           /\ running'[w].step # "run" => running[w].job \notin Broken
  PROVE  JobsInv'
<1>1. Begun' = Begun
  BY DEF Begun
<1>2. \A w \in Workers : Active(w)' => /\ running'[w].job \in Begun'
                                       /\ running'[w].step # "run" => running'[w].job \notin Broken
  BY <1>1 DEF JobsInv
<1>3. \A v, w \in Workers : Active(v)' /\ Active(w)' /\ running'[v].job = running'[w].job => v = w
  BY DEF JobsInv
<1> QED BY <1>2, <1>3 DEF JobsInv

LEMMA OverSame ==
  ASSUME taken' = taken,
         \A w \in Workers : (Active(w)' <=> Active(w)) /\ (Active(w) => running'[w].job = running[w].job)
  PROVE  Over' = Over /\ Done' = Done
BY DEF Over, Done, Begun

LEMMA OverGrows ==
  ASSUME RunnerInv, JobsInv, NEW w \in Workers, Active(w), taken' = taken,
         running' = [running EXCEPT ![w] = Idle]
  PROVE  /\ Over' = Over \cup {running[w].job} /\ running[w].job \notin Over
         /\ \A v \in Workers : Active(v)' => v # w /\ Active(v) /\ running'[v] = running[v]
<1>1. (\A v \in Workers : v # w => running'[v] = running[v]) /\ running'[w] = Idle
  BY ThreadFacts
<1>2. \A v \in Workers : Active(v)' => v # w /\ Active(v) /\ running'[v] = running[v]
  BY <1>1 DEF Active, Idle
<1>3. \A v \in Workers : v # w /\ Active(v) => Active(v)' /\ running'[v] = running[v]
  BY <1>1 DEF Active
<1>4. Begun' = Begun /\ running[w].job \in Begun
  BY DEF Begun, JobsInv
<1>5. \A v \in Workers : v # w /\ Active(v) => running[v].job # running[w].job
  BY DEF JobsInv
<1>6. ASSUME NEW job PROVE job \in Over' <=> job \in Over \/ job = running[w].job
  <2>1. CASE job = running[w].job
    BY <2>1, <1>2, <1>4, <1>5 DEF Over
  <2>2. CASE job # running[w].job
    BY <2>2, <1>2, <1>3, <1>4 DEF Over
  <2> QED BY <2>1, <2>2
<1>7. running[w].job \notin Over
  BY DEF Over
<1> QED BY <1>2, <1>6, <1>7

LEMMA TakeJobs ==
  ASSUME RunnerInv, JobsInv, NEW w \in Workers, Take(w)
  PROVE  JobsInv' /\ Over' = Over /\ Done' = Done
<1> DEFINE new == Grid[taken + 1]
<1>1. /\ taken \in Nat /\ Len(Grid) \in Nat /\ taken + 1 \in 1..Len(Grid) /\ spawned \in 0..Len(Grid)
      /\ taken' = taken + 1
  BY RunnerAssumption, LenProperties DEF RunnerInv, TypeOK, Take
<1>2. /\ \A v \in Workers : v # w => running'[v] = running[v]
      /\ running'[w].step = "run" /\ running'[w].job = new
      /\ ~Active(w)
  BY ThreadFacts DEF Take, Active, Idle
<1>3. Begun' = Begun \cup {new}
  <2>1. 1..taken' = (1..taken) \cup {taken + 1}
    BY <1>1
  <2> QED BY <2>1 DEF Begun
<1>4. new \notin Begun
  <2>1. \A i \in 1..taken : i \in 1..Len(Grid) /\ i # taken + 1
    BY <1>1
  <2>2. \A i \in 1..taken : Grid[i] # Grid[taken + 1]
    BY <1>1, <2>1, RunnerAssumption
  <2> QED BY <2>2 DEF Begun
<1> HIDE DEF new
<1>5. \A v \in Workers : (Active(v)' <=> v = w \/ Active(v)) /\ (v # w => running'[v] = running[v])
  BY <1>2 DEF Active
<1>6. \A v \in Workers : Active(v) => v # w /\ running[v].job \in Begun /\ running[v].job # new
  BY <1>2, <1>4 DEF JobsInv
<1>7. JobsInv'
  <2>1. \A v \in Workers : Active(v)' => /\ running'[v].job \in Begun'
                                         /\ running'[v].step # "run" => running'[v].job \notin Broken
    BY <1>2, <1>3, <1>5 DEF JobsInv
  <2>2. ASSUME NEW v \in Workers, NEW x \in Workers, Active(v)', Active(x)', running'[v].job = running'[x].job
        PROVE  v = x
    <3>1. CASE v # w /\ x # w
      BY <2>2, <3>1, <1>5 DEF JobsInv
    <3>2. CASE v = w \/ x = w
      BY <2>2, <3>2, <1>2, <1>5, <1>6
    <3> QED BY <3>1, <3>2
  <2> QED BY <2>1, <2>2 DEF JobsInv
<1>8. ASSUME NEW job PROVE job \in Over' <=> job \in Over
  <2>1. CASE job = new
    BY <2>1, <1>2, <1>4, <1>5 DEF Over
  <2>2. CASE job # new
    BY <2>2, <1>2, <1>3, <1>5, <1>6 DEF Over
  <2> QED BY <2>1, <2>2
<1> QED BY <1>7, <1>8 DEF Done

(***************************************************************************)
(* The invariant under a step that neither writes nor ends a job.          *)
(***************************************************************************)
LEMMA WrittenSame ==
  ASSUME WrittenInv, Over' = Over, Done' = Done,
         UNCHANGED <<poisoned, panicked, main, buffer, output>>,
         \A w \in Workers : (Writing(w)' <=> Writing(w)) /\ (Writing(w) => running'[w] = running[w])
  PROVE  WrittenInv'
<1>1. Seen' = Seen
  BY DEF Seen
<1>2. (\A w \in Workers : ~Writing(w)') => RowsLong(Seen', Done', 0)
  BY <1>1 DEF WrittenInv
<1>3. \A w \in Workers : Writing(w)' => /\ RowsLong(Seen', Done', running'[w].field)
                                        /\ EndsWith(Seen', running'[w].job, running'[w].field)
  BY <1>1 DEF WrittenInv
<1>4. HasRows(Seen', Done') /\ ~poisoned' /\ panicked' = Over' \cap Broken
  BY <1>1 DEF WrittenInv
<1>5. main' # "running" => buffer' = <<>> /\ (main' = "returned" <=> panicked' = {})
  BY DEF WrittenInv
<1> QED BY <1>2, <1>3, <1>4, <1>5 DEF WrittenInv

LEMMA SpawnComplete == ASSUME CompleteInv, Spawn PROVE CompleteInv'
<1>1. RunnerInv'
  BY SpawnInv DEF CompleteInv
<1>2. UNCHANGED <<running, taken, poisoned, panicked, main, buffer, output, failures>>
  BY DEF Spawn
<1>3. JobsInv'
  BY <1>2, JobsKept DEF CompleteInv, Active, JobsInv
<1>4. Over' = Over /\ Done' = Done
  BY <1>2, OverSame DEF Active
<1>5. failures = 0 => WrittenInv'
  BY <1>2, <1>4, WrittenSame DEF CompleteInv, Writing
<1> QED BY <1>1, <1>2, <1>3, <1>5 DEF CompleteInv

LEMMA TakeComplete == ASSUME CompleteInv, NEW w \in Workers, Take(w) PROVE CompleteInv'
<1>1. RunnerInv' /\ JobsInv' /\ Over' = Over /\ Done' = Done
  BY TakeInv, TakeJobs DEF CompleteInv
<1>2. UNCHANGED <<poisoned, panicked, main, buffer, output, failures>>
  BY DEF Take
<1>3. /\ \A v \in Workers : v # w => running'[v] = running[v]
      /\ running'[w].step = "run" /\ running[w].step = "idle"
  BY ThreadFacts DEF CompleteInv, Take, Idle
<1>4. \A v \in Workers : (Writing(v)' <=> Writing(v)) /\ (Writing(v) => running'[v] = running[v])
  BY <1>3 DEF Writing
<1>5. failures = 0 => WrittenInv'
  BY <1>1, <1>2, <1>4, WrittenSame DEF CompleteInv
<1> QED BY <1>1, <1>2, <1>5 DEF CompleteInv

(***************************************************************************)
(* A thread that goes on with its job, to another step of it.              *)
(***************************************************************************)
LEMMA StepFacts ==
  ASSUME CompleteInv, NEW w \in Workers, NEW step, step # "idle", Active(w),
         running' = [running EXCEPT ![w].step = step], taken' = taken,
         step # "run" => running[w].job \notin Broken
  PROVE  /\ JobsInv' /\ Over' = Over /\ Done' = Done
         /\ \A v \in Workers : v # w => running'[v] = running[v]
         /\ running'[w].step = step /\ running'[w].job = running[w].job
         /\ running'[w].field = running[w].field
<1>1. /\ \A v \in Workers : v # w => running'[v] = running[v]
      /\ running'[w].step = step /\ running'[w].job = running[w].job
      /\ running'[w].field = running[w].field
  BY ThreadFacts DEF CompleteInv, Steps
<1>2. \A v \in Workers : /\ Active(v)' <=> Active(v)
                         /\ running'[v].job = running[v].job
                         /\ Active(v) /\ running'[v].step # "run" => running[v].job \notin Broken
  BY <1>1 DEF Active, CompleteInv, JobsInv
<1>3. JobsInv' /\ Over' = Over /\ Done' = Done
  BY <1>2, JobsKept, OverSame DEF CompleteInv
<1> QED BY <1>1, <1>3

LEMMA SimulateComplete == ASSUME CompleteInv, NEW w \in Workers, Simulate(w) PROVE CompleteInv'
<1>1. RunnerInv' /\ UNCHANGED <<poisoned, panicked, main, buffer, output, failures>>
  BY SimulateInv DEF CompleteInv, Simulate
<1>2. /\ JobsInv' /\ Over' = Over /\ Done' = Done
      /\ \A v \in Workers : v # w => running'[v] = running[v]
      /\ running'[w].step = "lock" /\ running[w].step = "run"
  BY StepFacts DEF Simulate, Active
<1>3. \A v \in Workers : (Writing(v)' <=> Writing(v)) /\ (Writing(v) => running'[v] = running[v])
  BY <1>2 DEF Writing
<1>4. failures = 0 => WrittenInv'
  BY <1>1, <1>2, <1>3, WrittenSame DEF CompleteInv
<1> QED BY <1>1, <1>2, <1>4 DEF CompleteInv

LEMMA LockComplete == ASSUME CompleteInv, NEW w \in Workers, Lock(w) PROVE CompleteInv'
<1>1. RunnerInv' /\ UNCHANGED <<poisoned, panicked, main, buffer, output, failures>>
  BY LockStepInv DEF CompleteInv, Lock
<1>2. /\ running[w].step = "lock" /\ running[w].field = 0 /\ holder = NoWorker
      /\ \A v \in Workers : ~Writing(v)
  BY RunnerAssumption DEF CompleteInv, RunnerInv, LockInv, Lock, Writing, Free
<1>3. /\ JobsInv' /\ Over' = Over /\ Done' = Done
      /\ \A v \in Workers : v # w => running'[v] = running[v]
      /\ running'[w].step = "write" /\ running'[w].field = 0 /\ running'[w].job = running[w].job
  BY <1>2, StepFacts DEF Lock, Active, CompleteInv, JobsInv
<1>4. \A v \in Workers : Writing(v)' <=> v = w
  BY <1>2, <1>3 DEF Writing
<1>5. ASSUME failures = 0 PROVE WrittenInv'
  <2>1. Seen' = Seen /\ Seen \in Seq(Cells)
    BY <1>1, RowsWhole, ConcatProperties DEF Seen, CompleteInv, RunnerInv
  <2>2. RowsLong(Seen', Done', running'[w].field)
    BY <1>2, <1>3, <1>5, <2>1 DEF CompleteInv, WrittenInv
  <2>3. EndsWith(Seen', running'[w].job, running'[w].field)
    BY <1>3, <2>1, LenProperties DEF EndsWith
  <2>4. HasRows(Seen', Done') /\ ~poisoned' /\ panicked' = Over' \cap Broken
    BY <1>1, <1>3, <1>5, <2>1 DEF CompleteInv, WrittenInv
  <2>5. main' # "running" => buffer' = <<>> /\ (main' = "returned" <=> panicked' = {})
    BY <1>1, <1>5 DEF CompleteInv, WrittenInv
  <2> QED BY <1>4, <2>2, <2>3, <2>4, <2>5 DEF WrittenInv
<1> QED BY <1>1, <1>3, <1>5 DEF CompleteInv

(***************************************************************************)
(* A panic without a refused write is that of a broken job, outside the    *)
(* mutex; the mutex is not poisoned, so that nobody panics locking it.     *)
(***************************************************************************)
LEMMA PanicComplete ==
  ASSUME CompleteInv, NEW w \in Workers, running[w].step \in {"run", "lock"}, Panic(w),
         failures = 0 => running[w].job \in Broken,
         UNCHANGED <<spawned, taken, main, buffer, output, failures>>
  PROVE  CompleteInv'
<1>1. RunnerInv' /\ holder' = holder /\ poisoned' = poisoned
  <2>1. RunnerInv'
    BY PanicOutsideInv DEF CompleteInv
  <2>2. holder # w
    BY DEF CompleteInv, RunnerInv, LockInv, Writing
  <2> QED BY <2>1, <2>2 DEF Panic, Unlocked, Poisons, CompleteInv, RunnerInv, TypeOK
<1>2. running' = [running EXCEPT ![w] = Idle] /\ panicked' = panicked \cup {running[w].job}
  BY DEF Panic
<1>3. Active(w)
  BY DEF Active
<1>4. /\ Over' = Over \cup {running[w].job} /\ running[w].job \notin Over
      /\ \A v \in Workers : Active(v)' => v # w /\ Active(v) /\ running'[v] = running[v]
  BY <1>2, <1>3, OverGrows DEF CompleteInv
<1>5. JobsInv'
  BY <1>4, JobsKept DEF CompleteInv, JobsInv
<1>6. ASSUME failures = 0 PROVE WrittenInv'
  <2>1. Done' = Done /\ Seen' = Seen
    BY <1>4, <1>6 DEF Done, Seen
  <2>2. /\ \A v \in Workers : v # w => running'[v] = running[v]
        /\ running'[w] = Idle /\ main = "running"
    BY <1>2, ThreadFacts DEF CompleteInv
  <2>3. \A v \in Workers : (Writing(v)' <=> Writing(v)) /\ (Writing(v) => running'[v] = running[v])
    BY <2>2 DEF Writing, Idle
  <2>4. (\A v \in Workers : ~Writing(v)') => RowsLong(Seen', Done', 0)
    BY <1>6, <2>1, <2>3 DEF CompleteInv, WrittenInv
  <2>5. \A v \in Workers : Writing(v)' => /\ RowsLong(Seen', Done', running'[v].field)
                                          /\ EndsWith(Seen', running'[v].job, running'[v].field)
    BY <1>6, <2>1, <2>3 DEF CompleteInv, WrittenInv
  <2>6. HasRows(Seen', Done') /\ ~poisoned'
    BY <1>1, <1>6, <2>1 DEF CompleteInv, WrittenInv
  <2>7. panicked' = Over' \cap Broken
    <3>1. panicked = Over \cap Broken
      BY <1>6 DEF CompleteInv, WrittenInv
    <3> QED BY <1>2, <1>4, <1>6, <3>1
  <2> QED BY <2>2, <2>4, <2>5, <2>6, <2>7 DEF WrittenInv
<1> QED BY <1>1, <1>5, <1>6 DEF CompleteInv

LEMMA SimulationPanicsComplete == ASSUME CompleteInv, NEW w \in Workers, SimulationPanics(w) PROVE CompleteInv'
BY PanicComplete DEF SimulationPanics

LEMMA LockPanicsComplete == ASSUME CompleteInv, NEW w \in Workers, LockPanics(w) PROVE CompleteInv'
<1>1. failures # 0
  BY DEF CompleteInv, WrittenInv, LockPanics, Usable
<1> QED BY <1>1, PanicComplete DEF LockPanics

LEMMA WriteFieldComplete == ASSUME CompleteInv, NEW w \in Workers, WriteField(w) PROVE CompleteInv'
<1> DEFINE n == running[w].field
           job == running[w].job
           x == Cell(job, n + 1)
           step == IF n + 1 = Fields THEN "flush" ELSE "write"
<1>1. /\ RunnerInv /\ RunnerInv' /\ main = "running"
      /\ UNCHANGED <<taken, poisoned, panicked, main, output, failures>>
      /\ running[w].step = "write" /\ n < Fields /\ running[w] \in Steps /\ job \in Jobs
  BY WriteFieldInv, ThreadFacts DEF CompleteInv, WriteField
<1>2. n \in Nat /\ n + 1 \in 1..Fields /\ x \in Cells
  BY <1>1, RunnerAssumption DEF Steps, Cell, Cells
<1>3. Writing(w) /\ Active(w) /\ \A v \in Workers : v # w => ~Writing(v)
  BY <1>1, ThreadFacts DEF Writing, Active, RunnerInv, LockInv
<1>4. /\ \A v \in Workers : v # w => running'[v] = running[v]
      /\ running'[w].step = step /\ running'[w].job = job /\ running'[w].field = n + 1
  <2>1. running \in [Workers -> Steps] /\ running' = [running EXCEPT ![w].field = n + 1, ![w].step = step]
    BY <1>1, ThreadFacts DEF WriteField
  <2> HIDE DEF step, n
  <2>2. running'[w] = [running[w] EXCEPT !.field = n + 1, !.step = step]
    BY <2>1
  <2> QED BY <1>1, <2>1, <2>2 DEF Steps
<1>5. \A v \in Workers : /\ Active(v)' <=> Active(v)
                         /\ running'[v].job = running[v].job
                         /\ Active(v) /\ running'[v].step # "run" => running[v].job \notin Broken
                         /\ Writing(v)' <=> v = w
  <2>1. running[w].job \notin Broken
    BY <1>1, <1>3 DEF CompleteInv, JobsInv
  <2> QED BY <1>3, <1>4, <2>1 DEF Active, Writing, CompleteInv, JobsInv
<1>6. JobsInv' /\ Over' = Over /\ Done' = Done
  BY <1>1, <1>5, JobsKept, OverSame DEF CompleteInv
<1>7. ASSUME failures = 0 PROVE WrittenInv'
  <2>1. output \in Seq(Cells) /\ buffer \in Seq(Cells) /\ Seen \in Seq(Cells)
    BY <1>1, RowsWhole, ConcatProperties DEF Seen, RunnerInv
  <2>2. Seen' = Append(Seen, x)
    <3>1. Seen' = output \o Append(buffer, x)
      BY <1>1 DEF Seen, WriteField
    <3> HIDE DEF x
    <3> QED BY <1>2, <2>1, <3>1 DEF Seen
  <2>3. /\ RowsLong(Seen, Done, n) /\ EndsWith(Seen, job, n) /\ HasRows(Seen, Done)
        /\ ~poisoned /\ panicked = Over \cap Broken
    BY <1>3, <1>7 DEF CompleteInv, WrittenInv
  <2>4. EndsWith(Seen', job, n + 1)
    BY <1>2, <2>1, <2>2, <2>3, RowGrows
  <2>5. HasRows(Seen', Done)
    BY <1>2, <2>1, <2>2, <2>3, RowsKept
  <2>6. RowsLong(Seen', Done, n + 1)
    <3>1. Len(Seen') = Len(Seen) + 1 /\ Len(Seen) \in Nat
      BY <1>2, <2>1, <2>2, AppendProperties, LenProperties
    <3>2. Cardinality(Done) \in Nat
      BY <1>1, DoneFinite, FS_CardinalityType
    <3> DEFINE c == Fields * (1 + Cardinality(Done))
    <3>3. c \in Nat
      BY <3>2, RunnerAssumption
    <3>4. Len(Seen) = c + n
      BY <2>3 DEF RowsLong
    <3> HIDE DEF c
    <3>5. Len(Seen') = c + (n + 1)
      BY <1>2, <3>1, <3>3, <3>4
    <3> QED BY <3>5 DEF RowsLong, c
  <2> QED BY <1>1, <1>4, <1>5, <1>6, <2>3, <2>4, <2>5, <2>6 DEF WrittenInv
<1> QED BY <1>1, <1>6, <1>7 DEF CompleteInv

(***************************************************************************)
(* With the flush the row counts.                                          *)
(***************************************************************************)
LEMMA FlushComplete == ASSUME CompleteInv, NEW w \in Workers, Flush(w) PROVE CompleteInv'
<1> DEFINE job == running[w].job
<1>1. /\ RunnerInv /\ RunnerInv' /\ main = "running"
      /\ UNCHANGED <<taken, poisoned, panicked, main, failures>>
      /\ running' = [running EXCEPT ![w] = Idle]
      /\ running[w].step = "flush" /\ running[w].field = Fields
  BY FlushInv, ThreadFacts DEF CompleteInv, Flush, RunnerInv, LockInv
<1>2. Writing(w) /\ Active(w) /\ \A v \in Workers : v # w => ~Writing(v)
  BY <1>1, ThreadFacts DEF Writing, Active, RunnerInv, LockInv
<1>3. /\ Over' = Over \cup {job} /\ job \notin Over
      /\ \A v \in Workers : Active(v)' => v # w /\ Active(v) /\ running'[v] = running[v]
  BY <1>1, <1>2, OverGrows DEF CompleteInv
<1>4. job \notin Broken /\ JobsInv'
  BY <1>1, <1>2, <1>3, JobsKept DEF CompleteInv, JobsInv
<1>5. Done' = Done \cup {job} /\ job \notin Done
  BY <1>3, <1>4 DEF Done
<1>6. \A v \in Workers : ~Writing(v)'
  BY <1>2, <1>3 DEF Writing, Active
<1>7. ASSUME failures = 0 PROVE WrittenInv'
  <2>1. output \in Seq(Cells) /\ buffer \in Seq(Cells) /\ Seen \in Seq(Cells)
    BY <1>1, RowsWhole, ConcatProperties DEF Seen, RunnerInv
  <2>2. Seen' = Seen
    BY <2>1, ConcatProperties, ConcatEmptySeq DEF Seen, Flush
  <2>3. /\ RowsLong(Seen, Done, Fields) /\ EndsWith(Seen, job, Fields) /\ HasRows(Seen, Done)
        /\ ~poisoned /\ panicked = Over \cap Broken
    BY <1>1, <1>2, <1>7 DEF CompleteInv, WrittenInv
  <2>4. RowsLong(Seen', Done', 0)
    BY <1>1, <1>5, <2>2, <2>3, DoneFinite, RowsLonger
  <2>5. HasRows(Seen', Done')
    <3>1. HasRow(Seen, job)
      BY <2>1, <2>3, RowFinished
    <3> QED BY <1>5, <2>2, <2>3, <3>1 DEF HasRows
  <2>6. panicked' = Over' \cap Broken
    BY <1>1, <1>3, <1>4, <2>3
  <2> QED BY <1>1, <1>6, <2>3, <2>4, <2>5, <2>6 DEF WrittenInv
<1> QED BY <1>1, <1>4, <1>7 DEF CompleteInv

LEMMA FlushPanicsComplete == ASSUME CompleteInv, NEW w \in Workers, FlushPanics(w) PROVE CompleteInv'
<1>1. /\ RunnerInv' /\ taken' = taken
      /\ running' = [running EXCEPT ![w] = Idle] /\ Active(w)
      /\ failures' = failures + 1 /\ failures \in Nat
  <2>1. RunnerInv'
    BY FlushPanicsInv DEF CompleteInv
  <2>2. failures \in Nat
    BY RunnerAssumption DEF CompleteInv, RunnerInv, TypeOK
  <2> QED BY <2>1, <2>2 DEF FlushPanics, Panic, Active
<1>2. \A v \in Workers : Active(v)' => v # w /\ Active(v) /\ running'[v] = running[v]
  BY <1>1, OverGrows DEF CompleteInv
<1>3. JobsInv'
  BY <1>1, <1>2, JobsKept DEF CompleteInv, JobsInv
<1>4. failures' # 0
  BY <1>1
<1> QED BY <1>1, <1>3, <1>4 DEF CompleteInv

LEMMA EndComplete == ASSUME CompleteInv, End PROVE CompleteInv'
<1>1. RunnerInv /\ RunnerInv' /\ UNCHANGED <<taken, running, poisoned, panicked>>
  BY EndInv DEF CompleteInv, End
<1>2. \A w \in Workers : ~Writing(w) /\ ~Writing(w)' /\ (Active(w)' <=> Active(w)) /\ running'[w] = running[w]
  BY <1>1 DEF End, Writing, Idle, Active
<1>3. JobsInv' /\ Over' = Over /\ Done' = Done
  BY <1>1, <1>2, JobsKept, OverSame DEF CompleteInv, JobsInv
<1>4. ASSUME failures' = 0 PROVE WrittenInv'
  <2>1. failures \in Nat /\ output \in Seq(Cells) /\ buffer \in Seq(Cells)
    BY <1>1, RowsWhole DEF RunnerInv, TypeOK
  <2>2. output' = output \o buffer /\ buffer' = <<>> /\ failures = 0
    <3>1. failures + 1 # 0
      BY <2>1
    <3> QED BY <1>4, <3>1 DEF End
  <2>3. Seen' = Seen
    BY <2>1, <2>2, ConcatProperties, ConcatEmptySeq DEF Seen
  <2>4. WrittenInv
    BY <2>2 DEF CompleteInv
  <2>5. RowsLong(Seen', Done', 0) /\ HasRows(Seen', Done')
    BY <1>2, <1>3, <2>3, <2>4 DEF WrittenInv
  <2>6. ~poisoned' /\ panicked' = Over' \cap Broken
    BY <1>1, <1>3, <2>4 DEF WrittenInv
  <2>7. main' = "returned" <=> panicked' = {}
    BY <1>1 DEF End, ScopeOutcome
  <2> QED BY <1>2, <2>2, <2>5, <2>6, <2>7 DEF WrittenInv
<1> QED BY <1>1, <1>3, <1>4 DEF CompleteInv

-------------------------------------------------------------------------------
LEMMA InitComplete == Init => CompleteInv
<1> SUFFICES ASSUME Init PROVE CompleteInv
  OBVIOUS
<1>1. RunnerInv
  BY InitRunnerInv
<1>2. \A w \in Workers : ~Active(w) /\ ~Writing(w)
  BY DEF Init, Idle, Active, Writing
<1>3. JobsInv
  BY <1>2 DEF JobsInv
<1>4. Begun = {} /\ Over = {} /\ Done = {}
  BY DEF Init, Begun, Over, Done
<1>5. Seen = Row(Header) /\ Len(Seen) = Fields
  <2>1. output = <<>> /\ buffer = Row(Header) /\ buffer \in Seq(Cells)
    BY <1>1, RowsWhole DEF Init, RunnerInv
  <2>2. Seen = Row(Header)
    BY <2>1, ConcatEmptySeq DEF Seen
  <2>3. Len(Row(Header)) \in Nat /\ DOMAIN Row(Header) = 1..Len(Row(Header))
    BY <2>1, LenProperties
  <2>4. DOMAIN Row(Header) = 1..Fields
    BY DEF Row
  <2>5. Fields \in Nat \ {0}
    BY RunnerAssumption
  <2>6. \A n \in Nat : 1..n = 1..Fields => n = Fields
    <3> SUFFICES ASSUME NEW n \in Nat, 1..n = 1..Fields PROVE n = Fields
      OBVIOUS
    <3>1. Fields \in 1..n /\ (n = 0 \/ n \in 1..Fields)
      BY <2>5
    <3> QED BY <2>5, <3>1
  <2> QED BY <2>2, <2>3, <2>4, <2>6
<1>6. RowsLong(Seen, Done, 0)
  <2>1. Cardinality(Done) = 0 /\ Fields \in Nat
    BY <1>4, FS_EmptySet, RunnerAssumption
  <2> QED BY <1>5, <2>1 DEF RowsLong
<1>7. WrittenInv
  BY <1>2, <1>4, <1>6 DEF Init, WrittenInv, HasRows
<1> QED BY <1>1, <1>3, <1>7 DEF CompleteInv

LEMMA NextComplete == CompleteInv /\ [Next]_vars => CompleteInv'
<1> SUFFICES ASSUME CompleteInv, [Next]_vars PROVE CompleteInv'
  OBVIOUS
<1>1. CASE Spawn
  BY <1>1, SpawnComplete
<1>2. CASE End
  BY <1>2, EndComplete
<1>3. ASSUME NEW w \in Workers, Work(w) PROVE CompleteInv'
  BY <1>3, TakeComplete, SimulateComplete, SimulationPanicsComplete, LockComplete, LockPanicsComplete,
     WriteFieldComplete, FlushComplete, FlushPanicsComplete, Zenon DEF Work
<1>4. CASE UNCHANGED vars
  <2>1. RunnerInv'
    BY <1>4, NextRunnerInv DEF CompleteInv
  <2>2. UNCHANGED <<running, taken, poisoned, panicked, main, buffer, output, failures>>
    BY <1>4 DEF vars
  <2>3. JobsInv'
    BY <2>2, JobsKept DEF CompleteInv, JobsInv, Active
  <2>4. failures = 0 => WrittenInv'
    BY <2>2, OverSame, WrittenSame DEF CompleteInv, Active, Writing
  <2> QED BY <2>1, <2>2, <2>3, <2>4 DEF CompleteInv
<1> QED BY <1>1, <1>2, <1>3, <1>4 DEF Next

LEMMA CompleteInvAlways == Spec => []CompleteInv
BY InitComplete, NextComplete, PTL DEF Spec

(***************************************************************************)
(* If no write to the standard output was refused, then when main() ends   *)
(* there is exactly one whole row for every job whose simulation did not   *)
(* panic, and main() ends normally exactly if no simulation panicked.      *)
(***************************************************************************)
THEOREM CompleteAlways == Spec => []CompleteUnlessRefused
<1>1. CompleteInv => CompleteUnlessRefused
  <2> SUFFICES ASSUME CompleteInv, main # "running", failures = 0
               PROVE  /\ \A job \in Jobs \ Broken : RowWritten(job)
                      /\ Len(output) = Fields * (1 + Cardinality(Jobs \ Broken))
                      /\ (main = "returned") <=> (Jobs \cap Broken = {})
    BY DEF CompleteUnlessRefused
  <2>1. /\ output \in Seq(Cells) /\ buffer = <<>> /\ WrittenInv
        /\ taken = Len(Grid) /\ \A w \in Workers : ~Active(w) /\ ~Writing(w)
    BY RowsWhole DEF CompleteInv, WrittenInv, RunnerInv, LockInv, Active, Writing, Idle
  <2>2. Seen = output
    BY <2>1, ConcatEmptySeq DEF Seen
  <2>3. Over = Jobs /\ Done = Jobs \ Broken
    BY <2>1 DEF Over, Done, Begun, Jobs
  <2>4. ASSUME NEW job \in Jobs \ Broken PROVE RowWritten(job)
    <3>1. HasRow(output, job)
      BY <2>1, <2>2, <2>3, <2>4 DEF WrittenInv, HasRows
    <3>2. PICK i \in Nat : i + Fields <= Len(output) /\ \A f \in 1..Fields : output[i + f] = Cell(job, f)
      BY <3>1 DEF HasRow
    <3>3. Len(output) \in Nat /\ Fields \in Nat \ {0}
      BY <2>1, LenProperties, RunnerAssumption
    <3> DEFINE part == SubSeq(output, i + 1, i + Fields)
    <3>4. part = [f \in 1..Fields |-> output[i + f]]
      <4>1. \A j \in (i + 1)..(i + Fields) : output[j] \in Cells
        BY <2>1, <3>2, <3>3, ElementOfSeq
      <4>2. /\ part \in Seq(Cells) /\ Len(part) = Fields
            /\ \A f \in 1..Fields : part[f] = output[i + f]
        BY <2>1, <3>2, <3>3, <4>1
      <4> HIDE DEF part
      <4>3. part = [f \in 1..Len(part) |-> part[f]]
        BY <4>2
      <4> QED BY <4>2, <4>3
    <3>5. part = Row(job)
      BY <3>2, <3>4 DEF Row
    <3>6. i \in 0..Len(output)
      BY <3>2, <3>3
    <3> QED BY <3>2, <3>5, <3>6 DEF RowWritten
  <2>5. Len(output) = Fields * (1 + Cardinality(Jobs \ Broken))
    <3>1. RowsLong(output, Jobs \ Broken, 0)
      BY <2>1, <2>2, <2>3 DEF WrittenInv
    <3>2. IsFiniteSet(Jobs \ Broken)
      BY <2>3, DoneFinite DEF CompleteInv
    <3>3. Cardinality(Jobs \ Broken) \in Nat /\ Fields \in Nat
      BY <3>2, FS_CardinalityType, RunnerAssumption
    <3> QED BY <3>1, <3>3 DEF RowsLong
  <2>6. (main = "returned") <=> (Jobs \cap Broken = {})
    BY <2>1, <2>3 DEF WrittenInv
  <2> QED BY <2>4, <2>5, <2>6
<1> QED BY <1>1, CompleteInvAlways, PTL

================================================================================
