---------------------------- MODULE ExperimentRunner ----------------------------
(***************************************************************************)
(* main() of latency-sim: a job for every point of the parameter grid runs *)
(* a simulation and writes a row of statistics, under a mutex, to a CSV    *)
(* writer on the standard output.  The jobs are run by the threads of a    *)
(* rayon pool, one of which first spawns them; a thread takes the oldest   *)
(* job that was spawned.  Jobs, fields and rows carry no numbers here:     *)
(* what a simulation computes is the subject of LatencySim.                *)
(***************************************************************************)
EXTENDS Naturals, Sequences, FiniteSets

CONSTANTS Grid,        \* the jobs, in the order of the loops
          Header,      \* the first row, which is no job's
          Fields,      \* of a row; the last includes the end of line
          Workers,     \* the threads of the pool
          Spawner,     \* the one that runs the body of the scope
          NoWorker,    \* none of them
          Broken,      \* jobs whose simulation panics
          MaxFailures  \* bound on how often the output refuses a write

ASSUME RunnerAssumption ==
  /\ Grid \in Seq(Nat) /\ Header \in Nat
  /\ \A i, j \in 1..Len(Grid) : Grid[i] = Grid[j] => i = j
  /\ \A i \in 1..Len(Grid) : Grid[i] # Header
  /\ Fields \in Nat \ {0}
  /\ Spawner \in Workers /\ NoWorker \notin Workers
  /\ Broken \subseteq Nat
  /\ MaxFailures \in Nat

Jobs == {Grid[i] : i \in 1..Len(Grid)}

VARIABLES spawned,   \* how many jobs have been spawned
          taken,     \* how many of them have been begun
          running,   \* what every thread is doing
          holder,    \* the thread that holds the mutex, if any
          poisoned,  \* whether a thread panicked holding it
          panicked,  \* jobs that panicked
          main,      \* "running", "returned" or "panicked"
          buffer,    \* what the writer has not flushed
          output,    \* what has reached the standard output
          failures   \* how often that failed

vars == <<spawned, taken, running, holder, poisoned, panicked, main, buffer, output, failures>>

Idle == [step |-> "idle", job |-> Header, field |-> 0]

Cell(job, field) == [job |-> job, field |-> field]

Row(job) == [f \in 1..Fields |-> Cell(job, f)]

Init ==
  /\ spawned = 0
  /\ taken = 0
  /\ running = [w \in Workers |-> Idle]
  /\ holder = NoWorker
  /\ poisoned = FALSE
  /\ panicked = {}
  /\ main = "running"
  /\ buffer = Row(Header)
  /\ output = <<>>
  /\ failures = 0

-------------------------------------------------------------------------------
Spawn ==
  /\ spawned < Len(Grid)
  /\ spawned' = spawned + 1
  /\ UNCHANGED <<taken, running, holder, poisoned, panicked, main, buffer, output, failures>>

(***************************************************************************)
(* The spawning thread takes jobs once it waits for the scope to end.      *)
(***************************************************************************)
Take(w) ==
  /\ taken < spawned
  /\ running[w] = Idle
  /\ w = Spawner => spawned = Len(Grid)
  /\ taken' = taken + 1
  /\ running' = [running EXCEPT ![w] = [step |-> "run", job |-> Grid[taken + 1], field |-> 0]]
  /\ UNCHANGED <<spawned, holder, poisoned, panicked, main, buffer, output, failures>>

(***************************************************************************)
(* A panic of run(), whatever its cause, comes before the mutex is locked. *)
(***************************************************************************)
Simulate(w) ==
  /\ running[w].step = "run"
  /\ running[w].job \notin Broken
  /\ running' = [running EXCEPT ![w].step = "lock"]
  /\ UNCHANGED <<spawned, taken, holder, poisoned, panicked, main, buffer, output, failures>>

(***************************************************************************)
(* A panic unwinds the job, which poisons the mutex if it is held and in   *)
(* any case unlocks it.  Mutations: a panic poisons as if the mutex were   *)
(* locked before the simulation; the mutex is not unlocked.                *)
(***************************************************************************)
PoisonsAlways(w) == TRUE

Poisons(w) == holder = w

UnlockedNever(w) == holder

Unlocked(w) == IF holder = w THEN NoWorker ELSE holder

Panic(w) ==
  /\ panicked' = panicked \cup {running[w].job}
  /\ poisoned' = (poisoned \/ Poisons(w))
  /\ holder' = Unlocked(w)
  /\ running' = [running EXCEPT ![w] = Idle]

SimulationPanics(w) ==
  /\ running[w].step = "run"
  /\ running[w].job \in Broken
  /\ Panic(w)
  /\ UNCHANGED <<spawned, taken, main, buffer, output, failures>>

-------------------------------------------------------------------------------
(***************************************************************************)
(* lock().unwrap().  Mutations: every job has a mutex of its own; what     *)
(* a poisoned mutex guards is used all the same.                           *)
(***************************************************************************)
FreeAlways == TRUE

Free == holder = NoWorker

UsableAlways == TRUE

Usable == ~poisoned

Lock(w) ==
  /\ running[w].step = "lock"
  /\ Free
  /\ Usable
  /\ holder' = w
  /\ running' = [running EXCEPT ![w].step = "write"]
  /\ UNCHANGED <<spawned, taken, poisoned, panicked, main, buffer, output, failures>>

LockPanics(w) ==
  /\ running[w].step = "lock"
  /\ Free
  /\ ~Usable
  /\ Panic(w)
  /\ UNCHANGED <<spawned, taken, main, buffer, output, failures>>

(***************************************************************************)
(* write_record() goes field by field into the writer's buffer, which has  *)
(* room for many rows and is flushed after each.                           *)
(***************************************************************************)
WriteField(w) ==
  /\ running[w].step = "write"
  /\ running[w].field < Fields
  /\ buffer' = Append(buffer, Cell(running[w].job, running[w].field + 1))
  /\ running' = [running EXCEPT ![w].field = @ + 1,
                                ![w].step = IF running[w].field + 1 = Fields THEN "flush" ELSE "write"]
  /\ UNCHANGED <<spawned, taken, holder, poisoned, panicked, main, output, failures>>

(***************************************************************************)
(* Flushing hands over the buffer; the guard is dropped and the job over.  *)
(***************************************************************************)
Flush(w) ==
  /\ running[w].step = "flush"
  /\ output' = output \o buffer
  /\ buffer' = <<>>
  /\ holder' = Unlocked(w)
  /\ running' = [running EXCEPT ![w] = Idle]
  /\ UNCHANGED <<spawned, taken, poisoned, panicked, main, failures>>

(***************************************************************************)
(* The output refuses the write, of which a part may have got through.     *)
(* The writer keeps its buffer.                                            *)
(***************************************************************************)
WrittenInPart == \E n \in 0..Len(buffer) : output' = output \o SubSeq(buffer, 1, n)

FlushPanics(w) ==
  /\ running[w].step = "flush"
  /\ failures < MaxFailures
  /\ failures' = failures + 1
  /\ WrittenInPart
  /\ Panic(w)
  /\ UNCHANGED <<spawned, taken, main, buffer>>

-------------------------------------------------------------------------------
(***************************************************************************)
(* The scope ends when every job has, and passes a panic on.  Dropped, the *)
(* writer flushes once more, without a complaint if that fails.  Mutation: *)
(* the panic of a job does not get any further.                            *)
(***************************************************************************)
ScopeOutcomeAlwaysOk == "returned"

ScopeOutcome == IF panicked = {} THEN "returned" ELSE "panicked"

End ==
  /\ main = "running"
  /\ taken = Len(Grid)
  /\ \A w \in Workers : running[w] = Idle
  /\ main' = ScopeOutcome
  /\ \/ output' = output \o buffer /\ buffer' = <<>> /\ UNCHANGED failures
     \/ failures < MaxFailures /\ failures' = failures + 1 /\ WrittenInPart /\ UNCHANGED buffer
  /\ UNCHANGED <<spawned, taken, running, holder, poisoned, panicked>>

(***************************************************************************)
(* What a thread does next, whatever it is doing.                          *)
(***************************************************************************)
Work(w) ==
  \/ Take(w)
  \/ Simulate(w) \/ SimulationPanics(w)
  \/ Lock(w) \/ LockPanics(w)
  \/ WriteField(w)
  \/ Flush(w) \/ FlushPanics(w)

Next == Spawn \/ (\E w \in Workers : Work(w)) \/ End

Spec == Init /\ [][Next]_vars

(***************************************************************************)
(* Threads run; every simulation ends, and no write blocks for ever.       *)
(***************************************************************************)
FairSpec == Spec /\ WF_vars(Spawn) /\ (\A w \in Workers : WF_vars(Work(w))) /\ WF_vars(End)

-------------------------------------------------------------------------------
(***************************************************************************)
(* Types.  The mutex is held by a thread that writes, and by no other.     *)
(***************************************************************************)
TypeOK ==
  /\ spawned \in 0..Len(Grid) /\ taken \in 0..spawned
  /\ running \in [Workers -> [step : {"idle", "run", "lock", "write", "flush"},
                              job : Jobs \cup {Header}, field : 0..Fields]]
  /\ holder \in Workers \cup {NoWorker}
  /\ poisoned \in BOOLEAN
  /\ panicked \subseteq Jobs
  /\ main \in {"running", "returned", "panicked"}
  /\ buffer \in Seq([job : Jobs \cup {Header}, field : 1..Fields])
  /\ output \in Seq([job : Jobs \cup {Header}, field : 1..Fields])
  /\ failures \in 0..MaxFailures

(***************************************************************************)
(* However the threads' writes interleave, what the reader of the output   *)
(* sees are rows: a field is followed by the next of its row, or by the    *)
(* start of another row, which leaves a row incomplete only where the      *)
(* output had refused it.                                                  *)
(***************************************************************************)
Consecutive(a, b) == a.job = b.job /\ b.field = a.field + 1
RowEnds(a, b) == a.field = Fields /\ b.field = 1

Follows(torn, a, b) == Consecutive(a, b) \/ RowEnds(a, b) \/ (torn /\ b.field = 1)

InRows(torn, seen) == \A i \in 1..(Len(seen) - 1) : Follows(torn, seen[i], seen[i + 1])

RowsNeverMixed == InRows(failures > 0, output \o buffer)

(***************************************************************************)
(* If the output never failed, there is, when the program ends, one whole  *)
(* row for every job whose simulation did not panic, and the program ends  *)
(* normally exactly if none did.                                           *)
(***************************************************************************)
RowWritten(job) ==
  \E i \in 0..Len(output) : i + Fields <= Len(output) /\ SubSeq(output, i + 1, i + Fields) = Row(job)

CompleteUnlessRefused ==
  (main # "running" /\ failures = 0) =>
    /\ \A job \in Jobs \ Broken : RowWritten(job)
    /\ Len(output) = Fields * (1 + Cardinality(Jobs \ Broken))
    /\ (main = "returned") <=> (Jobs \cap Broken = {})

(***************************************************************************)
(* Once a write was refused no other job writes: the program does not go   *)
(* on with a gap, and it does not end normally.                            *)
(***************************************************************************)
FailureIsFinal ==
  [][poisoned => buffer' \in {buffer, <<>>} /\ main' # "returned"]_vars

(***************************************************************************)
(* The program ends, whatever panics: no thread waits for the mutex        *)
(* without end.                                                            *)
(***************************************************************************)
Ends == <>(main # "running")

===============================================================================
