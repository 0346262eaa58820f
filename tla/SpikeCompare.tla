---------------------------- MODULE SpikeCompare ----------------------------
(***************************************************************************)
(* main of .github/scripts/compare_with_spike.py, the golden-model job:    *)
(* for each riscv-tests binary it converts the ELF, runs Spike and the     *)
(* Verilator harness and compares pass/fail and traces (TraceCompare).     *)
(* Everything passes through files that an earlier job may have left       *)
(* behind, and every tool may fail, with an exit status or an exception.   *)
(* A file is "none", "old" (left behind) or "new" (of this job).           *)
(***************************************************************************)
EXTENDS Naturals, Sequences, SequencesExt, FiniteSets

CONSTANTS
  IsaFiles,        \* what isa_dir holds, sorted: a sequence of [name, suite]; "" for names that do not match
  Suites,          \* what --suites may name
  MaxLimit,        \* bound: --limit
  NotApplicable, TraceNotComparable   \* the script's tables of test names

ASSUME SpikeAssumption ==
  /\ MaxLimit \in Nat /\ "" \notin Suites
  /\ IsaFiles \in Seq([name : STRING, suite : STRING])
  /\ \A i, j \in DOMAIN IsaFiles : i # j => IsaFiles[i].name # IsaFiles[j].name

VARIABLES
  tests,           \* the selected tests, in order (names)
  at,              \* the next call of main
  todo,            \* tests of the loop not done, the current one first
  model_compiled, results, skipped,   \* locals of main
  spike_ok, verilator_ok,             \* locals of the iteration
  hex_file, spike_commits, rtl_trace, \* per test: the files named after it
  runtime_hex,     \* the test whose image runtime.hex holds, "" for another job's
  sim_build,       \* the compiled model
  status           \* the exit status, <<>> while running

files == <<hex_file, spike_commits, rtl_trace, runtime_hex, sim_build>>
svars == <<tests, at, todo, model_compiled, results, skipped, spike_ok, verilator_ok, files, status>>

Names == {f.name : f \in ToSet(IsaFiles)}

SpikeInit ==
  /\ tests = <<>> /\ at = "select" /\ todo = <<>>
  /\ model_compiled = FALSE /\ results = <<>> /\ skipped = <<>>
  /\ spike_ok = FALSE /\ verilator_ok = FALSE
  /\ \E left \in {"none", "old"} :
       /\ sim_build = left
       /\ hex_file = [t \in Names |-> left] /\ rtl_trace = [t \in Names |-> left]
       /\ spike_commits = [t \in Names |-> left]
  /\ runtime_hex = "" /\ status = <<>>

\* The elements of a sequence that are in a set, in their order.
Kept(s, S) == FlattenSeq([i \in DOMAIN s |-> IF s[i] \in S THEN <<s[i]>> ELSE <<>>])

(***************************************************************************)
(* discover_tests and require_suites: a requested suite without a test is  *)
(* an error nobody catches (status 1), an empty selection is status 2, and *)
(* so is a missing isa directory.                                          *)
(***************************************************************************)
Discovered(suites) ==
  LET s == Kept(IsaFiles, {f \in ToSet(IsaFiles) : f.suite \in suites}) IN [i \in DOMAIN s |-> s[i].name]

Missing(suites) == suites \ {f.suite : f \in ToSet(IsaFiles)}

Select(isaDir, suites, limit) ==
  /\ at = "select" /\ status = <<>>
  /\ LET all == Discovered(suites)
         chosen == IF limit > 0 THEN SubSeq(all, 1, IF limit < Len(all) THEN limit ELSE Len(all)) ELSE all
     IN IF ~isaDir THEN status' = <<2>> /\ UNCHANGED <<tests, todo, at>>
        ELSE IF Missing(suites) # {} THEN status' = <<1>> /\ UNCHANGED <<tests, todo, at>>
        ELSE IF chosen = <<>> THEN status' = <<2>> /\ UNCHANGED <<tests, todo, at>>
        ELSE tests' = chosen /\ todo' = chosen /\ at' = "test" /\ UNCHANGED status
  /\ UNCHANGED <<model_compiled, results, skipped, spike_ok, verilator_ok, files>>

(***************************************************************************)
(* The loop.  Elf is the current test.                                     *)
(***************************************************************************)
Elf == Head(todo)
locals == <<tests, status>>

At(a) == status = <<>> /\ at = a /\ todo # <<>>

Skip ==
  /\ At("test") /\ Elf \in NotApplicable
  /\ skipped' = Append(skipped, Elf) /\ todo' = Tail(todo)
  /\ UNCHANGED <<locals, at, model_compiled, results, spike_ok, verilator_ok, files>>

\* Any exception of the try block: the test is recorded as a mismatch and the loop goes on.  Files may be
\* left half written (a runtime.hex of "").
Raises ==
  /\ status = <<>> /\ at \in {"test", "spike", "image", "simulate", "compare"} /\ todo # <<>>
  /\ at = "test" => Elf \notin NotApplicable
  /\ results' = Append(results, [test |-> Elf, match |-> FALSE, spike |-> FALSE, rtl |-> FALSE, proof |-> {}])
  /\ todo' = Tail(todo) /\ at' = "test"
  /\ runtime_hex' \in {runtime_hex} \cup (IF at = "image" THEN {""} ELSE {})
  /\ UNCHANGED <<locals, model_compiled, skipped, spike_ok, verilator_ok, hex_file, spike_commits, rtl_trace, sim_build>>

\* Faulty variant: the RTL trace of an earlier job is not removed.
Convert_KeepsTrace ==
  /\ At("test") /\ Elf \notin NotApplicable
  /\ hex_file' = [hex_file EXCEPT ![Elf] = "new"] /\ at' = "spike"
  /\ UNCHANGED <<locals, todo, model_compiled, results, skipped, spike_ok, verilator_ok, spike_commits, rtl_trace,
                 runtime_hex, sim_build>>

\* tohost_addr, elf_to_hex, and the old RTL trace is removed.
Convert ==
  /\ At("test") /\ Elf \notin NotApplicable
  /\ hex_file' = [hex_file EXCEPT ![Elf] = "new"]
  /\ rtl_trace' = [rtl_trace EXCEPT ![Elf] = "none"]
  /\ at' = "spike"
  /\ UNCHANGED <<locals, todo, model_compiled, results, skipped, spike_ok, verilator_ok, spike_commits, runtime_hex, sim_build>>

\* run_spike: a Spike that fails may have failed before it opened its log.
RunSpike ==
  /\ At("spike") /\ at' = "image"
  /\ spike_ok' \in BOOLEAN
  /\ spike_commits' \in {[spike_commits EXCEPT ![Elf] = "new"]} \cup (IF spike_ok' THEN {} ELSE {spike_commits})
  /\ UNCHANGED <<locals, todo, model_compiled, results, skipped, verilator_ok, hex_file, rtl_trace, runtime_hex, sim_build>>

\* run_verilator, first half: runtime.hex gets the image of this test.
WriteImage ==
  /\ At("image") /\ at' = "simulate" /\ runtime_hex' = Elf
  /\ UNCHANGED <<locals, todo, model_compiled, results, skipped, spike_ok, verilator_ok, hex_file, spike_commits, rtl_trace, sim_build>>

\* run_verilator, second half: test_riscv_isa.py (external) may die at once; it removes the model if it is
\* told to compile, builds one if there is none, and runs it.  model_compiled is set whatever happened.
Simulate ==
  /\ At("simulate") /\ at' = "compare" /\ model_compiled' = TRUE
  /\ LET compile_model == ~model_compiled
         build == IF compile_model \/ sim_build = "none" THEN "new" ELSE sim_build
     IN \/ verilator_ok' = FALSE /\ UNCHANGED <<sim_build, rtl_trace>>
        \/ verilator_ok' = FALSE /\ build = "new" /\ sim_build' = "none" /\ UNCHANGED rtl_trace
        \/ /\ verilator_ok' \in BOOLEAN /\ sim_build' = build
           /\ rtl_trace' = [rtl_trace EXCEPT ![Elf] = "new"]
  /\ UNCHANGED <<locals, todo, results, skipped, spike_ok, hex_file, spike_commits, runtime_hex>>

\* The two outcomes and the traces are compared; equal is what compare_traces finds.
Compare(equal) ==
  /\ At("compare") /\ at' = "test" /\ todo' = Tail(todo)
  /\ LET present == rtl_trace[Elf] # "none" /\ spike_commits[Elf] # "none"
         noDivergence == Elf \in TraceNotComparable \/ (present /\ equal)
     IN results' = Append(results,
          [test |-> Elf, match |-> spike_ok = verilator_ok /\ noDivergence,
           spike |-> spike_ok, rtl |-> verilator_ok,
           proof |-> {hex_file[Elf], rtl_trace[Elf], IF runtime_hex = Elf THEN "new" ELSE "old", sim_build}
                     \cup (IF spike_ok THEN {spike_commits[Elf]} ELSE {})])
  /\ UNCHANGED <<locals, model_compiled, skipped, spike_ok, verilator_ok, files>>

Mismatches == {r \in ToSet(results) : ~r.match}

\* The report is written, which may raise, then the status is 0 if there were no mismatches.
Report ==
  /\ at = "test" /\ todo = <<>> /\ status = <<>>
  /\ status' \in {IF Mismatches = {} THEN <<0>> ELSE <<1>>, <<1>>}
  /\ UNCHANGED <<tests, at, todo, model_compiled, results, skipped, spike_ok, verilator_ok, files>>

SpikeNext ==
  \/ \E isaDir \in BOOLEAN, suites \in SUBSET Suites, limit \in 0..MaxLimit : Select(isaDir, suites, limit)
  \/ Skip \/ Raises \/ Convert \/ RunSpike \/ WriteImage \/ Simulate
  \/ \E equal \in BOOLEAN : Compare(equal)
  \/ Report

SpikeSpec == SpikeInit /\ [][SpikeNext]_svars

(***************************************************************************)
(* Properties.  proof (history) is the age of what a result rests on: the  *)
(* image, the model, the traces (Spike's only where Spike passed).         *)
(***************************************************************************)
\* A green job is a true one.  With status 0 every test that was selected and is applicable was compared,
\* once and in order, all matched, and each match rests on this job's image, model and traces, although
\* model_compiled is set after a build that failed and the files of earlier jobs lie around
\* (compare_with_spike.py:310, :324, :385).
GreenIsTrue ==
  status = <<0>> =>
    /\ \A i \in DOMAIN results : results[i].match /\ results[i].spike = results[i].rtl
    /\ \A i \in DOMAIN results : results[i].proof = {"new"}
    /\ [i \in DOMAIN results |-> results[i].test] = Kept(tests, ToSet(tests) \ NotApplicable)
    /\ skipped = Kept(tests, NotApplicable)

\* A selected test is never lost or counted twice, whichever call raised.
TestsAccounted ==
  LET handled == ToSet(skipped) \cup {r.test : r \in ToSet(results)}
  IN /\ Len(skipped) + Len(results) + Len(todo) = Len(tests)
     /\ handled \cup ToSet(todo) = ToSet(tests)

JobReported == GreenIsTrue /\ TestsAccounted
=============================================================================
