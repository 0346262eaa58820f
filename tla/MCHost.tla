------------------------------- MODULE MCHost -------------------------------
(***************************************************************************)
(* Model checking the Python tools around the simulator, each on its own:  *)
(* a run picks one of them and leaves the others in a fixed initial state. *)
(***************************************************************************)
EXTENDS Bridge, PtyOutput, BootTest, CBuild, UartMonitor, TraceCompare, SpikeCompare

CONSTANT Tools   \* the tools to check

VARIABLE tool
hostvars == <<tool, bvars, pvars, tvars, cvars, uvars, rvars, svars>>

-----------------------------------------------------------------------------
(* Builds: one file, two, two of the same stem, one that clashes with      *)
(* start.o; together main.c and util.c are longer than the limit.          *)
Lines == {<<"main.c">>, <<"main.c", "util.c">>, <<"main.c", "lib/main.c">>, <<"start.c">>}
Stems4 == [s \in {"main.c", "util.c", "lib/main.c", "start.c"} |->
             CASE s = "util.c" -> "util" [] s = "start.c" -> "start" [] OTHER -> "main"]
Sizes == [s \in {"main.c", "util.c", "lib/main.c", "start.c", "start.S", "old"} |->
            CASE s = "util.c" -> 4 [] s = "start.S" -> 1 [] OTHER -> 2]

(* Frames of two bits whose levels change early, late and never.           *)
Bytes == {<<0, 1>>, <<1, 0>>, <<0, 0>>}

(* Traces: two instructions that write a register, one of which reads an   *)
(* implementation-defined CSR, a store of two bytes, a store next to       *)
(* tohost, and an AMO on tohost.                                           *)
Commit(pc_, reg_, mem_, csr_) == [pc |-> pc_, reg |-> reg_, mem |-> mem_, csr |-> csr_]
BootRom == Commit(0, <<1, 0>>, <<>>, FALSE)
SomeCommits ==
  {Commit(1, <<1, v>>, <<>>, FALSE) : v \in {0, 1}} \cup {Commit(2, <<1, v>>, <<>>, TRUE) : v \in {0, 1}}
  \cup {Commit(1, <<>>, <<2, 2, 2>>, FALSE), Commit(2, <<>>, <<2, 1, 1>>, FALSE),
        Commit(2, <<1, 1>>, <<0, 2, 1>>, FALSE)}

(* The test directory: a listing, and tests of three of the four suites.   *)
Binaries == <<[name |-> "dump", suite |-> ""], [name |-> "mi1", suite |-> "mi"], [name |-> "ui1", suite |-> "ui"],
              [name |-> "ui2", suite |-> "ui"], [name |-> "um1", suite |-> "um"]>>

-----------------------------------------------------------------------------
\* The tools with more than one initial state.
HostInit ==
  /\ tool \in Tools
  /\ IF tool = "bridge" THEN BridgeInit ELSE mode = "stdin" /\ BridgeInit
  /\ PtyInit
  /\ IF tool = "boot" THEN BootInit ELSE kind = "boot_linux" /\ BootInit
  /\ IF tool = "build" THEN CBuildInit ELSE c_files = <<>> /\ sim_build_dir = "none" /\ CBuildInit
  /\ (tool # "monitor" => line_bit = CHOOSE b \in {Ticks * d : d \in Divisors} : TRUE)
  /\ MonitorInit /\ TraceInit
  /\ IF tool = "spike" THEN SpikeInit ELSE sim_build = "none" /\ SpikeInit

BridgeTool ==
  /\ tool = "bridge" /\ BridgeNext
  /\ UNCHANGED <<tool, pvars, tvars, cvars, uvars, rvars, svars>>
PtyTool ==
  /\ tool = "pty" /\ PtyNext
  /\ UNCHANGED <<tool, bvars, tvars, cvars, uvars, rvars, svars>>
BootTool ==
  /\ tool = "boot" /\ BootNext
  /\ UNCHANGED <<tool, bvars, pvars, cvars, uvars, rvars, svars>>
BuildTool ==
  /\ tool = "build" /\ CBuildNext
  /\ UNCHANGED <<tool, bvars, pvars, tvars, uvars, rvars, svars>>
MonitorTool ==
  /\ tool = "monitor" /\ MonitorNext
  /\ UNCHANGED <<tool, bvars, pvars, tvars, cvars, rvars, svars>>
TraceTool ==
  /\ tool = "trace" /\ TraceNext
  /\ UNCHANGED <<tool, bvars, pvars, tvars, cvars, uvars, svars>>
SpikeTool ==
  /\ tool = "spike" /\ SpikeNext
  /\ UNCHANGED <<tool, bvars, pvars, tvars, cvars, uvars, rvars>>

HostNext == BridgeTool \/ PtyTool \/ BootTool \/ BuildTool \/ MonitorTool \/ TraceTool \/ SpikeTool

\* The fairness of BridgeFairSpec, PtySpec and MonitorSpec, for the tool that runs.
HostSpec ==
  /\ HostInit /\ [][HostNext]_hostvars
  /\ WF_bvars(tool = "bridge" /\ MainStep) /\ WF_bvars(tool = "bridge" /\ ReaderRuns)
  /\ WF_bvars(tool = "bridge" /\ DriverStep) /\ WF_bvars(tool = "bridge" /\ GuestReads)
  /\ WF_pvars(tool = "pty" /\ LoopQuiet) /\ WF_pvars(tool = "pty" /\ (FlushStep \/ WriteStep))
  /\ WF_pvars(tool = "pty" /\ ClientReads)
  /\ WF_uvars(tool = "monitor" /\ MonitorNext)
=============================================================================
