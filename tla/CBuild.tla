------------------------------- MODULE CBuild -------------------------------
(***************************************************************************)
(* sim/run_c_code.py as a build: the script compiles the C files it is     *)
(* given, links and converts them into the build directory, rebuilds the   *)
(* simulator and starts it on the image.  Any command may fail, and the    *)
(* build directory may hold files of an earlier run (Old).  A file's       *)
(* content is the set of the sources it was made from; the flags of the    *)
(* commands are left out.                                                  *)
(***************************************************************************)
EXTENDS Naturals, Sequences, SequencesExt, FiniteSetsExt, Functions

CONSTANTS
  CommandLines,   \* the lists of C files a user may give, each a sequence of sources
  Stem,           \* the name of a source without directory and suffix
  Start, StartStem,   \* start.S and the stem of start.o
  Size,           \* the bytes a source adds to the image
  Limit,          \* the 2048 of truncate
  Old             \* stands for a source of an earlier run

Sources == UNION {ToSet(line) : line \in CommandLines}

ASSUME CBuildAssumption ==
  /\ CommandLines \subseteq Seq(Sources)
  /\ Stem \in [Sources -> STRING] /\ StartStem \in STRING
  /\ Size \in [Sources \cup {Start, Old} -> Nat] /\ Limit \in Nat

VARIABLES
  c_files,    \* sys.argv[1:]
  step,       \* the next command
  objects,    \* build/<stem>.o
  object_files, \* the object files to link, by stem
  elf, bin, hex,   \* build/output.*: the sources in it and, once truncated, how many bytes of them
  sim_build_dir,  \* the compiled simulator: "none", "old" or "new"
  ran,        \* the image the simulation ran on (<<>> while it has not)
  exit        \* the exit status (<<>> while running)

cvars == <<c_files, step, objects, object_files, elf, bin, hex, sim_build_dir, ran, exit>>

Stems == {Stem[s] : s \in Sources} \cup {StartStem}
\* The length of an image made from a set of sources.
ImageBytes(parts) == FoldFunctionOnSet(+, 0, Size, parts)
OldImage == [parts |-> {Old}, bytes |-> Size[Old]]

CBuildInit ==
  /\ c_files \in CommandLines \cup {<<>>}
  /\ step = "arguments" /\ object_files = <<>>
  /\ objects = [n \in Stems |-> Old]
  /\ elf = {Old} /\ bin = OldImage /\ hex = OldImage
  /\ sim_build_dir \in {"none", "old"}
  /\ ran = <<>> /\ exit = <<>>

\* Every exception ends in sys.exit(1), and so do missing arguments or files.
Fails ==
  /\ exit = <<>> /\ exit' = <<1>>
  /\ UNCHANGED <<c_files, step, objects, object_files, elf, bin, hex, sim_build_dir, ran>>

Runs(s, next) == exit = <<>> /\ step = s /\ step' = next

\* The script checks its arguments, then compile_c_files finds start.S and link.ld.
Arguments ==
  /\ Runs("arguments", "compile") /\ c_files # <<>>
  /\ UNCHANGED <<c_files, objects, object_files, elf, bin, hex, sim_build_dir, ran, exit>>

\* gcc -c for the next C file: objects are named by the stem alone.
CompileNext ==
  /\ Len(object_files) < Len(c_files) /\ Runs("compile", "compile")
  /\ LET source == c_files[Len(object_files) + 1]
     IN /\ objects' = [objects EXCEPT ![Stem[source]] = source]
        /\ object_files' = Append(object_files, Stem[source])
  /\ UNCHANGED <<c_files, elf, bin, hex, sim_build_dir, ran, exit>>

CompileStart ==
  /\ Len(object_files) = Len(c_files) /\ Runs("compile", "link")
  /\ objects' = [objects EXCEPT ![StartStem] = Start]
  /\ object_files' = Append(object_files, StartStem)
  /\ UNCHANGED <<c_files, elf, bin, hex, sim_build_dir, ran, exit>>

\* The linker (external) refuses an object listed twice: its symbols would be defined twice.
Link ==
  /\ Runs("link", "binary") /\ IsInjective(object_files)
  /\ elf' = {objects[n] : n \in ToSet(object_files)}
  /\ UNCHANGED <<c_files, objects, object_files, bin, hex, sim_build_dir, ran, exit>>

ObjcopyBinary ==
  /\ Runs("binary", "truncate")
  /\ bin' = [parts |-> elf, bytes |-> ImageBytes(elf)]
  /\ UNCHANGED <<c_files, objects, object_files, elf, hex, sim_build_dir, ran, exit>>

\* truncate -s 2048 pads a short image and cuts a long one.
Truncate ==
  /\ Runs("truncate", "hex")
  /\ bin' = [bin EXCEPT !.bytes = IF @ > Limit THEN Limit ELSE @]
  /\ UNCHANGED <<c_files, objects, object_files, elf, hex, sim_build_dir, ran, exit>>

ObjcopyHex ==
  /\ Runs("hex", "listing") /\ hex' = bin
  /\ UNCHANGED <<c_files, objects, object_files, elf, bin, sim_build_dir, ran, exit>>

\* objdump writes the listing; nothing reads it, but its failure ends the script.
Listing ==
  /\ Runs("listing", "clean")
  /\ UNCHANGED <<c_files, objects, object_files, elf, bin, hex, sim_build_dir, ran, exit>>

\* Faulty variant: the compiled simulator of an earlier run is kept.
Clean_Keeps ==
  /\ Runs("clean", "make")
  /\ UNCHANGED <<c_files, objects, object_files, elf, bin, hex, sim_build_dir, ran, exit>>

\* runMakefile: cocotb-clean removes an existing sim_build, then make builds one and runs the test on
\* INSTRUCTION_MEMORY_HEX.
Clean ==
  /\ Runs("clean", "make") /\ sim_build_dir' = "none"
  /\ UNCHANGED <<c_files, objects, object_files, elf, bin, hex, ran, exit>>

Make ==
  /\ Runs("make", "done")
  /\ sim_build_dir' = IF sim_build_dir = "none" THEN "new" ELSE sim_build_dir
  /\ ran' = <<hex>> /\ exit' = <<0>>
  /\ UNCHANGED <<c_files, objects, object_files, elf, bin, hex>>

CBuildNext ==
  \/ Fails \/ Arguments \/ CompileNext \/ CompileStart \/ Link \/ ObjcopyBinary \/ Truncate
  \/ ObjcopyHex \/ Listing \/ Clean \/ Make

CBuildSpec == CBuildInit /\ [][CBuildNext]_cvars /\ WF_cvars(CBuildNext)

(***************************************************************************)
(* Properties.                                                             *)
(***************************************************************************)
\* The simulation runs on the files named on the command line, all of them and start.S and nothing from
\* an earlier run, on a simulator built in this run; its image is whole unless the program is longer
\* than the limit, in which case it is cut without a word; and exit status 0 means that it ran.
RunsItsProgram ==
  /\ ran # <<>> =>
       LET program == ToSet(c_files) \cup {Start}
           bytes == ImageBytes(program)
       IN /\ ran[1].parts = program
          /\ ran[1].bytes = IF bytes > Limit THEN Limit ELSE bytes
          /\ sim_build_dir = "new"
  /\ exit = <<0>> => ran # <<>>
=============================================================================
