------------------------------ MODULE Startup -------------------------------
(***************************************************************************)
(* What the library knows before it runs anything, and what the OpenCL      *)
(* entry points let through because of it: the construction of Global       *)
(* (cpp/centrum.cc) from the configuration file and the bitstream           *)
(* directory, the tables built from them, and the checks of clBuildProgram  *)
(* and clEnqueueNDRangeKernel against those tables.                         *)
(*                                                                          *)
(* Files are what they turn out to be when they are read: each read chooses *)
(* its outcome. An exception out of a constructor leaves no Global behind;  *)
(* the next call of get_instance starts again and may find other files.     *)
(***************************************************************************)
EXTENDS Integers, Sequences, FiniteSets, SequencesExt

CONSTANTS Names,       \* names of XML files: sequences of letters
          Lines,       \* first lines of kernel sources: sequences of letters
                       \* and of the characters "/", " " and "\n"
          X_LEN,       \* size of the name's buffer (64 in the code)
          PRs,         \* elements of the configuration's PRs: <<board, fpga,
                       \* pr>>, each a number or Missing
          MaxPRs,      \* bound: how many it names
          WgSizes,     \* work-group sizes, those in the files and those asked
                       \* for; 0 stands for a missing or unreadable number
          Costs,       \* local and remote costs in the files
          MaxAttempts, \* bound: how often the construction is started
          UnsignedMod  \* unsigned arithmetic is modulo UnsignedMod (2^32)

ASSUME NamesAssumption  == IsFiniteSet(Names) /\ <<>> \notin Names
ASSUME BoundsAssumption == /\ {X_LEN, MaxPRs, MaxAttempts} \subseteq Nat
                           /\ WgSizes \cup Costs \subseteq Nat
ASSUME IdAssumption     == UnsignedMod \in Nat /\ UnsignedMod >= 68

\* A bitstream's number that nobody knows, and the tracker's default cost.
DefaultCost == 1000

\* A value of the configuration that is not there.
Missing == -1

ASSUME PRsAssumption == \A element \in PRs, k \in 1 .. 3 :
                            element[k] \in Nat \cup {Missing}

VARIABLES
    phase,        \* how far the construction of Global got
    attempts,     \* how often it was started
    m_enabled_mmap,
    m_schedulers, \* the regions, one scheduler each
    m_xml_files_list,
    m_kernel_mmap_ptr_map,          \* the names of the mapped files
    m_kernel_bitstream_struct_map,  \* name -> what its file says
    m_wg_cost_mapping,              \* name -> costs, one for each scheduler
    m_bitstreams_list,              \* BitstreamCheck's names
    m_work_group_sizes,             \* WorkGroupSizeCheck's map
    m_free_schedulers,
    load_failed,  \* history: a listed file could not be mapped or loaded
    m_xml_name,   \* of the program the application created; <<>> if none
    built,        \* clBuildProgram's answer for it
    accepted      \* history: name and sizes of the last NDRange enqueued

files  == <<m_enabled_mmap, m_xml_files_list, m_kernel_mmap_ptr_map,
            m_kernel_bitstream_struct_map, load_failed>>
tables == <<m_wg_cost_mapping, m_bitstreams_list, m_work_group_sizes,
            m_free_schedulers>>
client == <<m_xml_name, built, accepted>>
startupVars == <<phase, attempts, m_schedulers, files, tables, client>>

StartupInit == /\ phase = "none" /\ attempts = 0
               /\ m_enabled_mmap = FALSE
               /\ m_schedulers = <<>> /\ m_xml_files_list = <<>>
               /\ m_kernel_mmap_ptr_map = {}
               /\ m_kernel_bitstream_struct_map = <<>>
               /\ m_wg_cost_mapping = <<>>
               /\ m_bitstreams_list = {} /\ m_work_group_sizes = <<>>
               /\ m_free_schedulers = <<>>
               /\ load_failed = FALSE
               /\ m_xml_name = <<>> /\ built = FALSE /\ accepted = <<>>

-----------------------------------------------------------------------------
(* The construction of Global, in the order of its members. *)

\* An exception: the members made so far are destroyed (the manager's
\* destructor unmaps its files) and get_instance has no instance.
Throw == /\ phase' = "none"
         /\ m_enabled_mmap' = FALSE
         /\ m_schedulers' = <<>> /\ m_xml_files_list' = <<>>
         /\ m_kernel_mmap_ptr_map' = {}
         /\ m_kernel_bitstream_struct_map' = <<>>
         /\ m_wg_cost_mapping' = <<>>
         /\ m_bitstreams_list' = {} /\ m_work_group_sizes' = <<>>
         /\ m_free_schedulers' = <<>>
         /\ load_failed' = FALSE
         /\ UNCHANGED <<attempts, client>>

\* WeeConfig. The file does not load, or has no top node, or is read; what it
\* says about mmap is the manager's default if the key is missing.
WeeConfig ==
    /\ phase = "config"
    /\ \/ Throw
       \/ /\ phase' = "sched"
          /\ m_enabled_mmap' \in BOOLEAN
          /\ UNCHANGED <<attempts, m_schedulers, m_xml_files_list,
                         m_kernel_mmap_ptr_map, m_kernel_bitstream_struct_map,
                         load_failed, tables, client>>

\* A value that is missing or empty leaves the 0 of the tuple.
set_tuple_value(value) == IF value = Missing THEN 0 ELSE value
get_values_for_key(element) == [k \in 1 .. 3 |-> set_tuple_value(element[k])]

\* The constructor of a Scheduler rejects other boards.
HasBoard(pr) == pr[1] \in 0 .. 3

\* An element of PRs gets its Scheduler.
SchedConfig ==
    /\ phase = "sched"
    /\ Len(m_schedulers) < MaxPRs
    /\ \E element \in PRs :
          LET pr == get_values_for_key(element)
          IN  \/ ~HasBoard(pr) /\ Throw
              \/ /\ HasBoard(pr)
                 /\ m_schedulers' = Append(m_schedulers, pr)
                 /\ UNCHANGED <<phase, attempts, files, tables, client>>

\* No further element; the manager opens the directory, or cannot and keeps an
\* empty list.
OpenDirectory ==
    /\ phase = "sched"
    /\ phase' \in {"list", "tables"}
    /\ UNCHANGED <<attempts, m_schedulers, files, tables, client>>

\* get_xml_files_list reads an entry. A hidden file or one without the suffix
\* is passed over, a name of less than four characters is an exception of
\* substr. An XML file is listed and then, if files are to be mapped, mapped;
\* if that fails the function returns, and nothing is extracted.
get_xml_files_list ==
    /\ phase = "list"
    /\ \/ Throw
       \/ \E n \in Names \ Range(m_xml_files_list) :
             /\ m_xml_files_list' = Append(m_xml_files_list, n)
             /\ \/ /\ m_kernel_mmap_ptr_map' =
                          IF m_enabled_mmap
                          THEN m_kernel_mmap_ptr_map \cup {n} ELSE {}
                   /\ UNCHANGED <<phase, load_failed>>
                \/ /\ m_enabled_mmap
                   /\ phase' = "tables"
                   /\ load_failed' = TRUE
                   /\ UNCHANGED m_kernel_mmap_ptr_map
             /\ UNCHANGED <<attempts, m_enabled_mmap, m_schedulers,
                            m_kernel_bitstream_struct_map, tables, client>>
       \/ /\ phase' = "extract"
          /\ UNCHANGED <<attempts, m_schedulers, files, tables, client>>

Loaded == DOMAIN m_kernel_bitstream_struct_map

\* The file read_xml_files extracts next.
NextFile == m_xml_files_list[Cardinality(Loaded) + 1]

\* The map with an entry for file n.
WithEntry(n, rec) ==
    [x \in Loaded \cup {n} |->
        IF x = n THEN rec ELSE m_kernel_bitstream_struct_map[x]]

\* Mutant: an error does not end the loop.
Mutant_extract_xml_file(n) ==
    \/ \E rec \in [wgroup_size : WgSizes, local_cost : Costs,
                   remote_cost : Costs] :
          /\ m_kernel_bitstream_struct_map' = WithEntry(n, rec)
          /\ UNCHANGED <<phase, load_failed>>
    \/ /\ load_failed' = TRUE
       /\ UNCHANGED <<phase, m_kernel_bitstream_struct_map>>

\* extract_xml_file: an entry for the file, or an error, on which
\* read_xml_files stops. A number that is missing is read as 0.
extract_xml_file(n) ==
    \/ \E rec \in [wgroup_size : WgSizes, local_cost : Costs,
                   remote_cost : Costs] :
          /\ m_kernel_bitstream_struct_map' = WithEntry(n, rec)
          /\ UNCHANGED <<phase, load_failed>>
    \/ /\ phase' = "tables"
       /\ load_failed' = TRUE
       /\ UNCHANGED m_kernel_bitstream_struct_map

\* read_xml_files; its return code is not looked at by the constructor.
read_xml_files ==
    /\ phase = "extract"
    /\ IF Cardinality(Loaded) < Len(m_xml_files_list)
       THEN extract_xml_file(NextFile)
       ELSE /\ phase' = "tables"
            /\ UNCHANGED <<m_kernel_bitstream_struct_map, load_failed>>
    /\ UNCHANGED <<attempts, m_enabled_mmap, m_schedulers, m_xml_files_list,
                   m_kernel_mmap_ptr_map, tables, client>>

\* Mutant: the boards' numbers overlap those of the boards' FPGAs.
Mutant_id(pr) == (pr[1] * 4 + (pr[2] - 1) * 4 + pr[3]) % UnsignedMod

\* The scheduler's id: FPGA_ID - 1 is unsigned.
id(pr) == (pr[1] * 16 + (pr[2] - 1) * 4 + pr[3]) % UnsignedMod

is_local(pr) == pr[1] = 0 /\ pr[2] = 1

\* The tracker's costs of one bitstream.
Tracker(n) == [i \in 1 .. Len(m_schedulers) |->
                  IF is_local(m_schedulers[i])
                  THEN m_kernel_bitstream_struct_map[n].local_cost
                  ELSE m_kernel_bitstream_struct_map[n].remote_cost]

\* Mutant: the sizes are entered for every listed name.
Mutant_WorkGroupSizeCheck ==
    [n \in Range(m_xml_files_list) |->
        IF n \in Loaded THEN m_kernel_bitstream_struct_map[n].wgroup_size
                        ELSE 2]

\* The work-group sizes that are known and not 0.
WorkGroupSizeCheck ==
    [n \in {x \in Loaded : m_kernel_bitstream_struct_map[x].wgroup_size > 0}
        |-> m_kernel_bitstream_struct_map[n].wgroup_size]

\* The tracker and the two checks are built, from the map of loaded files but
\* for BitstreamCheck, which is built from the list; the unimem manager opens
\* its driver or throws; the schedulers become free and the loop is started.
Global ==
    /\ phase = "tables"
    /\ \/ Throw
       \/ /\ phase' = "ready"
          /\ m_wg_cost_mapping' = [n \in Loaded |-> Tracker(n)]
          /\ m_bitstreams_list' = Range(m_xml_files_list)
          /\ m_work_group_sizes' = WorkGroupSizeCheck
          /\ m_free_schedulers' =
                 [i \in 1 .. Len(m_schedulers) |-> id(m_schedulers[i])]
          /\ UNCHANGED <<attempts, m_schedulers, files, client>>

-----------------------------------------------------------------------------
(* The application. *)

\* clBuildProgram, clEnqueueNDRangeKernel and push_back all get the instance.
get_instance == /\ phase = "none"
                /\ attempts < MaxAttempts
                /\ attempts' = attempts + 1
                /\ phase' = "config"
                /\ UNCHANGED <<m_schedulers, files, tables, client>>

\* What clCreateProgramWithSource copies of the first line: at most X_LEN - 1
\* of its characters are looked at, and separators are not copied.
FirstLine(line) == LET stops == {i \in 1 .. Len(line) : line[i] = "\n"}
                   IN IF stops = {} THEN line
                      ELSE SubSeq(line, 1, Min(stops) - 1)
XmlFileName(line) ==
    LET first == FirstLine(line)
        seen  == SubSeq(first, 1, Min({X_LEN - 1, Len(first)}))
    IN SelectSeq(seen, LAMBDA ch : ch \notin {"/", " "})

clCreateProgramWithSource(line) ==
    /\ m_xml_name' = XmlFileName(line)
    /\ built' = FALSE
    /\ UNCHANGED <<phase, attempts, m_schedulers, files, tables, accepted>>

\* clBuildProgram asks BitstreamCheck for the name.
clBuildProgram ==
    /\ phase = "ready"
    /\ m_xml_name # <<>>
    /\ built' = (m_xml_name \in m_bitstreams_list)
    /\ UNCHANGED <<phase, attempts, m_schedulers, files, tables, m_xml_name,
                   accepted>>

check_wg_size(n, size) == /\ n \in DOMAIN m_work_group_sizes
                          /\ m_work_group_sizes[n] = size

\* clEnqueueNDRangeKernel of a kernel of the program: the checks it makes, in
\* order (a kernel may be created and enqueued without a build).
clEnqueueNDRangeKernel(work_dim, global_size, local_size) ==
    /\ phase = "ready"
    /\ m_xml_name # <<>>
    /\ work_dim <= 1
    /\ local_size >= 1
    /\ check_wg_size(m_xml_name, local_size)
    /\ global_size % local_size = 0
    /\ accepted' = <<m_xml_name, local_size>>
    /\ UNCHANGED <<phase, attempts, m_schedulers, files, tables, m_xml_name,
                   built>>

Construct == WeeConfig \/ SchedConfig \/ OpenDirectory \/ get_xml_files_list
             \/ read_xml_files \/ Global

StartupNext == \/ Construct
               \/ get_instance
               \/ \E line \in Lines : clCreateProgramWithSource(line)
               \/ clBuildProgram
               \/ \E d \in 0 .. 2, g \in 0 .. 3, l \in WgSizes :
                     clEnqueueNDRangeKernel(d, g, l)

StartupSpec == StartupInit /\ [][StartupNext]_startupVars

-----------------------------------------------------------------------------
(* What the running library asks of the tables. *)

\* get_resource_string, get_wg_size, ...: found in the map or an error.
HasEntry(n) == n \in Loaded

get_wg_cost_on_island(i, n) ==
    IF n \in DOMAIN m_wg_cost_mapping THEN m_wg_cost_mapping[n][i]
                                      ELSE DefaultCost

(* Properties. *)

\* Types; only boards 0 to 3 have schedulers, only listed files are loaded, and
\* no scheduler is free before the construction is over.
StartupTypeOK == /\ phase \in {"none", "config", "sched", "list", "extract",
                               "tables", "ready"}
                 /\ attempts \in 0 .. MaxAttempts
                 /\ \A i \in 1 .. Len(m_schedulers) : HasBoard(m_schedulers[i])
                 /\ Loaded \subseteq Range(m_xml_files_list)
                 /\ phase # "ready" => m_free_schedulers = <<>>

\* Whatever an NDRange command reaches the dispatcher with, the dispatcher finds
\* its resource string, AlgoSimple finds its cost on every island (never the
\* default for an unknown kernel), and the work-group size is the one the
\* bitstream was made for. The files that failed to load are what puts this in
\* question: they are listed, and programs that name them are built.
AcceptedIsKnown ==
    StartupTypeOK /\ accepted # <<>> =>
        LET n == accepted[1] IN
        /\ HasEntry(n)
        /\ \A i \in 1 .. Len(m_schedulers) :
              get_wg_cost_on_island(i, n) \in Costs
        /\ m_kernel_bitstream_struct_map[n].wgroup_size = accepted[2]

\* The files loaded are the first ones of the list, and all of it unless a file
\* failed: one bad file keeps those after it out, and a file that could not be
\* mapped all of them.
LoadedIsPrefix ==
    phase \in {"tables", "ready"} =>
        /\ Loaded = {m_xml_files_list[i] : i \in 1 .. Cardinality(Loaded)}
        /\ Cardinality(Loaded) < Len(m_xml_files_list) <=> load_failed

\* Regions of FPGAs from 1 to 4, or without a number, and with numbers from 0 to 3.
InRange(pr) == pr[2] \in 0 .. 4 /\ pr[3] \in 0 .. 3

\* An FPGA without a number is taken for FPGA 4 of the board before.
TakenFor(p, q) == p[2] = 0 /\ q[2] = 4 /\ p[1] = q[1] + 1 /\ p[3] = q[3]

\* Which schedulers share an id, so that the free list, which holds ids, frees and
\* takes one for the other: those of one region named twice, and one without an
\* FPGA with that of FPGA 4 of the board before, and no others. (Numbers above 4
\* and 3, which nothing checks either, are those of the next FPGA or board.)
IdsNameRegions ==
    phase = "ready" =>
        \A i, j \in 1 .. Len(m_schedulers) :
            LET p == m_schedulers[i]
                q == m_schedulers[j]
            IN  InRange(p) /\ InRange(q) =>
                    (m_free_schedulers[i] = m_free_schedulers[j]
                        <=> p = q \/ TakenFor(p, q) \/ TakenFor(q, p))

=============================================================================
