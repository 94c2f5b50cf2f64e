---------------------------- MODULE StartupProofs ----------------------------
(***************************************************************************)
(* What the construction of Global guarantees, for every set of files and   *)
(* regions: which files are loaded, which regions share an id, and that an  *)
(* NDRange which is let through finds its entries in every table.   *)
(***************************************************************************)
EXTENDS Startup, FiniteSetTheorems, SequenceTheorems, TLAPS

-----------------------------------------------------------------------------
(* The inductive invariant. *)

\* What extract_xml_file stores of a file.
Records == [wgroup_size : WgSizes, local_cost : Costs, remote_cost : Costs]

\* The loaded files are the first ones of a list without repetitions.
FilesInv ==
    /\ m_xml_files_list \in Seq(Names)
    /\ \A i, j \in 1 .. Len(m_xml_files_list) :
          m_xml_files_list[i] = m_xml_files_list[j] => i = j
    /\ IsFiniteSet(Loaded) /\ Cardinality(Loaded) <= Len(m_xml_files_list)
    /\ Loaded = {m_xml_files_list[i] : i \in 1 .. Cardinality(Loaded)}
    /\ \A n \in Loaded : m_kernel_bitstream_struct_map[n] \in Records

\* How far the construction got, in terms of the files.
PhaseInv ==
    /\ phase \in {"none", "config", "sched", "list", "extract", "tables", "ready"}
    /\ attempts \in 0 .. MaxAttempts
    /\ load_failed \in BOOLEAN
    /\ phase \in {"none", "config", "sched"} => m_xml_files_list = <<>>
    /\ phase \in {"none", "config", "sched", "list"} => Loaded = {}
    /\ phase \in {"none", "config", "sched", "list", "extract"} => ~load_failed
    /\ phase \in {"tables", "ready"} =>
          (Cardinality(Loaded) < Len(m_xml_files_list) <=> load_failed)

\* The regions are those of boards that exist.
RegionsInv == /\ m_schedulers \in Seq([1 .. 3 -> Nat])
              /\ \A i \in 1 .. Len(m_schedulers) : HasBoard(m_schedulers[i])

\* The tables agree with the files and the regions once there is a Global, and
\* nothing was accepted before.
TablesInv ==
    /\ phase = "ready" =>
          /\ m_wg_cost_mapping = [n \in Loaded |-> Tracker(n)]
          /\ m_work_group_sizes = WorkGroupSizeCheck
          /\ m_free_schedulers =
                 [i \in 1 .. Len(m_schedulers) |-> id(m_schedulers[i])]
    /\ phase # "ready" => m_free_schedulers = <<>> /\ accepted = <<>>
    /\ accepted # <<>> => check_wg_size(accepted[1], accepted[2])

\* The inductive invariant.
Inv == FilesInv /\ PhaseInv /\ RegionsInv /\ TablesInv


-----------------------------------------------------------------------------
(* Facts about the operators. *)

\* A region's tuple has three numbers.
LEMMA RegionNumbers ==
    ASSUME NEW element \in PRs
    PROVE  get_values_for_key(element) \in [1 .. 3 -> Nat]
<1>1. \A k \in 1 .. 3 : set_tuple_value(element[k]) \in Nat
  BY PRsAssumption DEF set_tuple_value, Missing
<1>2. QED
  BY <1>1 DEF get_values_for_key

\* The board, the FPGA and the region are the digits of the id.
Number(board, fpga, pr) == board * 16 + (fpga - 1) * 4 + pr

\* The numbers of regions fit into six bits, but for those of board 0 that name no
\* FPGA, which are the four below 0.
LEMMA Numbers ==
    ASSUME NEW a \in 0 .. 3, NEW b \in 0 .. 4, NEW c \in 0 .. 3
    PROVE  Number(a, b, c) \in -4 .. 63
BY DEF Number

\* A number tells board, FPGA and region, if no FPGA is taken for the board
\* before's last.
LEMMA Digits ==
    ASSUME NEW a \in 0 .. 3, NEW b \in 0 .. 4, NEW c \in 0 .. 3,
           NEW d \in 0 .. 3, NEW e \in 0 .. 4, NEW f \in 0 .. 3
    PROVE  Number(a, b, c) = Number(d, e, f)
              <=> /\ c = f
                  /\ \/ a = d /\ b = e
                     \/ a = d + 1 /\ b = 0 /\ e = 4
                     \/ d = a + 1 /\ e = 0 /\ b = 4
BY DEF Number

\* Unsigned arithmetic tells these numbers apart.
LEMMA Unsigned ==
    ASSUME NEW x \in -4 .. 63
    PROVE  /\ x >= 0 => x % UnsignedMod = x
           /\ x < 0 => x % UnsignedMod = x + UnsignedMod
BY IdAssumption

\* Which regions have the same id.
LEMMA IdsAgree ==
    ASSUME NEW p \in [1 .. 3 -> Nat], NEW q \in [1 .. 3 -> Nat],
           HasBoard(p), HasBoard(q), InRange(p), InRange(q)
    PROVE  id(p) = id(q) <=> p = q \/ TakenFor(p, q) \/ TakenFor(q, p)
<1> DEFINE x == Number(p[1], p[2], p[3])
           y == Number(q[1], q[2], q[3])
<1>1. /\ p[1] \in 0 .. 3 /\ p[2] \in 0 .. 4 /\ p[3] \in 0 .. 3
      /\ q[1] \in 0 .. 3 /\ q[2] \in 0 .. 4 /\ q[3] \in 0 .. 3
  BY DEF HasBoard, InRange
<1>2. x \in -4 .. 63 /\ y \in -4 .. 63
  BY <1>1, Numbers
<1>3. id(p) = x % UnsignedMod /\ id(q) = y % UnsignedMod
  BY DEF id, Number
<1>4. id(p) = id(q) <=> x = y
  <2> HIDE DEF x, y
  <2>1. /\ x >= 0 => x % UnsignedMod = x
        /\ x < 0 => x % UnsignedMod = x + UnsignedMod
        /\ y >= 0 => y % UnsignedMod = y
        /\ y < 0 => y % UnsignedMod = y + UnsignedMod
    BY <1>2, Unsigned
  <2>2. QED
    BY <1>2, <1>3, <2>1, IdAssumption
<1>5. x = y <=> /\ p[3] = q[3]
                /\ \/ p[1] = q[1] /\ p[2] = q[2]
                   \/ p[1] = q[1] + 1 /\ p[2] = 0 /\ q[2] = 4
                   \/ q[1] = p[1] + 1 /\ q[2] = 0 /\ p[2] = 4
  BY <1>1, Digits
<1>6. p = q <=> p[1] = q[1] /\ p[2] = q[2] /\ p[3] = q[3]
  <2>1. \A k \in 1 .. 3 : k = 1 \/ k = 2 \/ k = 3
    OBVIOUS
  <2>2. QED
    BY <2>1
<1>7. QED
  BY <1>4, <1>5, <1>6 DEF TakenFor

-----------------------------------------------------------------------------
(* Parts that a step leaves alone. *)

\* The files are as they were.
LEMMA FilesFrame ==
    ASSUME FilesInv, UNCHANGED <<m_xml_files_list, m_kernel_bitstream_struct_map>>
    PROVE  FilesInv' /\ Loaded' = Loaded
BY DEF FilesInv, Loaded

\* The regions are as they were.
LEMMA RegionsFrame ==
    ASSUME RegionsInv, UNCHANGED m_schedulers
    PROVE  RegionsInv'
BY DEF RegionsInv, HasBoard

\* A construction that does not end has no tables to get right.
LEMMA TablesLater ==
    ASSUME TablesInv, phase # "ready", phase' # "ready",
           UNCHANGED <<tables, client>>
    PROVE  TablesInv'
BY DEF TablesInv, tables, client, check_wg_size

\* Once there is a Global the tables stay.
LEMMA TablesStay ==
    ASSUME TablesInv, UNCHANGED <<phase, m_schedulers, files, tables>>,
           \/ accepted' = accepted
           \/ /\ phase = "ready" /\ accepted' # <<>>
              /\ check_wg_size(accepted'[1], accepted'[2])
    PROVE  TablesInv'
<1>1. /\ Loaded' = Loaded /\ WorkGroupSizeCheck' = WorkGroupSizeCheck
      /\ \A n : Tracker(n)' = Tracker(n)
  BY DEF files, Loaded, WorkGroupSizeCheck, Tracker
<1>2. phase' = phase /\ m_schedulers' = m_schedulers
      /\ m_wg_cost_mapping' = m_wg_cost_mapping
      /\ m_work_group_sizes' = m_work_group_sizes
      /\ m_free_schedulers' = m_free_schedulers
  BY DEF tables
<1>3. phase' = "ready" =>
         /\ m_wg_cost_mapping' = [n \in Loaded' |-> Tracker(n)']
         /\ m_work_group_sizes' = WorkGroupSizeCheck'
         /\ m_free_schedulers' =
                [i \in 1 .. Len(m_schedulers') |-> id(m_schedulers'[i])]
  BY <1>1, <1>2 DEF TablesInv
<1>4. phase' # "ready" => m_free_schedulers' = <<>> /\ accepted' = <<>>
  BY <1>2 DEF TablesInv
<1>5. accepted' # <<>> => check_wg_size(accepted[1], accepted[2])'
  BY <1>2 DEF TablesInv, check_wg_size
<1>6. QED
  BY <1>3, <1>4, <1>5 DEF TablesInv, id

-----------------------------------------------------------------------------
(* The steps. *)

\* An empty list of files.
LEMMA NoFiles ==
    m_xml_files_list = <<>> /\ m_kernel_bitstream_struct_map = <<>>
    => FilesInv /\ Loaded = {}
<1> SUFFICES ASSUME m_xml_files_list = <<>>, m_kernel_bitstream_struct_map = <<>>
             PROVE  FilesInv /\ Loaded = {}
  OBVIOUS
<1>1. Loaded = {}
  BY DEF Loaded
<1>2. IsFiniteSet(Loaded) /\ Cardinality(Loaded) = 0
  BY <1>1, FS_EmptySet
<1>3. m_xml_files_list \in Seq(Names) /\ Len(m_xml_files_list) = 0
  BY EmptySeq
<1>4. QED
  BY <1>1, <1>2, <1>3 DEF FilesInv

\* Nothing was read yet.
LEMMA InvInit == StartupInit => Inv
<1> SUFFICES ASSUME StartupInit PROVE Inv
  OBVIOUS
<1>1. FilesInv /\ Loaded = {}
  BY NoFiles DEF StartupInit
<1>2. PhaseInv
  <2>1. attempts \in 0 .. MaxAttempts
    BY BoundsAssumption DEF StartupInit
  <2>2. phase = "none" /\ load_failed = FALSE /\ m_xml_files_list = <<>>
    BY DEF StartupInit
  <2>3. load_failed \in BOOLEAN /\ ~load_failed
    BY <2>2
  <2>4. phase \notin {"tables", "ready"}
    BY <2>2
  <2>5. QED
    BY <1>1, <2>1, <2>2, <2>3, <2>4 DEF PhaseInv
<1>3. RegionsInv
  <2>1. m_schedulers \in Seq([1 .. 3 -> Nat]) /\ Len(m_schedulers) = 0
    BY EmptySeq DEF StartupInit
  <2>2. QED
    BY <2>1 DEF RegionsInv
<1>4. TablesInv
  BY DEF StartupInit, TablesInv
<1>5. QED
  BY <1>1, <1>2, <1>3, <1>4 DEF Inv

\* NoFiles of the state after a step.
LEMMA NoFilesAfter ==
    ASSUME m_xml_files_list' = <<>>, m_kernel_bitstream_struct_map' = <<>>
    PROVE  FilesInv' /\ Loaded' = {}
<1>1. (m_xml_files_list = <<>> /\ m_kernel_bitstream_struct_map = <<>>
       => FilesInv /\ Loaded = {})'
  BY NoFiles, PTL
<1>2. QED
  BY <1>1

\* An exception leaves nothing behind of what was read.
LEMMA ThrowStep ==
    ASSUME Inv, phase # "ready", Throw
    PROVE  Inv'
<1>1. FilesInv' /\ Loaded' = {}
  BY NoFilesAfter DEF Throw
<1>2. PhaseInv'
  BY <1>1 DEF Throw, Inv, PhaseInv
<1>3. RegionsInv'
  <2>1. m_schedulers' \in Seq([1 .. 3 -> Nat]) /\ Len(m_schedulers') = 0
    BY EmptySeq DEF Throw
  <2>2. QED
    BY <2>1 DEF RegionsInv
<1>4. TablesInv'
  BY DEF Throw, Inv, TablesInv, client
<1>5. QED
  BY <1>1, <1>2, <1>3, <1>4 DEF Inv

\* get_instance, WeeConfig and the opening of the directory fill no table.
LEMMA ConfigStep ==
    ASSUME Inv, WeeConfig \/ OpenDirectory \/ get_instance
    PROVE  Inv'
<1>1. CASE WeeConfig /\ Throw
  BY <1>1, ThrowStep DEF WeeConfig
<1>2. CASE \/ WeeConfig /\ ~Throw
           \/ OpenDirectory
           \/ get_instance
  <2>1. /\ UNCHANGED <<m_schedulers, m_xml_files_list,
                       m_kernel_bitstream_struct_map, load_failed, tables, client>>
        /\ \/ phase = "config" /\ phase' = "sched" /\ attempts' = attempts
           \/ phase = "sched" /\ phase' \in {"list", "tables"} /\ attempts' = attempts
           \/ phase = "none" /\ phase' = "config" /\ attempts' = attempts + 1
              /\ attempts < MaxAttempts
    BY <1>2 DEF WeeConfig, OpenDirectory, get_instance, files
  <2>2. FilesInv' /\ Loaded' = Loaded
    BY <2>1, FilesFrame DEF Inv
  <2>3. PhaseInv'
    <3>1. m_xml_files_list = <<>> /\ Loaded = {} /\ load_failed = FALSE
      BY <2>1 DEF Inv, PhaseInv
    <3>2. Len(m_xml_files_list) = 0 /\ Cardinality(Loaded) = 0
      BY <3>1, FS_EmptySet
    <3>3. attempts' \in 0 .. MaxAttempts
      BY <2>1, BoundsAssumption DEF Inv, PhaseInv
    <3>4. load_failed' \in BOOLEAN /\ ~load_failed'
      BY <2>1, <3>1
    <3>5. /\ m_xml_files_list' = <<>> /\ Loaded' = {}
          /\ ~(Cardinality(Loaded') < Len(m_xml_files_list'))
      BY <2>1, <2>2, <3>1, <3>2
    <3>6. phase' \in {"sched", "list", "tables", "config"}
      BY <2>1
    <3>7. QED
      BY <3>3, <3>4, <3>5, <3>6 DEF PhaseInv
  <2>4. RegionsInv'
    BY <2>1, RegionsFrame DEF Inv
  <2>5. TablesInv'
    <3>1. phase # "ready" /\ phase' # "ready"
      BY <2>1
    <3>2. QED
      BY <2>1, <3>1, TablesLater DEF Inv
  <2>6. QED
    BY <2>2, <2>3, <2>4, <2>5 DEF Inv
<1>3. QED
  BY <1>1, <1>2

\* The regions of the configuration become schedulers.
LEMMA SchedStep ==
    ASSUME Inv, SchedConfig
    PROVE  Inv'
<1>1. PICK element \in PRs :
         LET pr == get_values_for_key(element)
         IN  \/ ~HasBoard(pr) /\ Throw
             \/ /\ HasBoard(pr)
                /\ m_schedulers' = Append(m_schedulers, pr)
                /\ UNCHANGED <<phase, attempts, files, tables, client>>
  BY DEF SchedConfig
<1> DEFINE pr == get_values_for_key(element)
<1>2. phase = "sched" /\ pr \in [1 .. 3 -> Nat]
  BY RegionNumbers DEF SchedConfig
<1> HIDE DEF pr
<1>3. CASE Throw
  BY <1>2, <1>3, ThrowStep
<1>4. CASE /\ HasBoard(pr)
           /\ m_schedulers' = Append(m_schedulers, pr)
           /\ UNCHANGED <<phase, attempts, files, tables, client>>
  <2>1. UNCHANGED <<m_xml_files_list, m_kernel_bitstream_struct_map, load_failed>>
    BY <1>4 DEF files
  <2>2. FilesInv' /\ Loaded' = Loaded
    BY <2>1, FilesFrame DEF Inv
  <2>3. PhaseInv'
    BY <1>4, <2>1, <2>2 DEF Inv, PhaseInv
  <2>4. RegionsInv'
    <3> DEFINE l == m_schedulers
    <3>1. PICK m : m = m_schedulers'
      OBVIOUS
    <3>2. l \in Seq([1 .. 3 -> Nat]) /\ (\A i \in 1 .. Len(l) : HasBoard(l[i]))
      BY DEF Inv, RegionsInv
    <3>3. m = Append(l, pr)
      BY <1>4, <3>1
    <3>4. /\ m \in Seq([1 .. 3 -> Nat]) /\ Len(m) = Len(l) + 1
          /\ \A i \in 1 .. Len(l) : m[i] = l[i]
          /\ m[Len(l) + 1] = pr
      BY <1>2, <3>2, <3>3, AppendProperties
    <3>5. \A i \in 1 .. Len(m) : i \in 1 .. Len(l) \/ i = Len(l) + 1
      BY <3>2, <3>4, LenProperties
    <3>6. \A i \in 1 .. Len(m) : HasBoard(m[i])
      BY <1>4, <3>2, <3>4, <3>5
    <3>7. QED
      BY <3>1, <3>4, <3>6 DEF RegionsInv, HasBoard
  <2>5. TablesInv'
    <3>1. phase # "ready" /\ phase' # "ready" /\ UNCHANGED <<tables, client>>
      BY <1>2, <1>4
    <3>2. QED
      BY <3>1, TablesLater DEF Inv
  <2>6. QED
    BY <2>2, <2>3, <2>4, <2>5 DEF Inv
<1>5. QED
  BY <1>1, <1>3, <1>4 DEF pr

\* The names in the directory become the list of files.
LEMMA ListStep ==
    ASSUME Inv, get_xml_files_list
    PROVE  Inv'
<1>1. phase = "list" /\ Loaded = {} /\ load_failed = FALSE /\ attempts \in 0 .. MaxAttempts
  BY DEF get_xml_files_list, Inv, PhaseInv
<1>2. CASE Throw
  BY <1>1, <1>2, ThrowStep
<1>3. ASSUME NEW n \in Names \ Range(m_xml_files_list),
             m_xml_files_list' = Append(m_xml_files_list, n),
             \/ UNCHANGED <<phase, load_failed>>
             \/ phase' = "tables" /\ load_failed' = TRUE,
             UNCHANGED <<attempts, m_schedulers, m_kernel_bitstream_struct_map,
                         tables, client>>
      PROVE  Inv'
  <2>1. Loaded' = {} /\ IsFiniteSet({}) /\ Cardinality({}) = 0
    BY <1>1, <1>3, FS_EmptySet DEF Loaded
  <2> DEFINE l == m_xml_files_list
  <2>2. l \in Seq(Names) /\ (\A i, j \in 1 .. Len(l) : l[i] = l[j] => i = j)
    BY DEF Inv, FilesInv
  <2>3. PICK m : m = m_xml_files_list'
    OBVIOUS
  <2>4. /\ m \in Seq(Names) /\ Len(m) = Len(l) + 1 /\ Len(l) \in Nat
        /\ \A i \in 1 .. Len(l) : m[i] = l[i]
        /\ m[Len(l) + 1] = n
    <3>1. m = Append(l, n)
      BY <1>3, <2>3
    <3>2. QED
      BY <1>3, <2>2, <3>1, AppendProperties, LenProperties
  <2>5. \A i \in 1 .. Len(l) : l[i] # n
    <3>1. \A i \in 1 .. Len(l) : i \in DOMAIN l
      BY <2>2, LenProperties
    <3>2. QED
      BY <1>3, <3>1 DEF Range
  <2>6. \A i, j \in 1 .. Len(m) : m[i] = m[j] => i = j
    <3>1. \A i \in 1 .. Len(m) : i \in 1 .. Len(l) \/ i = Len(l) + 1
      BY <2>4
    <3> HIDE DEF l
    <3>2. QED
      BY <2>2, <2>4, <2>5, <3>1
  <2>7. FilesInv'
    <3>1. Loaded' = {m[i] : i \in 1 .. Cardinality(Loaded')}
      BY <2>1
    <3>2. Cardinality(Loaded') <= Len(m) /\ Len(m) > 0
      BY <2>1, <2>4
    <3> HIDE DEF l
    <3>3. QED
      BY <2>1, <2>3, <2>4, <2>6, <3>1, <3>2 DEF FilesInv
  <2>8. PhaseInv'
    <3>1. Cardinality(Loaded') < Len(m_xml_files_list')
      BY <2>1, <2>3, <2>4
    <3>2. CASE UNCHANGED <<phase, load_failed>>
      <4>1. phase' = "list" /\ load_failed' = FALSE /\ attempts' = attempts
        BY <1>1, <1>3, <3>2
      <4>2. load_failed' \in BOOLEAN /\ ~load_failed'
        BY <4>1
      <4>3. QED
        BY <1>1, <2>1, <4>1, <4>2 DEF PhaseInv
    <3>3. CASE phase' = "tables" /\ load_failed' = TRUE
      <4>1. load_failed' \in BOOLEAN /\ load_failed' /\ attempts' = attempts
        BY <1>3, <3>3
      <4>2. QED
        BY <1>1, <3>1, <3>3, <4>1 DEF PhaseInv
    <3>4. QED
      BY <1>3, <3>2, <3>3
  <2>9. RegionsInv'
    BY <1>3, RegionsFrame DEF Inv
  <2>10. TablesInv'
    <3>1. phase # "ready" /\ phase' # "ready"
      BY <1>1, <1>3
    <3>2. QED
      BY <1>3, <3>1, TablesLater DEF Inv
  <2>11. QED
    BY <2>7, <2>8, <2>9, <2>10 DEF Inv
<1>4. CASE phase' = "extract" /\ UNCHANGED <<attempts, m_schedulers, files, tables, client>>
  <2>1. UNCHANGED <<m_xml_files_list, m_kernel_bitstream_struct_map, load_failed>>
    BY <1>4 DEF files
  <2>2. FilesInv' /\ Loaded' = Loaded
    BY <2>1, FilesFrame DEF Inv
  <2>3. PhaseInv'
    <3>1. load_failed' = FALSE
      BY <1>1, <2>1
    <3>2. load_failed' \in BOOLEAN /\ ~load_failed'
      BY <3>1
    <3>3. QED
      BY <1>1, <1>4, <3>2 DEF PhaseInv
  <2>4. RegionsInv'
    BY <1>4, RegionsFrame DEF Inv
  <2>5. TablesInv'
    BY <1>1, <1>4, TablesLater DEF Inv
  <2>6. QED
    BY <2>2, <2>3, <2>4, <2>5 DEF Inv
<1>5. QED
  <2>1. CASE \E n \in Names \ Range(m_xml_files_list) :
                /\ m_xml_files_list' = Append(m_xml_files_list, n)
                /\ \/ UNCHANGED <<phase, load_failed>>
                   \/ phase' = "tables" /\ load_failed' = TRUE
                /\ UNCHANGED <<attempts, m_schedulers,
                               m_kernel_bitstream_struct_map, tables, client>>
    <3>1. PICK n \in Names \ Range(m_xml_files_list) :
             /\ m_xml_files_list' = Append(m_xml_files_list, n)
             /\ \/ UNCHANGED <<phase, load_failed>>
                \/ phase' = "tables" /\ load_failed' = TRUE
             /\ UNCHANGED <<attempts, m_schedulers,
                            m_kernel_bitstream_struct_map, tables, client>>
      BY <2>1
    <3>2. QED
      BY <1>3, <3>1
  <2>2. QED
    BY <1>2, <1>4, <2>1 DEF get_xml_files_list

\* The file that is extracted next is not among the loaded ones.
LEMMA NextIsNew ==
    ASSUME FilesInv, Cardinality(Loaded) < Len(m_xml_files_list)
    PROVE  /\ NextFile \notin Loaded
           /\ Cardinality(Loaded) \in Nat
           /\ Cardinality(Loaded \cup {NextFile}) = Cardinality(Loaded) + 1
           /\ IsFiniteSet(Loaded \cup {NextFile})
           /\ Loaded \cup {NextFile}
                 = {m_xml_files_list[i] : i \in 1 .. Cardinality(Loaded) + 1}
<1>1. Cardinality(Loaded) \in Nat
  BY FS_CardinalityType DEF FilesInv
<1>2. PICK k \in Nat : k = Cardinality(Loaded)
  BY <1>1
<1>3. PICK l : l = m_xml_files_list
  OBVIOUS
<1>4. /\ l \in Seq(Names) /\ k < Len(l) /\ Len(l) \in Nat
      /\ \A i, j \in 1 .. Len(l) : l[i] = l[j] => i = j
      /\ Loaded = {l[i] : i \in 1 .. k}
      /\ NextFile = l[k + 1]
  BY <1>2, <1>3, LenProperties DEF FilesInv, NextFile
<1>5. k + 1 \in 1 .. Len(l) /\ (\A i \in 1 .. k : i \in 1 .. Len(l) /\ i # k + 1)
  BY <1>4
<1>6. \A i \in 1 .. k : l[i] # l[k + 1]
  BY <1>4, <1>5
<1>7. NextFile \notin Loaded
  BY <1>4, <1>6
<1>8. Loaded \cup {NextFile} = {l[i] : i \in 1 .. k + 1}
  <2>1. \A i \in Nat : i \in 1 .. k + 1 <=> i \in 1 .. k \/ i = k + 1
    OBVIOUS
  <2>2. QED
    BY <1>4, <2>1
<1>9. /\ IsFiniteSet(Loaded \cup {NextFile})
      /\ Cardinality(Loaded \cup {NextFile}) = Cardinality(Loaded) + 1
  BY <1>7, FS_AddElement DEF FilesInv
<1>10. QED
  BY <1>1, <1>2, <1>3, <1>7, <1>8, <1>9

\* The next file of the list is read, or fails and ends the loading.
LEMMA ExtractStep ==
    ASSUME Inv, read_xml_files
    PROVE  Inv'
<1>1. /\ phase = "extract" /\ load_failed = FALSE /\ attempts \in 0 .. MaxAttempts
      /\ UNCHANGED <<attempts, m_xml_files_list, m_schedulers, tables, client>>
  BY DEF read_xml_files, Inv, PhaseInv
<1>2. RegionsInv'
  BY <1>1, RegionsFrame DEF Inv
<1>3. CASE /\ Cardinality(Loaded) < Len(m_xml_files_list)
           /\ extract_xml_file(NextFile)
  <2>1. CASE \E rec \in Records : /\ m_kernel_bitstream_struct_map' = WithEntry(NextFile, rec)
                                  /\ UNCHANGED <<phase, load_failed>>
    <3>1. PICK rec \in Records : /\ m_kernel_bitstream_struct_map' = WithEntry(NextFile, rec)
                                 /\ UNCHANGED <<phase, load_failed>>
      BY <2>1
    <3>2. Loaded' = Loaded \cup {NextFile}
      BY <3>1 DEF Loaded, WithEntry
    <3>3. \A n \in Loaded' : m_kernel_bitstream_struct_map'[n] \in Records
      BY <3>1, <3>2 DEF WithEntry, Inv, FilesInv
    <3>4. FilesInv'
      <4>1. /\ IsFiniteSet(Loaded') /\ Cardinality(Loaded') <= Len(m_xml_files_list)
            /\ Loaded' = {m_xml_files_list[i] : i \in 1 .. Cardinality(Loaded')}
        <5>1. /\ Cardinality(Loaded) \in Nat /\ Cardinality(Loaded') = Cardinality(Loaded) + 1
              /\ IsFiniteSet(Loaded')
              /\ Loaded' = {m_xml_files_list[i] : i \in 1 .. Cardinality(Loaded')}
          BY <1>3, <3>2, NextIsNew DEF Inv
        <5>2. Len(m_xml_files_list) \in Nat
          BY LenProperties DEF Inv, FilesInv
        <5>3. QED
          BY <1>3, <5>1, <5>2
      <4>2. QED
        BY <1>1, <3>3, <4>1 DEF Inv, FilesInv
    <3>5. PhaseInv'
      <4>1. phase' = "extract" /\ load_failed' = FALSE /\ attempts' = attempts
        BY <1>1, <3>1
      <4>2. load_failed' \in BOOLEAN /\ ~load_failed'
        BY <4>1
      <4>3. QED
        BY <1>1, <4>1, <4>2 DEF PhaseInv
    <3>6. TablesInv'
      BY <1>1, <3>1, TablesLater DEF Inv
    <3>7. QED
      BY <1>2, <3>4, <3>5, <3>6 DEF Inv
  <2>2. CASE /\ phase' = "tables" /\ load_failed' = TRUE
             /\ UNCHANGED m_kernel_bitstream_struct_map
    <3>1. FilesInv' /\ Loaded' = Loaded
      BY <1>1, <2>2, FilesFrame DEF Inv
    <3>2. load_failed' \in BOOLEAN /\ load_failed' /\ attempts' = attempts
          /\ Cardinality(Loaded') < Len(m_xml_files_list')
      BY <1>1, <1>3, <2>2, <3>1
    <3>3. PhaseInv'
      BY <1>1, <2>2, <3>2 DEF PhaseInv
    <3>4. TablesInv'
      BY <1>1, <2>2, TablesLater DEF Inv
    <3>5. QED
      BY <1>2, <3>1, <3>3, <3>4 DEF Inv
  <2>3. QED
    BY <1>3, <2>1, <2>2 DEF extract_xml_file, Records
<1>4. CASE /\ ~(Cardinality(Loaded) < Len(m_xml_files_list))
           /\ phase' = "tables"
           /\ UNCHANGED <<m_kernel_bitstream_struct_map, load_failed>>
  <2>1. FilesInv' /\ Loaded' = Loaded
    BY <1>1, <1>4, FilesFrame DEF Inv
  <2>2. load_failed' = FALSE /\ attempts' = attempts
        /\ ~(Cardinality(Loaded') < Len(m_xml_files_list'))
    BY <1>1, <1>4, <2>1
  <2>3. load_failed' \in BOOLEAN /\ ~load_failed'
    BY <2>2
  <2>4. PhaseInv'
    BY <1>1, <1>4, <2>2, <2>3 DEF PhaseInv
  <2>5. TablesInv'
    BY <1>1, <1>4, TablesLater DEF Inv
  <2>6. QED
    BY <1>2, <2>1, <2>4, <2>5 DEF Inv
<1>5. QED
  BY <1>3, <1>4 DEF read_xml_files

\* The tables are made of what was loaded.
LEMMA GlobalStep ==
    ASSUME Inv, Global
    PROVE  Inv'
<1>1. phase = "tables"
  BY DEF Global
<1>2. CASE Throw
  BY <1>1, <1>2, ThrowStep
<1>3. CASE /\ phase' = "ready"
           /\ m_wg_cost_mapping' = [n \in Loaded |-> Tracker(n)]
           /\ m_work_group_sizes' = WorkGroupSizeCheck
           /\ m_free_schedulers' =
                  [i \in 1 .. Len(m_schedulers) |-> id(m_schedulers[i])]
           /\ UNCHANGED <<attempts, m_schedulers, files, client>>
  <2>1. UNCHANGED <<m_xml_files_list, m_kernel_bitstream_struct_map, load_failed>>
    BY <1>3 DEF files
  <2>2. FilesInv' /\ Loaded' = Loaded
    BY <2>1, FilesFrame DEF Inv
  <2>3. PhaseInv'
    BY <1>1, <1>3, <2>1, <2>2 DEF Inv, PhaseInv
  <2>4. RegionsInv'
    BY <1>3, RegionsFrame DEF Inv
  <2>5. TablesInv'
    <3>1. WorkGroupSizeCheck' = WorkGroupSizeCheck /\ (\A n : Tracker(n)' = Tracker(n))
      BY <1>3, <2>1, <2>2 DEF WorkGroupSizeCheck, Tracker
    <3>2. /\ m_wg_cost_mapping' = [n \in Loaded' |-> Tracker(n)']
          /\ m_work_group_sizes' = WorkGroupSizeCheck'
          /\ m_free_schedulers' =
                 [i \in 1 .. Len(m_schedulers') |-> id(m_schedulers'[i])]
      BY <1>3, <2>2, <3>1
    <3>3. accepted' = <<>>
      BY <1>1, <1>3 DEF Inv, TablesInv, client
    <3>4. QED
      BY <1>3, <3>2, <3>3 DEF TablesInv, id
  <2>6. QED
    BY <2>2, <2>3, <2>4, <2>5 DEF Inv
<1>4. QED
  BY <1>2, <1>3 DEF Global

\* The application's calls look at the tables and change none.
LEMMA ClientStep ==
    ASSUME Inv,
           \/ \E line \in Lines : clCreateProgramWithSource(line)
           \/ clBuildProgram
           \/ \E d \in 0 .. 2, g \in 0 .. 3, l \in WgSizes : clEnqueueNDRangeKernel(d, g, l)
           \/ UNCHANGED startupVars
    PROVE  Inv'
<1>1. UNCHANGED <<phase, attempts, m_schedulers, files, tables>>
  BY DEF clCreateProgramWithSource, clBuildProgram, clEnqueueNDRangeKernel, startupVars
<1>2. UNCHANGED <<m_xml_files_list, m_kernel_bitstream_struct_map, load_failed>>
  BY <1>1 DEF files
<1>3. \/ accepted' = accepted
      \/ /\ phase = "ready" /\ accepted' # <<>>
         /\ check_wg_size(accepted'[1], accepted'[2])
  <2>1. CASE \/ \E line \in Lines : clCreateProgramWithSource(line)
             \/ clBuildProgram
             \/ UNCHANGED startupVars
    BY <2>1 DEF clCreateProgramWithSource, clBuildProgram, startupVars, client
  <2>2. ASSUME NEW d \in 0 .. 2, NEW g \in 0 .. 3, NEW l \in WgSizes,
               clEnqueueNDRangeKernel(d, g, l)
        PROVE  /\ phase = "ready" /\ accepted' # <<>>
               /\ check_wg_size(accepted'[1], accepted'[2])
    <3>1. /\ phase = "ready" /\ check_wg_size(m_xml_name, l)
          /\ accepted' = <<m_xml_name, l>>
      BY <2>2 DEF clEnqueueNDRangeKernel
    <3>2. accepted'[1] = m_xml_name /\ accepted'[2] = l /\ accepted' # <<>>
      BY <3>1
    <3>3. QED
      BY <3>1, <3>2
  <2>3. QED
    BY <2>1, <2>2
<1>4. FilesInv' /\ Loaded' = Loaded
  BY <1>2, FilesFrame DEF Inv
<1>5. PhaseInv'
  BY <1>1, <1>2, <1>4 DEF Inv, PhaseInv
<1>6. RegionsInv'
  BY <1>1, RegionsFrame DEF Inv
<1>7. TablesInv'
  BY <1>1, <1>3, TablesStay DEF Inv
<1>8. QED
  BY <1>4, <1>5, <1>6, <1>7 DEF Inv

\* Every step keeps the invariant.
LEMMA InvStep == Inv /\ [StartupNext]_startupVars => Inv'
BY ConfigStep, SchedStep, ListStep, ExtractStep, GlobalStep, ClientStep
   DEF StartupNext, Construct

-----------------------------------------------------------------------------
(* The theorems. *)

\* So it holds always.
LEMMA StartupInvariant == StartupSpec => []Inv
BY InvInit, InvStep, PTL DEF StartupSpec

\* The constructors read the files in the order of the list and stop at the first
\* bad one: what is loaded is a beginning of the list, and all of it unless a file
\* failed (read_xml_files, whose return code the constructor drops).
THEOREM FilesLoadInOrder == StartupSpec => []LoadedIsPrefix
<1>1. Inv => LoadedIsPrefix
  BY DEF Inv, FilesInv, PhaseInv, LoadedIsPrefix
<1>2. QED
  BY <1>1, StartupInvariant, PTL

\* Whatever regions the configuration names on the boards that exist, those that
\* leave the FPGA out included: two schedulers share an id if they are one region's,
\* or one has no FPGA and the other is FPGA 4 of the board before, and only then.
THEOREM IdsAreRegions == StartupSpec => []IdsNameRegions
<1>1. Inv => IdsNameRegions
  <2> SUFFICES ASSUME Inv, phase = "ready",
                      NEW i \in 1 .. Len(m_schedulers), NEW j \in 1 .. Len(m_schedulers),
                      InRange(m_schedulers[i]), InRange(m_schedulers[j])
               PROVE  m_free_schedulers[i] = m_free_schedulers[j]
                         <=> \/ m_schedulers[i] = m_schedulers[j]
                             \/ TakenFor(m_schedulers[i], m_schedulers[j])
                             \/ TakenFor(m_schedulers[j], m_schedulers[i])
    BY DEF IdsNameRegions
  <2>1. /\ m_free_schedulers[i] = id(m_schedulers[i])
        /\ m_free_schedulers[j] = id(m_schedulers[j])
    BY DEF Inv, TablesInv
  <2>2. m_schedulers \in Seq([1 .. 3 -> Nat]) /\ HasBoard(m_schedulers[i]) /\ HasBoard(m_schedulers[j])
    BY DEF Inv, RegionsInv
  <2>3. m_schedulers[i] \in [1 .. 3 -> Nat] /\ m_schedulers[j] \in [1 .. 3 -> Nat]
    BY <2>2, ElementOfSeq
  <2>4. QED
    BY <2>1, <2>2, <2>3, IdsAgree
<1>2. QED
  BY <1>1, StartupInvariant, PTL

\* Of an NDRange that clEnqueueNDRangeKernel let through every table knows the
\* bitstream: the dispatcher finds its resource string, AlgoSimple a cost of it on
\* every island, and its work-group size is the one asked for. It is what files
\* that failed to load cannot break: they are listed, but have no size to match.
THEOREM AcceptedIsInEveryTable == StartupSpec => []AcceptedIsKnown
<1>1. Inv => AcceptedIsKnown
  <2> SUFFICES ASSUME Inv PROVE AcceptedIsKnown
    OBVIOUS
  <2>1. StartupTypeOK
    <3>1. Loaded \subseteq Range(m_xml_files_list)
      <4>1. PICK k \in Nat : k = Cardinality(Loaded)
        BY FS_CardinalityType DEF Inv, FilesInv
      <4>2. Len(m_xml_files_list) \in Nat /\ k <= Len(m_xml_files_list)
            /\ DOMAIN m_xml_files_list = 1 .. Len(m_xml_files_list)
        BY <4>1, LenProperties DEF Inv, FilesInv
      <4>3. \A i \in 1 .. k : i \in DOMAIN m_xml_files_list
        BY <4>2
      <4>4. Loaded = {m_xml_files_list[i] : i \in 1 .. k}
        BY <4>1 DEF Inv, FilesInv
      <4>5. QED
        BY <4>3, <4>4 DEF Range
    <3>2. QED
      BY <3>1 DEF Inv, PhaseInv, RegionsInv, TablesInv, StartupTypeOK
  <2>2. ASSUME accepted # <<>>
        PROVE  LET n == accepted[1] IN
               /\ HasEntry(n)
               /\ \A i \in 1 .. Len(m_schedulers) : get_wg_cost_on_island(i, n) \in Costs
               /\ m_kernel_bitstream_struct_map[n].wgroup_size = accepted[2]
    <3> DEFINE n == accepted[1]
    <3>1. /\ phase = "ready" /\ check_wg_size(n, accepted[2])
          /\ m_wg_cost_mapping = [x \in Loaded |-> Tracker(x)]
          /\ m_work_group_sizes = WorkGroupSizeCheck
      BY <2>2 DEF Inv, TablesInv
    <3>2. n \in Loaded /\ m_kernel_bitstream_struct_map[n].wgroup_size = accepted[2]
      BY <3>1 DEF check_wg_size, WorkGroupSizeCheck
    <3>3. m_kernel_bitstream_struct_map[n] \in Records
      BY <3>2 DEF Inv, FilesInv
    <3>4. /\ m_kernel_bitstream_struct_map[n].local_cost \in Costs
          /\ m_kernel_bitstream_struct_map[n].remote_cost \in Costs
      BY <3>3 DEF Records
    <3>5. ASSUME NEW i \in 1 .. Len(m_schedulers)
          PROVE  get_wg_cost_on_island(i, n) \in Costs
      <4>1. get_wg_cost_on_island(i, n) = Tracker(n)[i]
        BY <3>1, <3>2 DEF get_wg_cost_on_island
      <4>2. Tracker(n)[i] \in Costs
        BY <3>4 DEF Tracker
      <4>3. QED
        BY <4>1, <4>2
    <3>6. QED
      BY <3>2, <3>5 DEF HasEntry
  <2>3. QED
    BY <2>1, <2>2 DEF AcceptedIsKnown
<1>2. QED
  BY <1>1, StartupInvariant, PTL
===============================================================================
