----------------------------- MODULE CcTopology -----------------------------
(***************************************************************************)
(* pkg/ccTopology: what init() reads about the hardware threads, and the   *)
(* getters of the collectors and of the aggregation functions.             *)
(*                                                                         *)
(* A machine is what the kernel shows below /sys/devices/system/cpu: for   *)
(* each number of a hardware thread the contents of its topology files.  A *)
(* file that is missing or cannot be parsed is Missing (-1 in the code), or *)
(* the empty list; both are so for a thread that is offline.               *)
(***************************************************************************)
EXTENDS Integers, SequencesExt, SortedLists

CONSTANT Machines

Missing == -1

\* The contents of the files of one hardware thread.
Files == [core : Int, socket : Int, die : Int, numa : Int, siblings : Seq(Nat)]

\* There is a thread.  The kernel lists the threads of a core, which is itself
\* among them, and shows the same list for each of them.
ASSUME TopologyAssumption ==
  \A m \in Machines :
    /\ DOMAIN m \subseteq Nat /\ IsFiniteSet(DOMAIN m) /\ DOMAIN m # {}
    /\ \A c \in DOMAIN m :
         /\ m[c] \in Files
         /\ \A d \in ToSet(m[c].siblings) :
              /\ c \in ToSet(m[c].siblings)
              /\ d \in DOMAIN m /\ m[d].siblings = m[c].siblings

VARIABLES
  machine,  \* what the kernel shows
  cpuData,  \* cache.CpuData
  lists     \* the sorted lists of cache

topologyVars == <<machine, cpuData, lists>>

\* slices.Index(): positions start at 0, and -1 stands for none.
IndexOf(list, c) ==
  IF c \in ToSet(list) THEN SelectInSeq(list, LAMBDA x : x = c) - 1 ELSE -1

\* The entry of hardware thread c.  Without die_id the die is the socket.
HwthreadEntry(m, c) ==
  [CpuID |-> c,
   SMT |-> IndexOf(m[c].siblings, c),
   CoreCPUsList |-> m[c].siblings,
   Core |-> m[c].core,
   Socket |-> m[c].socket,
   Die |-> IF m[c].die < 0 THEN m[c].socket ELSE m[c].die,
   NumaDomain |-> m[c].numa]

\* init() of the package.  The lists are sorted, and have each id once.
InitTopology ==
  \E m \in Machines :
    LET threads == SortedList(DOMAIN m)
        data == [i \in DOMAIN threads |-> HwthreadEntry(m, threads[i])]
        all(field) == SortedList({data[i][field] : i \in DOMAIN data})
    IN /\ machine = m
       /\ cpuData = data
       /\ lists = [hwthread |-> all("CpuID"), core |-> all("Core"),
                   socket |-> all("Socket"), die |-> all("Die"),
                   memoryDomain |-> all("NumaDomain"), smt |-> all("SMT")]
-----------------------------------------------------------------------------
HwthreadList == lists.hwthread
SocketList == lists.socket

TopologyType == {"node", "socket", "die", "memoryDomain", "core", "hwthread"}

GetTypeList(type) == IF type = "node" THEN <<0>> ELSE lists[type]

\* The field of an entry that has the id of a type.
FieldOf == [socket |-> "Socket", die |-> "Die", memoryDomain |-> "NumaDomain",
            core |-> "Core", hwthread |-> "CpuID"]

GetTypeId(hwt, type) == IF type = "node" THEN 0 ELSE hwt[FieldOf[type]]

\* GetHwthreadSocket() and its like: the first entry with that number counts.
GetHwthreadId(cpuID, type) ==
  LET i == SelectInSeq(cpuData, LAMBDA h : h.CpuID = cpuID)
  IN IF i = 0 THEN -1 ELSE cpuData[i][FieldOf[type]]

ThreadsWith(field, id) ==
  LET found == SortedList({i \in DOMAIN cpuData : cpuData[i][field] = id})
  IN [k \in DOMAIN found |-> cpuData[found[k]].CpuID]

\* Mutant of GetTypeHwthreads: looks at the socket for the die.
GetTypeHwthreadsDie(type, id) ==
  CASE type = "node" -> HwthreadList
    [] type = "hwthread" -> <<id>>
    [] type = "die" -> ThreadsWith("Socket", id)
    [] OTHER -> ThreadsWith(FieldOf[type], id)

GetTypeHwthreads(type, id) ==
  CASE type = "node" -> HwthreadList
    [] type = "hwthread" -> <<id>>
    [] OTHER -> ThreadsWith(FieldOf[type], id)

CpuInfo ==
  [NumNumaDomains |-> Len(lists.memoryDomain), SMTWidth |-> Len(lists.smt),
   NumDies |-> Len(lists.die), NumCores |-> Len(lists.core),
   NumSockets |-> Len(lists.socket), NumHWthreads |-> Len(lists.hwthread)]

\* getCpuListOfType() of the aggregator, with an integer as id: the list, and
\* whether there is an error.  It calls a NUMA domain "numadomain", has no case
\* for a die, and reports an error together with the list of one hwthread.
AggregatorCpuList(type, id) ==
  CASE type = "node" -> [cpus |-> HwthreadList, ok |-> TRUE]
    [] type = "socket" -> [cpus |-> ThreadsWith("Socket", id), ok |-> TRUE]
    [] type = "numadomain" -> [cpus |-> ThreadsWith("NumaDomain", id), ok |-> TRUE]
    [] type = "core" -> [cpus |-> ThreadsWith("Core", id), ok |-> TRUE]
    [] type = "hwthread" -> [cpus |-> <<id>>, ok |-> FALSE]
    [] OTHER -> [cpus |-> <<>>, ok |-> FALSE]
-----------------------------------------------------------------------------
\* The threads of m that share a core with c.  A thread that is offline is alone.
CoreOf(m, c) == {c} \cup ToSet(m[c].siblings)

\* Every getter agrees with the machine, for threads that are offline too: the
\* lists of each type divide the hardware threads among the ids of the type,
\* each thread is found where its own id says, threads of one core differ in
\* their SMT id, and the aggregator sees the same groups.  For cores this says
\* less: on a machine with several sockets the ids of cores repeat, and
\* GetTypeHwthreads() gives the threads of all of them.
GettersAgree ==
  /\ \A type \in TopologyType :
       /\ \A i \in DOMAIN cpuData :
            LET id == GetTypeId(cpuData[i], type)
            IN /\ id \in ToSet(GetTypeList(type))
               /\ cpuData[i].CpuID \in ToSet(GetTypeHwthreads(type, id))
               /\ type # "node" => id = GetHwthreadId(cpuData[i].CpuID, type)
       /\ \A id \in ToSet(GetTypeList(type)) :
            /\ GetTypeHwthreads(type, id) # <<>>
            /\ \A other \in ToSet(GetTypeList(type)) \ {id} :
                 ToSet(GetTypeHwthreads(type, id))
                   \cap ToSet(GetTypeHwthreads(type, other)) = {}
            /\ LET name == IF type = "memoryDomain" THEN "numadomain" ELSE type
                   answer == AggregatorCpuList(name, id)
               IN answer.ok => answer.cpus = GetTypeHwthreads(type, id)
  /\ \A i, j \in DOMAIN cpuData :
       i # j /\ cpuData[j].CpuID \in CoreOf(machine, cpuData[i].CpuID)
         => cpuData[i].SMT # cpuData[j].SMT
  /\ CpuInfo.NumHWthreads = Cardinality(DOMAIN machine)
  /\ CpuInfo.NumSockets = Cardinality({machine[c].socket : c \in DOMAIN machine})
=============================================================================
