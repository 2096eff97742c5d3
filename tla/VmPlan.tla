-------------------------------- MODULE VmPlan --------------------------------
(***************************************************************************)
(* The VMs of a point of the coding sweep before they boot.  The script    *)
(* divides its agents among VMs (plan_point), plan_agents gives each VM    *)
(* its name, addresses and tap, prepare_firecracker_executor_run its image *)
(* and configuration and, when all have theirs, the manifest; the script   *)
(* that launches them asks plan_vm_placement for the CPUs of each.         *)
(* A VM is known by its index, on which everything it is given depends.    *)
(***************************************************************************)
EXTENDS Integers, Sequences, FiniteSets, SequencesExt, FiniteSetsExt

CONSTANTS
  AgentCounts,  \* points of AGENTS_LIST
  Limits,       \* what AAB_AGENTS_PER_VM may be
  ThirdOctet,   \* of guest_ip_prefix: the 0 of 172.16.0
  VcpusPerAgent, \* AAB_VCPUS_PER_AGENT
  NumaNodes,    \* the CPU lists of discover_numa_cpu_lists, by node; a cpulist file
                \* of the kernel has each CPU once
  HostCpus,     \* os.cpu_count()
  BindByAgent   \* AAB_NUMA_POLICY = "bind-by-agent"; AAB_CPU_PINNING is on

ASSUME PlanAssumption ==
  /\ AgentCounts \cup Limits \cup {VcpusPerAgent, HostCpus} \subseteq Nat \ {0}
  /\ ThirdOctet \in 0..255
  /\ NumaNodes \in Seq(Seq(Nat) \ {<<>>})
  /\ \A node \in DOMAIN NumaNodes : IsInjective(NumaNodes[node])
  /\ BindByAgent \in BOOLEAN

VARIABLES
  agents,    \* the point
  limit,     \* how many of them a VM may have
  phase,     \* "plan", "write", "manifest", "place", then "placed" or "raised"
  specs,     \* the specs of plan_agents
  configs,   \* the configurations written, each with a root image of its own
  manifest,  \* whether firecracker-run.json is there
  rows       \* agent-list.tsv: node and CPUs of each VM

pointVars == <<agents, limit>>

planVars == <<pointVars, phase, specs, configs, manifest, rows>>

-----------------------------------------------------------------------------
Most == IF limit > agents THEN agents ELSE limit

\* Mutant of PlannedTasks: as many as a VM may have.
PlannedTasksMost == Most

\* plan_point: from the most a VM may have down to the first divisor of the agents.
PlannedTasks ==
  CHOOSE n \in 1..Most : agents % n = 0 /\ \A m \in (n + 1)..Most : agents % m # 0

vmCount == agents \div PlannedTasks

VcpuCount == PlannedTasks * VcpusPerAgent

\* plan_role_separated_sweep of sweep.py, the same plan for callers of the library:
\* the VMs and the tasks of each.
SweepPoint ==
  LET tasks == Max({ n \in 1..Min({limit, agents}) : agents % n = 0 })
  IN [vm_count |-> agents \div tasks, tasks_per_vm |-> tasks]

\* Mutant of GuestIp: the hosts of a subnet are counted from 0.
GuestIpWide(index) == <<ThirdOctet + index \div 255, 10 + (index % 255)>>

\* _guest_ip_for_index: the last two octets.  Hosts 10 to 254 of a third octet.
GuestIp(index) == <<ThirdOctet + index \div 245, 10 + (index % 245)>>

\* Digits of the index in a vm_id, three at least, and the sum of _stable_mac
\* over "agent-" and them: each character by its place.
Digits(index) ==
  LET three == <<(index \div 100) % 10, (index \div 10) % 10, index % 10>>
  IN IF index < 1000 THEN three ELSE <<index \div 1000>> \o three

AgentDash == 1 * 97 + 2 * 103 + 3 * 101 + 4 * 110 + 5 * 116 + 6 * 45

StableMac(index) ==
  AgentDash + SumFunction([n \in DOMAIN Digits(index) |-> (6 + n) * (48 + Digits(index)[n])])

\* format_cpu_list, as a sequence of ranges: those of the first n CPUs.
FormatCpuList(cpus) ==
  LET ranges[n \in 0..Len(cpus)] ==
        IF n = 0 THEN <<>>
        ELSE LET before == ranges[n - 1]
             IN IF n > 1 /\ cpus[n] = cpus[n - 1] + 1
                THEN [before EXCEPT ![Len(before)] = <<@[1], cpus[n]>>]
                ELSE Append(before, <<cpus[n], cpus[n]>>)
  IN ranges[Len(cpus)]

\* range(start, end + 1).
CpuRange(range) == [n \in 1..(range[2] - range[1] + 1) |-> range[1] + n - 1]

\* expand_cpu_list, which taskset does too.
ExpandCpuList(ranges) ==
  LET cpus[n \in 0..Len(ranges)] ==
        IF n = 0 THEN <<>> ELSE cpus[n - 1] \o CpuRange(ranges[n])
  IN cpus[Len(ranges)]

RoundRobinSlice(cpus, start) ==
  [n \in 1..VcpuCount |-> cpus[((start + n - 1) % Len(cpus)) + 1]]

\* Mutant of Slot: the slot of a VM on its node is its index.
SlotOfIndex(index) == index

\* How many VMs before this one are on its node.
Slot(index) == index \div Len(NumaNodes)

\* plan_vm_placement.  Without NUMA nodes it falls back on all CPUs.
Placement(index) ==
  IF BindByAgent /\ NumaNodes # <<>>
  THEN LET node == (index % Len(NumaNodes)) + 1
       IN [node |-> node,
           cpus |-> FormatCpuList(RoundRobinSlice(NumaNodes[node], Slot(index) * VcpuCount))]
  ELSE [node |-> 0,
        cpus |-> FormatCpuList(RoundRobinSlice([n \in 1..HostCpus |-> n - 1], index * VcpuCount))]

-----------------------------------------------------------------------------
\* build_vm_config.
VmConfig(n) == [ip |-> specs[n], mac |-> StableMac(n - 1), tasks |-> PlannedTasks]

PlanTypeOK ==
  /\ agents \in AgentCounts /\ limit \in Limits
  /\ phase \in {"plan", "write", "manifest", "place", "placed", "raised"}
  /\ Len(specs) <= vmCount /\ Range(specs) \subseteq Nat \X Nat
  /\ Len(configs) <= Len(specs)
  /\ Range(configs) \subseteq [ip : Nat \X Nat, mac : Nat, tasks : 1..limit]
  /\ manifest \in BOOLEAN
  /\ Len(rows) <= vmCount
  /\ \A n \in DOMAIN rows : rows[n].node \in 0..Len(NumaNodes)

PlanInit ==
  /\ agents \in AgentCounts /\ limit \in Limits
  /\ phase = "plan"
  /\ specs = <<>> /\ configs = <<>> /\ rows = <<>>
  /\ manifest = FALSE

\* One round of plan_agents' loop.  The third octet ends at 255.
PlanVm ==
  /\ phase = "plan"
  /\ LET index == Len(specs)
     IN IF GuestIp(index)[1] > 255
        THEN phase' = "raised" /\ UNCHANGED specs
        ELSE /\ specs' = Append(specs, GuestIp(index))
             /\ phase' = IF index + 1 = vmCount THEN "write" ELSE "plan"
  /\ UNCHANGED <<configs, manifest, rows>>

\* copyfile of the base image and write_vm_config, spec by spec.
WriteVm ==
  /\ phase = "write"
  /\ configs' = Append(configs, VmConfig(Len(configs) + 1))
  /\ phase' = IF Len(configs) + 1 = vmCount THEN "manifest" ELSE "write"
  /\ UNCHANGED <<specs, manifest, rows>>

\* Mutant of WriteFails: a VM without an image is left to the script.
WriteFailsOn ==
  /\ phase = "write"
  /\ phase' = "manifest"
  /\ UNCHANGED <<specs, configs, manifest, rows>>

\* The disk is full, or the base image missing.
WriteFails ==
  /\ phase = "write"
  /\ phase' = "raised"
  /\ UNCHANGED <<specs, configs, manifest, rows>>

WriteManifest ==
  /\ phase = "manifest"
  /\ manifest' = TRUE
  /\ phase' = "place"
  /\ UNCHANGED <<specs, configs, rows>>

\* One agent of the manifest becomes a row of agent-list.tsv.
PlaceVm ==
  /\ phase = "place"
  /\ rows' = Append(rows, Placement(Len(rows)))
  /\ phase' = IF Len(rows) + 1 = vmCount THEN "placed" ELSE "place"
  /\ UNCHANGED <<specs, configs, manifest>>

PlanNext ==
  /\ UNCHANGED pointVars
  /\ PlanVm \/ WriteVm \/ WriteFails \/ WriteManifest \/ PlaceVm

PlanSpec == PlanInit /\ [][PlanNext]_planVars

-----------------------------------------------------------------------------
\* On the bridge, 172.16.0.1/16, every VM has an address of its own that can be
\* given to a host, and none has the bridge's.
GuestAddressesUnique ==
  /\ Cardinality({ specs[m] : m \in DOMAIN specs }) = Len(specs)
  /\ \A m \in DOMAIN specs : specs[m][1] <= 255 /\ specs[m][2] \in 10..254

\* VMs are isolated machines of one bridge, which tells them by their MAC.
MacsUnique == Cardinality({ configs[m].mac : m \in DOMAIN configs }) = Len(configs)

\* The manifest that the script starts from never names a VM without an image and
\* a configuration with the address it was given, and its VMs have exactly the
\* agents of the point, divided as sweep.py plans it.
ManifestIsWhole ==
  manifest =>
    /\ Len(specs) = vmCount /\ [m \in DOMAIN configs |-> configs[m].ip] = specs
    /\ SumFunction([m \in DOMAIN configs |-> configs[m].tasks]) = agents
    /\ Range(configs) # {} /\ SweepPoint = [vm_count |-> Len(configs),
                                           tasks_per_vm |-> configs[1].tasks]

\* How often the VMs placed so far use a CPU, those of one node or all.
Load(cpu, node) ==
  SumFunction([m \in DOMAIN rows |->
    IF rows[m].node # node THEN 0
    ELSE LET cpus == ExpandCpuList(rows[m].cpus)
         IN Cardinality({ n \in DOMAIN cpus : cpus[n] = cpu })])

CpusOf(node) == IF node = 0 THEN 0..(HostCpus - 1) ELSE Range(NumaNodes[node])

\* A VM is pinned to as many CPUs as it has vCPUs, or to all there are, of the
\* node its memory is bound to, and no CPU is used twice more while another of its node has a turn
\* to take: neighbours share CPUs only when the node is full.
PinningIsFair ==
  /\ \A m \in DOMAIN rows :
       /\ Len(ExpandCpuList(rows[m].cpus)) = VcpuCount
       /\ Range(ExpandCpuList(rows[m].cpus)) \subseteq CpusOf(rows[m].node)
       /\ Cardinality(Range(ExpandCpuList(rows[m].cpus)))
            = Min({VcpuCount, Cardinality(CpusOf(rows[m].node))})
  /\ \A node \in { rows[m].node : m \in DOMAIN rows } :
       LET loads == { Load(cpu, node) : cpu \in CpusOf(node) }
       IN Max(loads) <= Min(loads) + 1

=============================================================================
