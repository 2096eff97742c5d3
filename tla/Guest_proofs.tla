----------------------------- MODULE Guest_proofs -----------------------------
(***************************************************************************)
(* Theorems about the machines of the framework and what runs in them.     *)
(*   VmPlan: the addresses of any number of VMs are all different, a       *)
(*     manifest stands for a whole plan, and the CPUs of a node are used   *)
(*     alike.                                                              *)
(*   GuestAgent: what a result.json and the aligned table say of any       *)
(*     number of VMs, wherever the deadline catches them.                  *)
(*   MemoryBurner: what the total says of any number of threads.           *)
(*   GuestWorker: what a verified result.json says of the patch, and that  *)
(*     every step of the worker is a step of the guest FirecrackerTeam     *)
(*     reckons with, or leaves that guest alone.                           *)
(***************************************************************************)
EXTENDS GuestAgent, GuestWorker, MemoryBurner, VmPlan, Counting, TLAPS

-----------------------------------------------------------------------------
\* The plan of a point.
\* An address depends on the index alone, and one that would leave its octet ends
\* the plan.
SpecsInv ==
  /\ specs \in Seq(Int \X Int)
  /\ \A m \in DOMAIN specs : specs[m] = GuestIp(m - 1) /\ specs[m][1] <= 255

\* Hosts are counted in base 245: the two octets tell the index.
LEMMA GuestIpFacts ==
  ASSUME NEW i \in Nat
  PROVE  /\ GuestIp(i) \in Int \X Int /\ GuestIp(i)[2] \in 10..254
         /\ \A j \in Nat : GuestIp(i) = GuestIp(j) => i = j
<1>1. ThirdOctet \in Int
  BY PlanAssumption
<1>2. \A k \in Nat : k = 245 * (k \div 245) + (k % 245) /\ k % 245 \in 0..244 /\ k \div 245 \in Int
  OBVIOUS
<1>3. GuestIp(i) \in Int \X Int /\ GuestIp(i)[2] \in 10..254
  BY <1>1, <1>2 DEF GuestIp
<1>4. ASSUME NEW j \in Nat, GuestIp(i) = GuestIp(j)
      PROVE  i = j
  <2>1. ThirdOctet + i \div 245 = ThirdOctet + j \div 245 /\ 10 + (i % 245) = 10 + (j % 245)
    BY <1>4 DEF GuestIp
  <2>2. i \div 245 = j \div 245 /\ i % 245 = j % 245
    BY <1>1, <1>2, <2>1
  <2>3. QED
    BY <1>2, <2>2
<1>5. QED
  BY <1>3, <1>4

LEMMA SpecsInit == PlanInit => SpecsInv
BY DEF PlanInit, SpecsInv

\* Only PlanVm touches the specs.
LEMMA SpecsStep == SpecsInv /\ [PlanNext]_planVars => SpecsInv'
<1> SUFFICES ASSUME SpecsInv, [PlanNext]_planVars PROVE SpecsInv'
  OBVIOUS
<1>1. CASE UNCHANGED specs
  BY <1>1 DEF SpecsInv
<1>2. CASE specs' # specs
  <2>1. PlanVm
    BY <1>2 DEF PlanNext, planVars, WriteVm, WriteFails, WriteManifest, PlaceVm
  <2>2. specs' = Append(specs, GuestIp(Len(specs))) /\ ~(GuestIp(Len(specs))[1] > 255)
    BY <1>2, <2>1 DEF PlanVm
  <2>3. Len(specs) \in Nat /\ DOMAIN specs = 1..Len(specs)
    BY DEF SpecsInv
  <2>4. GuestIp(Len(specs)) \in Int \X Int
    BY <2>3, GuestIpFacts
  <2>5. specs' \in Seq(Int \X Int) /\ DOMAIN specs' = 1..(Len(specs) + 1)
    BY <2>2, <2>3, <2>4 DEF SpecsInv
  <2>6. ASSUME NEW m \in DOMAIN specs' PROVE specs'[m] = GuestIp(m - 1) /\ specs'[m][1] <= 255
    <3>1. CASE m \in DOMAIN specs
      BY <2>2, <2>3, <3>1 DEF SpecsInv
    <3>2. CASE m = Len(specs) + 1
      <4>1. specs'[m] = GuestIp(Len(specs)) /\ m - 1 = Len(specs)
        BY <2>2, <2>3, <3>2 DEF SpecsInv
      <4>2. GuestIp(Len(specs))[1] \in Int
        BY <2>4
      <4>3. QED
        BY <2>2, <4>1, <4>2
    <3>3. QED
      BY <2>3, <2>5, <2>6, <3>1, <3>2
  <2>7. QED
    BY <2>5, <2>6 DEF SpecsInv
<1>3. QED
  BY <1>1, <1>2

\* So many addresses as there are specs: from positions to addresses is a bijection.
LEMMA AddressesCount ==
  ASSUME SpecsInv
  PROVE  Cardinality({ specs[m] : m \in DOMAIN specs }) = Len(specs)
<1> DEFINE S == DOMAIN specs
           T == { specs[m] : m \in DOMAIN specs }
           f == [m \in S |-> specs[m]]
<1>1. S = 1..Len(specs) /\ Len(specs) \in Nat
  BY DEF SpecsInv
<1>2. \A m, n \in S : f[m] = f[n] => m = n
  <2> SUFFICES ASSUME NEW m \in S, NEW n \in S, f[m] = f[n] PROVE m = n
    OBVIOUS
  <2>1. m - 1 \in Nat /\ n - 1 \in Nat /\ m \in Nat /\ n \in Nat
    BY <1>1
  <2>2. GuestIp(m - 1) = GuestIp(n - 1)
    BY DEF SpecsInv
  <2>3. m - 1 = n - 1
    BY <2>1, <2>2, GuestIpFacts
  <2>4. QED
    BY <2>1, <2>3
<1>3. f \in Bijection(S, T)
  BY <1>2 DEF Bijection, Injection, Surjection, IsInjective
<1>4. IsFiniteSet(S) /\ Cardinality(S) = Len(specs)
  <2>1. IsFiniteSet(1..Len(specs)) /\ Cardinality(1..Len(specs)) = IF 1 > Len(specs) THEN 0 ELSE Len(specs) - 1 + 1
    BY <1>1, FS_Interval
  <2>2. QED
    BY <1>1, <2>1
<1>5. Cardinality(T) = Cardinality(S)
  BY <1>3, <1>4, FS_Bijection DEF ExistsBijection
<1>6. QED
  BY <1>4, <1>5

\* Any two VMs of a plan have different addresses, none of them a network's, a
\* broadcast's or the bridge's (_guest_ip_for_index and the check of its octet).
THEOREM AddressesUnique == PlanSpec => []GuestAddressesUnique
<1>1. SpecsInv => GuestAddressesUnique
  <2> SUFFICES ASSUME SpecsInv, NEW m \in DOMAIN specs
               PROVE  specs[m][1] <= 255 /\ specs[m][2] \in 10..254
    BY AddressesCount DEF GuestAddressesUnique
  <2>1. m - 1 \in Nat
    BY DEF SpecsInv
  <2>2. QED
    BY <2>1, GuestIpFacts DEF SpecsInv
<1>2. QED
  BY <1>1, SpecsInit, SpecsStep, PTL DEF PlanSpec

-----------------------------------------------------------------------------
\* What the point and its limit are.
LEMMA PointFacts ==
  ASSUME agents \in AgentCounts, limit \in Limits
  PROVE  /\ agents \in Nat \ {0} /\ limit \in Nat \ {0}
         /\ Most \in 1..limit /\ Most <= agents
BY PlanAssumption DEF Most

\* plan_point always finds a number of tasks: the largest that divides the agents.
LEMMA PlannedTasksDivide ==
  ASSUME agents \in AgentCounts, limit \in Limits
  PROVE  /\ PlannedTasks \in 1..Most /\ agents % PlannedTasks = 0
         /\ \A m \in (PlannedTasks + 1)..Most : agents % m # 0
<1> DEFINE Fits(n) == agents % n = 0 /\ \A m \in (n + 1)..Most : agents % m # 0
           Divisors == { n \in 1..Most : agents % n = 0 }
<1>1. agents \in Nat \ {0} /\ Most \in Nat \ {0}
  BY PointFacts
<1>2. \E n \in 1..Most : Fits(n)
  <2> DEFINE Gaps == { Most - n : n \in Divisors }
  <2>1. Most - 1 \in Gaps
    <3>1. agents % 1 = 0
      BY <1>1
    <3>2. 1 \in Divisors
      BY <1>1, <3>1
    <3>3. QED
      BY <3>2
  <2>2. Gaps \subseteq Nat
    BY <1>1
  <2>3. PICK gap \in Gaps : \A g \in Gaps : ~(g < gap)
    <3>1. IsWellFoundedOn(OpToRel(<, Nat), Nat) /\ Gaps # {}
      BY <2>1, NatLessThanWellFounded
    <3>2. PICK x \in Gaps : \A y \in Gaps : ~(<<y, x>> \in OpToRel(<, Nat))
      <4> HIDE DEF Gaps
      <4> QED BY <2>2, <3>1, WFMin
    <3>3. QED
      <4> HIDE DEF Gaps
      <4> QED BY <2>2, <3>2 DEF OpToRel
  <2>4. PICK n \in Divisors : gap = Most - n
    BY <2>3
  <2>5. ASSUME NEW m \in (n + 1)..Most PROVE agents % m # 0
    <3>1. m \in 1..Most /\ Most - m < gap
      BY <1>1, <2>4, <2>5
    <3>2. Most - m \notin Gaps
      BY <2>3, <3>1
    <3>3. m \notin Divisors
      BY <3>2
    <3>4. QED
      BY <3>1, <3>3
  <2>6. QED
    BY <2>4, <2>5
<1>3. PlannedTasks = CHOOSE n \in 1..Most : Fits(n)
  BY DEF PlannedTasks
<1>4. PlannedTasks \in 1..Most /\ Fits(PlannedTasks)
  <2> HIDE DEF Fits
  <2> QED BY <1>2, <1>3
<1>5. QED
  BY <1>4

\* The VMs have the agents of the point between them, and there is one at least.
LEMMA PointDivided ==
  ASSUME agents \in AgentCounts, limit \in Limits
  PROVE  /\ PlannedTasks \in Nat \ {0} /\ vmCount \in Nat \ {0}
         /\ agents = PlannedTasks * vmCount
<1>1. /\ agents \in Nat \ {0} /\ Most \in Nat /\ PlannedTasks \in 1..Most
      /\ agents % PlannedTasks = 0
  BY PointFacts, PlannedTasksDivide
<1> DEFINE p == PlannedTasks
<1>2. p \in Nat \ {0}
  BY <1>1
<1>3. agents = p * (agents \div p) /\ agents \div p \in Nat
  <2> HIDE DEF p
  <2>1. agents % p = 0
    BY <1>1 DEF p
  <2>2. agents = p * (agents \div p) + (agents % p) /\ agents \div p \in Nat
    BY <1>1, <1>2, Division
  <2>3. p * (agents \div p) \in Nat
    BY <1>2, <2>2
  <2>4. QED
    BY <2>1, <2>2, <2>3
<1>4. agents \div p # 0
  <2> HIDE DEF p
  <2> QED BY <1>1, <1>2, <1>3
<1>5. QED
  BY <1>2, <1>3, <1>4 DEF vmCount

\* The script and sweep.py plan the same point alike.
LEMMA SweepPointAgrees ==
  ASSUME agents \in AgentCounts, limit \in Limits
  PROVE  SweepPoint = [vm_count |-> vmCount, tasks_per_vm |-> PlannedTasks]
<1> DEFINE S == { n \in 1..Min({limit, agents}) : agents % n = 0 }
<1>1. /\ agents \in Nat \ {0} /\ limit \in Nat \ {0} /\ Most \in Nat
      /\ PlannedTasks \in 1..Most /\ agents % PlannedTasks = 0
      /\ \A m \in (PlannedTasks + 1)..Most : agents % m # 0
  BY PointFacts, PlannedTasksDivide
<1>2. Min({limit, agents}) = Most
  <2>1. Most \in {limit, agents} /\ \A y \in {limit, agents} : Most =< y
    BY <1>1 DEF Most
  <2>2. \A x \in {limit, agents} : (\A y \in {limit, agents} : x =< y) => x = Most
    BY <1>1, <2>1
  <2>3. QED
    BY <2>1, <2>2 DEF Min
<1>3. PlannedTasks \in S /\ \A y \in S : PlannedTasks >= y
  <2>1. PlannedTasks \in S
    BY <1>1, <1>2
  <2>2. ASSUME NEW y \in S PROVE PlannedTasks >= y
    <3>1. y \in 1..Most /\ agents % y = 0 /\ PlannedTasks \in Nat
      BY <1>1, <1>2
    <3>2. y \notin (PlannedTasks + 1)..Most
      BY <1>1, <3>1
    <3>3. QED
      BY <1>1, <3>1, <3>2
  <2>3. QED
    BY <2>1, <2>2
<1>4. \A x \in S : (\A y \in S : x >= y) => x = PlannedTasks
  <2>1. S \subseteq Nat
    BY <1>1, <1>2
  <2>2. QED
    <3> HIDE DEF S
    <3> QED BY <1>3, <2>1
<1>5. Max(S) = PlannedTasks
  <2> HIDE DEF S
  <2> QED BY <1>3, <1>4 DEF Max
<1>6. QED
  BY <1>5 DEF SweepPoint, vmCount

-----------------------------------------------------------------------------
Configs == [ip : Int \X Int, mac : { StableMac(n) : n \in Nat }, tasks : Nat]

\* How far the plan is by its phase, and what each configuration was made from.
ManifestInv ==
  /\ agents \in AgentCounts /\ limit \in Limits
  /\ configs \in Seq(Configs)
  /\ phase \in {"plan", "write", "manifest", "place", "placed", "raised"}
  /\ phase = "plan" => Len(specs) < vmCount
  /\ phase \in {"write", "manifest", "place", "placed"} => Len(specs) = vmCount
  /\ phase = "plan" => configs = <<>>
  /\ phase = "write" => Len(configs) < vmCount
  /\ phase \in {"manifest", "place", "placed"} => Len(configs) = vmCount
  /\ manifest => phase \in {"place", "placed"}
  /\ Len(configs) <= Len(specs)
  /\ \A m \in DOMAIN configs : configs[m].ip = specs[m] /\ configs[m].tasks = PlannedTasks

LEMMA ManifestInit == PlanInit => ManifestInv
<1> SUFFICES ASSUME PlanInit PROVE ManifestInv
  OBVIOUS
<1>1. vmCount \in Nat \ {0}
  BY PointDivided DEF PlanInit
<1>2. QED
  BY <1>1 DEF PlanInit, ManifestInv

LEMMA ManifestStep == SpecsInv /\ ManifestInv /\ [PlanNext]_planVars => ManifestInv'
<1> SUFFICES ASSUME SpecsInv, ManifestInv, [PlanNext]_planVars PROVE ManifestInv'
  OBVIOUS
<1>1. /\ vmCount \in Nat \ {0} /\ PlannedTasks \in Nat \ {0}
      /\ specs \in Seq(Int \X Int) /\ configs \in Seq(Configs)
      /\ Len(specs) \in Nat /\ DOMAIN specs = 1..Len(specs)
      /\ Len(configs) \in Nat /\ DOMAIN configs = 1..Len(configs)
  BY PointDivided DEF ManifestInv, SpecsInv
<1>2. UNCHANGED <<agents, limit>>
  BY DEF PlanNext, planVars, pointVars
<1>3. PlannedTasks' = PlannedTasks /\ vmCount' = vmCount
  BY <1>2 DEF PlannedTasks, vmCount, Most
<1>4. CASE UNCHANGED planVars
  BY <1>3, <1>4 DEF planVars, pointVars, ManifestInv
<1>5. CASE PlanVm
  <2>1. UNCHANGED <<configs, manifest>> /\ phase = "plan" /\ configs = <<>> /\ ~manifest
    BY <1>5 DEF PlanVm, ManifestInv
  <2>2. CASE UNCHANGED specs /\ phase' = "raised"
    BY <1>1, <1>2, <1>3, <2>1, <2>2 DEF ManifestInv
  <2>3. CASE /\ specs' = Append(specs, GuestIp(Len(specs)))
             /\ phase' = IF Len(specs) + 1 = vmCount THEN "write" ELSE "plan"
    <3>1. GuestIp(Len(specs)) \in Int \X Int
      BY <1>1, GuestIpFacts
    <3>2. Len(specs') = Len(specs) + 1
      BY <1>1, <2>3, <3>1, AppendProperties
    <3>3. Len(specs) < vmCount
      BY <2>1 DEF ManifestInv
    <3>4. Len(configs) = 0 /\ DOMAIN configs = {}
      BY <2>1
    <3>5. QED
      BY <1>1, <1>2, <1>3, <2>1, <2>3, <3>2, <3>3, <3>4 DEF ManifestInv
  <2>4. QED
    BY <1>5, <2>2, <2>3 DEF PlanVm
<1>6. CASE WriteVm
  <2> DEFINE k == Len(configs) + 1
  <2>1. /\ phase = "write" /\ UNCHANGED <<specs, manifest>> /\ configs' = Append(configs, VmConfig(k))
        /\ phase' = IF k = vmCount THEN "manifest" ELSE "write"
    BY <1>6 DEF WriteVm
  <2>2. Len(specs) = vmCount /\ k \in 1..Len(specs) /\ ~manifest
    BY <1>1, <2>1 DEF ManifestInv
  <2>3. VmConfig(k) \in Configs /\ VmConfig(k).ip = specs[k] /\ VmConfig(k).tasks = PlannedTasks
    <3>1. VmConfig(k) = [ip |-> specs[k], mac |-> StableMac(k - 1), tasks |-> PlannedTasks]
      BY DEF VmConfig
    <3>2. specs[k] \in Int \X Int /\ k - 1 \in Nat /\ PlannedTasks \in Nat
      BY <1>1, <2>2
    <3>3. StableMac(k - 1) \in { StableMac(n) : n \in Nat }
      BY <3>2
    <3>4. QED
      <4> HIDE DEF k
      <4> QED BY <3>1, <3>2, <3>3 DEF Configs
  <2>4. /\ configs' \in Seq(Configs) /\ Len(configs') = k /\ DOMAIN configs' = 1..k
        /\ configs'[k] = VmConfig(k) /\ \A m \in DOMAIN configs : configs'[m] = configs[m]
    <3>1. /\ configs' \in Seq(Configs) /\ Len(configs') = k
          /\ configs'[k] = VmConfig(k) /\ \A m \in 1..Len(configs) : configs'[m] = configs[m]
      BY <1>1, <2>1, <2>3, AppendProperties
    <3>2. QED
      BY <1>1, <3>1, LenProperties
  <2>5. ASSUME NEW m \in DOMAIN configs'
        PROVE  configs'[m].ip = specs[m] /\ configs'[m].tasks = PlannedTasks
    <3>1. CASE m = k
      BY <2>3, <2>4, <3>1
    <3>2. CASE m \in DOMAIN configs
      BY <2>4, <3>2 DEF ManifestInv
    <3>3. QED
      BY <1>1, <2>4, <3>1, <3>2
  <2>6. QED
    BY <1>1, <1>2, <1>3, <2>1, <2>2, <2>4, <2>5 DEF ManifestInv
<1>7. CASE WriteFails \/ WriteManifest \/ PlaceVm
  BY <1>2, <1>3, <1>7 DEF WriteFails, WriteManifest, PlaceVm, ManifestInv
<1>8. QED
  BY <1>4, <1>5, <1>6, <1>7 DEF PlanNext

\* The manifest is there only when each VM of the point has its address, image and
\* configuration, and the tasks of all of them are the agents of the point.
THEOREM ManifestWhole == PlanSpec => []ManifestIsWhole
<1>1. SpecsInv /\ ManifestInv => ManifestIsWhole
  <2> SUFFICES ASSUME SpecsInv, ManifestInv, manifest PROVE ManifestIsWhole
    BY DEF ManifestIsWhole
  <2> DEFINE shares == [m \in DOMAIN configs |-> configs[m].tasks]
  <2>1. /\ PlannedTasks \in Nat \ {0} /\ vmCount \in Nat \ {0}
        /\ agents = PlannedTasks * vmCount
    BY PointDivided DEF ManifestInv
  <2>2. /\ Len(specs) = vmCount /\ Len(configs) = vmCount
        /\ DOMAIN configs = 1..vmCount /\ DOMAIN specs = 1..vmCount
        /\ specs \in Seq(Int \X Int)
    BY DEF ManifestInv, SpecsInv
  <2>3. \A m \in 1..vmCount : configs[m].ip = specs[m] /\ configs[m].tasks = PlannedTasks
    BY <2>2 DEF ManifestInv
  <2>4. [m \in DOMAIN configs |-> configs[m].ip] = specs
    <3>1. specs = [m \in 1..vmCount |-> specs[m]]
      BY <2>2
    <3>2. QED
      BY <2>2, <2>3, <3>1
  <2>5. SumFunction(shares) = agents
    <3>1. IsFiniteSet(1..vmCount) /\ Cardinality(1..vmCount) = vmCount
      BY <2>1, IntervalCount
    <3>2. \A m \in 1..vmCount : shares[m] = PlannedTasks
      BY <2>2, <2>3
    <3>3. DOMAIN shares = 1..vmCount
      BY <2>2
    <3>4. SumFunctionOnSet(shares, 1..vmCount) = PlannedTasks * Cardinality(1..vmCount)
      <4>1. PlannedTasks \in Int
        BY <2>1
      <4>2. QED
        <5> HIDE DEF shares
        <5> QED BY <3>1, <3>2, <4>1, SumConstant
    <3>5. QED
      <4> HIDE DEF shares
      <4> QED BY <2>1, <3>1, <3>3, <3>4 DEF SumFunction
  <2>6. 1 \in DOMAIN configs /\ configs[1].tasks = PlannedTasks
    <3>1. 1 \in 1..vmCount
      BY <2>1
    <3>2. QED
      BY <2>2, <2>3, <3>1
  <2>7. Range(configs) # {}
    BY <2>6 DEF Range
  <2>8. SweepPoint = [vm_count |-> Len(configs), tasks_per_vm |-> configs[1].tasks]
    BY <2>2, <2>6, SweepPointAgrees DEF ManifestInv
  <2>9. QED
    BY <2>2, <2>4, <2>5, <2>7, <2>8 DEF ManifestIsWhole
<1>2. SpecsInv /\ ManifestInv /\ [PlanNext]_planVars => (SpecsInv /\ ManifestInv)'
  BY SpecsStep, ManifestStep
<1>3. QED
  BY <1>1, <1>2, SpecsInit, ManifestInit, PTL DEF PlanSpec

-----------------------------------------------------------------------------
\* CPU lists as ranges.  One CPU more extends the last range or begins another.
OneCpuMore(cpus, before, n) ==
  IF n > 1 /\ cpus[n] = cpus[n - 1] + 1
  THEN [before EXCEPT ![Len(before)] = <<@[1], cpus[n]>>]
  ELSE Append(before, <<cpus[n], cpus[n]>>)

RangesUpTo(cpus, f, N) ==
  f = [n \in 0..N |-> IF n = 0 THEN <<>> ELSE OneCpuMore(cpus, f[n - 1], n)]

ExpandedUpTo(ranges, e, N) ==
  e = [n \in 0..N |-> IF n = 0 THEN <<>> ELSE e[n - 1] \o CpuRange(ranges[n])]

\* The two conversions are the functions so defined.
LEMMA FormatIs ==
  ASSUME NEW cpus
  PROVE  FormatCpuList(cpus) = (CHOOSE f : RangesUpTo(cpus, f, Len(cpus)))[Len(cpus)]
BY DEF FormatCpuList, RangesUpTo, OneCpuMore

LEMMA ExpandIs ==
  ASSUME NEW ranges
  PROVE  ExpandCpuList(ranges) = (CHOOSE e : ExpandedUpTo(ranges, e, Len(ranges)))[Len(ranges)]
BY DEF ExpandCpuList, ExpandedUpTo

\* There is such a function for every list.
LEMMA RangesExist ==
  ASSUME NEW cpus, NEW N \in Nat
  PROVE  \E f : RangesUpTo(cpus, f, N)
<1> DEFINE B == { n \in Nat : ~ \E f : RangesUpTo(cpus, f, n) }
<1>1. SUFFICES ASSUME B # {} PROVE FALSE
  OBVIOUS
<1>2. PICK n \in B : \A m \in B : n <= m
  <2>1. B \in SUBSET Nat
    OBVIOUS
  <2>2. QED
    <3> HIDE DEF B
    <3> QED BY <1>1, <2>1, LeastNatural
<1>3. n \in Nat /\ ~ \E f : RangesUpTo(cpus, f, n)
  OBVIOUS
<1>4. n # 0
  <2> DEFINE f == [m \in 0..0 |-> <<>>]
  <2>1. \A m \in 0..0 : f[m] = IF m = 0 THEN <<>> ELSE OneCpuMore(cpus, f[m - 1], m)
    OBVIOUS
  <2>2. f = [m \in 0..0 |-> IF m = 0 THEN <<>> ELSE OneCpuMore(cpus, f[m - 1], m)]
    OBVIOUS
  <2>3. RangesUpTo(cpus, f, 0)
    <3> HIDE DEF f
    <3> QED BY <2>2 DEF RangesUpTo
  <2>4. QED
    BY <1>3, <2>3
<1> DEFINE u == n - 1
<1>5. u \in Nat /\ n = u + 1 /\ u \notin B
  <2>1. u \in Nat /\ n = u + 1 /\ ~(n <= u)
    BY <1>3, <1>4
  <2>2. QED
    <3> HIDE DEF B, u
    <3> QED BY <1>2, <2>1
<1>6. PICK f : RangesUpTo(cpus, f, u)
  BY <1>5
<1> DEFINE g == [m \in 0..n |-> IF m = n THEN OneCpuMore(cpus, f[u], n) ELSE f[m]]
<1>7. \A m \in 0..n : g[m] = IF m = 0 THEN <<>> ELSE OneCpuMore(cpus, g[m - 1], m)
  <2> SUFFICES ASSUME NEW m \in 0..n
               PROVE  g[m] = IF m = 0 THEN <<>> ELSE OneCpuMore(cpus, g[m - 1], m)
    OBVIOUS
  <2>1. CASE m = n
    <3>1. g[m] = OneCpuMore(cpus, f[u], n)
      BY <2>1
    <3>2. n - 1 \in 0..n /\ n - 1 # n /\ n # 0 /\ n - 1 = u
      BY <1>5
    <3>3. g[n - 1] = f[u]
      <4> HIDE DEF u
      <4> QED BY <3>2
    <3>4. QED
      <4> HIDE DEF g, u
      <4> QED BY <2>1, <3>1, <3>2, <3>3
  <2>2. CASE m # n
    <3>1. m \in 0..u
      BY <1>5, <2>2
    <3>2. f[m] = IF m = 0 THEN <<>> ELSE OneCpuMore(cpus, f[m - 1], m)
      <4> HIDE DEF u
      <4> QED BY <1>6, <3>1 DEF RangesUpTo
    <3>3. g[m] = f[m]
      BY <2>2
    <3>4. m # 0 => g[m - 1] = f[m - 1]
      <4>1. m # 0 => m - 1 \in 0..n /\ m - 1 # n
        BY <1>5
      <4>2. QED
        BY <4>1
    <3>5. QED
      <4> HIDE DEF g, u
      <4> QED BY <3>2, <3>3, <3>4
  <2>3. QED
    <3> HIDE DEF g
    <3> QED BY <2>1, <2>2
<1>8. RangesUpTo(cpus, g, n)
  <2>1. DOMAIN g = 0..n /\ g = [m \in 0..n |-> g[m]]
    OBVIOUS
  <2>2. QED
    <3> HIDE DEF g
    <3>1. [m \in 0..n |-> g[m]]
            = [m \in 0..n |-> IF m = 0 THEN <<>> ELSE OneCpuMore(cpus, g[m - 1], m)]
      BY <1>7
    <3>2. QED
      BY <2>1, <3>1 DEF RangesUpTo
<1>9. QED
  BY <1>3, <1>8

\* The ranges divide the first n CPUs into blocks of consecutive numbers; block k
\* goes from behind b[k - 1] to b[k].
Blocks(cpus, b, ranges, n) ==
  /\ b \in [0..Len(ranges) -> 0..n] /\ b[0] = 0 /\ b[Len(ranges)] = n
  /\ \A k \in 1..Len(ranges) :
       /\ b[k - 1] < b[k]
       /\ ranges[k][2] - ranges[k][1] + 1 = b[k] - b[k - 1]
       /\ \A i \in 1..(b[k] - b[k - 1]) : cpus[b[k - 1] + i] = ranges[k][1] + i - 1

RangesTell(cpus, ranges, n) ==
  /\ ranges \in Seq(Nat \X Nat)
  /\ n > 0 => Len(ranges) > 0 /\ ranges[Len(ranges)][2] = cpus[n]
  /\ \E b : Blocks(cpus, b, ranges, n)

\* A CPU more keeps the division.
LEMMA RangesStep ==
  ASSUME NEW cpus \in Seq(Nat), NEW n \in Nat, n < Len(cpus), NEW r, RangesTell(cpus, r, n)
  PROVE  RangesTell(cpus, OneCpuMore(cpus, r, n + 1), n + 1)
<1> DEFINE L == Len(r)
           x == cpus[n + 1]
<1>1. r \in Seq(Nat \X Nat) /\ L \in Nat /\ x \in Nat /\ (n > 0 => L > 0 /\ r[L][2] = cpus[n])
      /\ \A k \in 1..L : r[k] \in Nat \X Nat
  BY DEF RangesTell
<1>2. PICK b : Blocks(cpus, b, r, n)
  BY DEF RangesTell
<1>3. /\ b \in [0..L -> 0..n] /\ b[0] = 0 /\ b[L] = n
      /\ \A k \in 0..L : b[k] \in Nat /\ b[k] <= n
      /\ \A k \in 1..L :
           /\ b[k - 1] < b[k]
           /\ r[k][2] - r[k][1] + 1 = b[k] - b[k - 1]
           /\ \A i \in 1..(b[k] - b[k - 1]) : cpus[b[k - 1] + i] = r[k][1] + i - 1
  <2>1. /\ b \in [0..L -> 0..n] /\ b[0] = 0 /\ b[L] = n
        /\ \A k \in 1..L :
             /\ b[k - 1] < b[k]
             /\ r[k][2] - r[k][1] + 1 = b[k] - b[k - 1]
             /\ \A i \in 1..(b[k] - b[k - 1]) : cpus[b[k - 1] + i] = r[k][1] + i - 1
    BY <1>2 DEF Blocks
  <2>2. \A k \in 0..L : b[k] \in Nat /\ b[k] <= n
    <3> HIDE DEF L
    <3>1. \A k \in 0..L : b[k] \in 0..n
      BY <2>1
    <3>2. QED
      BY <3>1
  <2>3. QED
    <3> HIDE DEF L
    <3> QED BY <2>1, <2>2
<1> DEFINE r2 == OneCpuMore(cpus, r, n + 1)
<1>4. CASE n + 1 > 1 /\ x = cpus[n] + 1
  <2>1. n > 0 /\ L \in 1..L /\ L - 1 \in 0..L /\ (n + 1) - 1 = n
    BY <1>1, <1>4
  <2> DEFINE last == <<r[L][1], x>>
             b2 == [b EXCEPT ![L] = n + 1]
  <2>2. r2 = [r EXCEPT ![L] = last]
    BY <1>4, <2>1 DEF OneCpuMore
  <2>3. last \in Nat \X Nat /\ r[L] \in Nat \X Nat
    BY <1>1, <2>1
  <2>4. /\ r2 \in Seq(Nat \X Nat) /\ Len(r2) = L /\ r2[L] = last
        /\ \A k \in 1..L : k # L => r2[k] = r[k]
    <3> HIDE DEF last, r2
    <3> QED BY <1>1, <2>1, <2>2, <2>3, ExceptSeq
  <2>5. /\ \A k \in 0..L : k # L => b2[k] = b[k]
        /\ b2[L] = n + 1 /\ b2 \in [0..L -> 0..(n + 1)] /\ b2[0] = 0
    <3>1. \A k \in 0..L : b[k] \in 0..(n + 1)
      BY <1>3
    <3>2. L # 0
      BY <2>1
    <3>3. QED
      <4> HIDE DEF L
      <4> QED BY <1>3, <2>1, <3>1, <3>2
  <2>6. ASSUME NEW k \in 1..L
        PROVE  /\ b2[k - 1] < b2[k]
               /\ r2[k][2] - r2[k][1] + 1 = b2[k] - b2[k - 1]
               /\ \A i \in 1..(b2[k] - b2[k - 1]) : cpus[b2[k - 1] + i] = r2[k][1] + i - 1
    <3>0. k - 1 \in 0..L /\ k - 1 # L /\ k \in 0..L
      <4> HIDE DEF L, x, b2, r2, last
      <4>1. L \in Nat
        BY <1>1
      <4>2. QED
        BY <4>1
    <3>1. b2[k - 1] = b[k - 1]
      <4> HIDE DEF b2, L
      <4> QED BY <2>5, <3>0
    <3>2. CASE k # L
      <4>1. b2[k] = b[k] /\ r2[k] = r[k]
        <5> HIDE DEF b2, L, r2
        <5> QED BY <2>4, <2>5, <3>0, <3>2
      <4>2. QED
        <5> HIDE DEF b2, L, r2
        <5> QED BY <1>3, <3>1, <4>1
    <3>3. CASE k = L
      <4> DEFINE a == b[k - 1]
                 s == r[L][1]
      <4>1. /\ a \in Nat /\ s \in Nat /\ a < n /\ cpus[n] - s + 1 = n - a /\ cpus[n] \in Nat
            /\ \A i \in 1..(n - a) : cpus[a + i] = s + i - 1
        <5>1. b[k] = n /\ r[L][2] = cpus[n]
          BY <1>1, <1>3, <2>1, <3>3
        <5>2. a \in Nat /\ s \in Nat /\ cpus[n] \in Nat
          <6>1. a \in Nat
            BY <1>3, <3>0
          <6>2. s \in Nat
            BY <2>3
          <6>3. n \in 1..Len(cpus)
            BY <2>1
          <6>4. QED
            BY <6>1, <6>2, <6>3
        <5>3. QED
          <6> HIDE DEF L
          <6> QED BY <1>3, <3>3, <5>1, <5>2
      <4>2. b2[k] = n + 1 /\ r2[k][1] = s /\ r2[k][2] = x /\ b2[k - 1] = a
        <5>1. b2[k] = n + 1 /\ r2[k] = last
          <6> HIDE DEF b2, L, r2, last
          <6> QED BY <2>4, <2>5, <3>3
        <5>2. QED
          BY <3>1, <5>1
      <4>3. x = s + (n - a)
        <5> HIDE DEF a, s, x, b2, r2, last, L
        <5>1. a \in Nat /\ s \in Nat /\ cpus[n] - s + 1 = n - a /\ cpus[n] \in Nat
          BY <4>1
        <5>2. x = cpus[n] + 1
          BY <1>4
        <5>3. QED
          BY <5>1, <5>2
      <4>4. \A i \in 1..(n + 1 - a) : cpus[a + i] = s + i - 1
        <5> SUFFICES ASSUME NEW i \in 1..(n + 1 - a) PROVE cpus[a + i] = s + i - 1
          OBVIOUS
        <5>1. CASE i \in 1..(n - a)
          BY <4>1, <5>1
        <5>2. CASE i = n + 1 - a
          <6>1. a + i = n + 1 /\ s + i - 1 = s + (n - a)
            <7> HIDE DEF a, s
            <7> QED BY <4>1, <5>2
          <6>2. QED
            <7> HIDE DEF a, s
            <7> QED BY <4>3, <6>1
        <5>3. i \in 1..(n - a) \/ i = n + 1 - a
          <6> HIDE DEF a, s
          <6> QED BY <4>1
        <5>4. QED
          BY <5>1, <5>2, <5>3
      <4>5. QED
        <5> HIDE DEF a, s, b2, r2, x, L, last
        <5>0. a \in Nat /\ s \in Nat /\ x \in Nat
          BY <1>1, <4>1
        <5>1. a < n + 1 /\ x - s + 1 = n + 1 - a
          BY <4>1, <4>3
        <5>2. b2[k - 1] < b2[k]
          BY <4>2, <5>1
        <5>3. r2[k][2] - r2[k][1] + 1 = b2[k] - b2[k - 1]
          BY <4>2, <5>0, <5>1
        <5>4. \A i \in 1..(b2[k] - b2[k - 1]) : cpus[b2[k - 1] + i] = r2[k][1] + i - 1
          <6>1. b2[k] - b2[k - 1] = n + 1 - a /\ b2[k - 1] = a /\ r2[k][1] = s
            BY <4>2, <5>0
          <6>2. QED
            BY <4>4, <6>1, Zenon
        <5>5. QED
          BY <5>2, <5>3, <5>4
    <3>4. QED
      BY <3>2, <3>3
  <2>7. Blocks(cpus, b2, r2, n + 1)
    <3> HIDE DEF b2, r2
    <3> QED BY <2>4, <2>5, <2>6 DEF Blocks
  <2>8. r2[Len(r2)][2] = x /\ Len(r2) > 0
    <3>1. r2[Len(r2)] = last
      BY <2>4
    <3>2. QED
      BY <2>1, <2>4, <3>1
  <2>9. QED
    <3>1. RangesTell(cpus, r2, n + 1)
      <4> HIDE DEF b2, r2
      <4> QED BY <2>4, <2>7, <2>8 DEF RangesTell
    <3>2. QED
      BY <3>1
<1>5. CASE ~(n + 1 > 1 /\ x = cpus[n] + 1)
  <2> DEFINE last == <<x, x>>
             b2 == [k \in 0..(L + 1) |-> IF k = L + 1 THEN n + 1 ELSE b[k]]
  <2>1. r2 = Append(r, last)
    <3>1. (n + 1) - 1 = n
      OBVIOUS
    <3>2. QED
      BY <1>5, <3>1 DEF OneCpuMore
  <2>2. last \in Nat \X Nat
    BY <1>1
  <2>3. /\ r2 \in Seq(Nat \X Nat) /\ Len(r2) = L + 1 /\ r2[L + 1] = last
        /\ \A k \in 1..L : r2[k] = r[k]
    <3> HIDE DEF last, r2
    <3> QED BY <1>1, <2>1, <2>2, AppendProperties
  <2>4. /\ \A k \in 0..L : b2[k] = b[k]
        /\ b2[L + 1] = n + 1 /\ b2 \in [0..(L + 1) -> 0..(n + 1)] /\ b2[0] = 0
    <3>1. \A k \in 0..L : k # L + 1 /\ k \in 0..(L + 1)
      BY <1>1
    <3>2. \A k \in 0..(L + 1) : k = L + 1 \/ k \in 0..L
      BY <1>1
    <3>3. L + 1 \in 0..(L + 1) /\ 0 \in 0..L
      BY <1>1
    <3>4. \A k \in 0..L : b[k] \in 0..(n + 1)
      BY <1>3
    <3>5. \A k \in 0..(L + 1) : b2[k] \in 0..(n + 1)
      <4> HIDE DEF L
      <4> QED BY <3>2, <3>4
    <3>6. \A k \in 0..L : b2[k] = b[k]
      <4> HIDE DEF L
      <4> QED BY <3>1
    <3>7. b2[L + 1] = n + 1 /\ b2 = [k \in 0..(L + 1) |-> b2[k]]
      <4> HIDE DEF L
      <4> QED BY <3>3
    <3>8. QED
      <4> HIDE DEF b2, L
      <4> QED BY <1>3, <3>3, <3>5, <3>6, <3>7
  <2>5. ASSUME NEW k \in 1..(L + 1)
        PROVE  /\ b2[k - 1] < b2[k]
               /\ r2[k][2] - r2[k][1] + 1 = b2[k] - b2[k - 1]
               /\ \A i \in 1..(b2[k] - b2[k - 1]) : cpus[b2[k - 1] + i] = r2[k][1] + i - 1
    <3>1. k - 1 \in 0..L /\ (k \in 1..L \/ k = L + 1)
      <4> HIDE DEF L, x, b2, r2, last
      <4>1. L \in Nat
        BY <1>1
      <4>2. QED
        BY <4>1
    <3>2. b2[k - 1] = b[k - 1]
      <4> HIDE DEF b2, L
      <4> QED BY <2>4, <3>1
    <3>3. CASE k \in 1..L
      <4>1. b2[k] = b[k] /\ r2[k] = r[k]
        <5>1. k \in 0..L
          BY <3>3
        <5>2. QED
          <6> HIDE DEF b2, L, r2
          <6> QED BY <2>3, <2>4, <3>3, <5>1
      <4>2. QED
        <5> HIDE DEF b2, L, r2
        <5> QED BY <1>3, <3>2, <3>3, <4>1
    <3>4. CASE k = L + 1
      <4>1. b2[k] = n + 1 /\ b2[k - 1] = n /\ r2[k] = last
        <5>1. k - 1 = L
          BY <1>1, <3>4
        <5>2. QED
          <6> HIDE DEF b2, r2, last, L
          <6> QED BY <1>3, <2>3, <2>4, <3>2, <3>4, <5>1
      <4>2. r2[k][1] = x /\ r2[k][2] = x
        BY <4>1
      <4>3. \A i \in 1..((n + 1) - n) : cpus[n + i] = x + i - 1
        <5> SUFFICES ASSUME NEW i \in 1..((n + 1) - n) PROVE cpus[n + i] = x + i - 1
          OBVIOUS
        <5>1. i = 1
          OBVIOUS
        <5>2. x + 1 - 1 = x
          <6> HIDE DEF x
          <6> QED BY <1>1
        <5>3. QED
          BY <5>1, <5>2
      <4>4. n < n + 1 /\ x - x + 1 = (n + 1) - n
        <5> HIDE DEF x
        <5> QED BY <1>1
      <4>5. QED
        <5> HIDE DEF b2, r2, x
        <5> QED BY <4>1, <4>2, <4>3, <4>4
    <3>5. QED
      BY <3>1, <3>3, <3>4
  <2>6. Blocks(cpus, b2, r2, n + 1)
    <3> HIDE DEF b2, r2
    <3> QED BY <2>3, <2>4, <2>5 DEF Blocks
  <2>7. r2[Len(r2)][2] = x /\ Len(r2) > 0
    <3>1. r2[Len(r2)] = last
      BY <2>3
    <3>2. last[2] = x /\ Len(r2) > 0
      <4>1. last[2] = x
        OBVIOUS
      <4>2. Len(r2) > 0
        <5> HIDE DEF r2, L, last
        <5> QED BY <1>1, <2>3
      <4>3. QED
        BY <4>1, <4>2
    <3>3. QED
      <4> HIDE DEF r2, last
      <4> QED BY <3>1, <3>2
  <2>8. QED
    <3>1. RangesTell(cpus, r2, n + 1)
      <4> HIDE DEF b2, r2
      <4> QED BY <2>3, <2>6, <2>7 DEF RangesTell
    <3>2. QED
      BY <3>1
<1>6. QED
  BY <1>4, <1>5

\* format_cpu_list: its ranges tell of each CPU in its place.
LEMMA FormatTells ==
  ASSUME NEW cpus \in Seq(Nat)
  PROVE  RangesTell(cpus, FormatCpuList(cpus), Len(cpus))
<1> DEFINE N == Len(cpus)
           f == CHOOSE g : RangesUpTo(cpus, g, N)
           B == { n \in 0..N : ~RangesTell(cpus, f[n], n) }
<1>1. N \in Nat
  OBVIOUS
<1>2. RangesUpTo(cpus, f, N)
  <2>1. \E g : RangesUpTo(cpus, g, N)
    <3> HIDE DEF N
    <3> QED BY <1>1, RangesExist
  <2>2. QED
    <3> HIDE DEF N
    <3> QED BY <2>1
<1>3. FormatCpuList(cpus) = f[N]
  BY FormatIs
<1>4. \A n \in 0..N : f[n] = IF n = 0 THEN <<>> ELSE OneCpuMore(cpus, f[n - 1], n)
  <2> HIDE DEF f, N
  <2> QED BY <1>2 DEF RangesUpTo
<1>5. SUFFICES ASSUME B # {} PROVE FALSE
  <2>1. N \in 0..N /\ N \notin B => RangesTell(cpus, f[N], N)
    <3> HIDE DEF f, N
    <3> QED OBVIOUS
  <2>2. B = {} => RangesTell(cpus, f[N], N)
    <3> HIDE DEF f
    <3>1. N \in 0..N
      BY <1>1
    <3>2. QED
      BY <2>1, <3>1
  <2>3. QED
    <3>1. ASSUME RangesTell(cpus, f[N], N) PROVE RangesTell(cpus, FormatCpuList(cpus), Len(cpus))
      <4> HIDE DEF f
      <4> QED BY <1>3, <3>1
    <3>2. QED
      <4> HIDE DEF f, N, B
      <4> QED BY <2>2, <3>1
<1>6. PICK n \in B : \A m \in B : n <= m
  <2>1. B \in SUBSET Nat
    <3> HIDE DEF f, N
    <3> QED BY <1>1
  <2>2. QED
    <3> HIDE DEF B
    <3> QED BY <1>5, <2>1, LeastNatural
<1> HIDE DEF f, N
<1>7. n \in 0..N /\ n \in Nat /\ ~RangesTell(cpus, f[n], n)
  BY <1>1
<1>8. n # 0
  <2>1. f[0] = <<>>
    BY <1>1, <1>4
  <2> DEFINE b == [k \in 0..0 |-> 0]
  <2>2. Blocks(cpus, b, <<>>, 0)
    <3>1. Len(<<>>) = 0 /\ 1..0 = {}
      OBVIOUS
    <3>2. b \in [0..0 -> 0..0] /\ b[0] = 0
      OBVIOUS
    <3>3. QED
      <4> HIDE DEF b
      <4> QED BY <3>1, <3>2 DEF Blocks
  <2>3. RangesTell(cpus, <<>>, 0)
    <3> HIDE DEF b
    <3> QED BY <2>2 DEF RangesTell
  <2>4. QED
    BY <1>7, <2>1, <2>3
<1> DEFINE u == n - 1
<1>9. u \in Nat /\ n = u + 1 /\ u \in 0..N /\ u < N /\ u \notin B
  <2>1. u \in Nat /\ n = u + 1 /\ u \in 0..N /\ u < N /\ ~(n <= u)
    BY <1>1, <1>7, <1>8
  <2>2. QED
    <3> HIDE DEF B, u
    <3> QED BY <1>6, <2>1
<1>10. RangesTell(cpus, f[u], u)
  <2> HIDE DEF u
  <2> QED BY <1>9
<1>11. RangesTell(cpus, OneCpuMore(cpus, f[u], u + 1), u + 1)
  <2> HIDE DEF u
  <2> QED BY <1>9, <1>10, RangesStep DEF N
<1>12. f[n] = OneCpuMore(cpus, f[u], n)
  BY <1>4, <1>7, <1>8
<1>13. QED
  <2> HIDE DEF u
  <2> QED BY <1>7, <1>9, <1>11, <1>12

\* expand_cpu_list gives the CPUs back.
LEMMA ExpandTells ==
  ASSUME NEW cpus \in Seq(Nat), NEW ranges, RangesTell(cpus, ranges, Len(cpus))
  PROVE  ExpandCpuList(ranges) = cpus
<1> DEFINE N == Len(cpus)
           L == Len(ranges)
<1>1. N \in Nat /\ L \in Nat /\ \A i \in 1..N : cpus[i] \in Nat
  BY DEF RangesTell
<1>2. \A k \in 1..L : ranges[k][1] \in Nat /\ ranges[k][2] \in Nat
  BY DEF RangesTell
<1>3. PICK b : Blocks(cpus, b, ranges, N)
  BY DEF RangesTell
<1> DEFINE first(n) == [i \in 1..n |-> cpus[i]]
           e == [k \in 0..L |-> first(b[k])]
<1>4. /\ b \in [0..L -> 0..N] /\ b[0] = 0 /\ b[L] = N
      /\ \A k \in 1..L :
           /\ b[k - 1] < b[k]
           /\ ranges[k][2] - ranges[k][1] + 1 = b[k] - b[k - 1]
           /\ \A i \in 1..(b[k] - b[k - 1]) : cpus[b[k - 1] + i] = ranges[k][1] + i - 1
  BY <1>3 DEF Blocks
<1> HIDE DEF N, L
<1>5. ASSUME NEW n \in 0..N PROVE first(n) \in Seq(Nat) /\ Len(first(n)) = n /\ n \in Nat
  <2>1. n \in Nat /\ \A i \in 1..n : cpus[i] \in Nat
    BY <1>1
  <2>2. first(n) \in [1..n -> Nat]
    BY <2>1
  <2>3. QED
    <3> HIDE DEF first
    <3> QED BY <2>1, <2>2, FunctionIsSeq
<1>6. ASSUME NEW k \in 1..L PROVE first(b[k]) = first(b[k - 1]) \o CpuRange(ranges[k])
  <2> DEFINE m == b[k - 1]
             n == b[k]
             s == ranges[k][1]
  <2>1. k \in 0..L /\ k - 1 \in 0..L
    BY <1>1
  <2>2. /\ m \in 0..N /\ n \in 0..N /\ m < n /\ s \in Nat
        /\ ranges[k][2] - s + 1 = n - m
        /\ \A i \in 1..(n - m) : cpus[m + i] = s + i - 1
    BY <1>2, <1>4, <2>1
  <2> DEFINE more == [i \in 1..(n - m) |-> s + i - 1]
  <2>3. CpuRange(ranges[k]) = more
    BY <2>2 DEF CpuRange
  <2> HIDE DEF m, n, s
  <2>4. n - m \in Nat /\ more \in Seq(Nat) /\ Len(more) = n - m
    <3>1. n - m \in Nat /\ m \in Nat /\ n \in Nat
      BY <1>1, <2>2
    <3>2. \A i \in 1..(n - m) : s + i - 1 \in Nat
      BY <2>2, <3>1
    <3>3. more \in [1..(n - m) -> Nat]
      BY <3>2
    <3>4. QED
      <4> HIDE DEF more
      <4> QED BY <3>1, <3>3, FunctionIsSeq
  <2>5. /\ first(m) \in Seq(Nat) /\ Len(first(m)) = m /\ m \in Nat
        /\ first(n) \in Seq(Nat) /\ Len(first(n)) = n /\ n \in Nat
    <3> HIDE DEF first
    <3> QED BY <1>5, <2>2
  <2>6. /\ first(m) \o more \in Seq(Nat) /\ Len(first(m) \o more) = n
        /\ \A i \in 1..n : (first(m) \o more)[i] = IF i <= m THEN first(m)[i] ELSE more[i - m]
    <3>1. m + (n - m) = n
      BY <2>5
    <3>2. QED
      <4> HIDE DEF first, more
      <4>1. /\ first(m) \o more \in Seq(Nat)
            /\ Len(first(m) \o more) = Len(first(m)) + Len(more)
            /\ \A i \in 1..(Len(first(m)) + Len(more)) : (first(m) \o more)[i]
                  = IF i <= Len(first(m)) THEN first(m)[i] ELSE more[i - Len(first(m))]
        BY <2>4, <2>5, ConcatProperties
      <4>2. Len(first(m)) + Len(more) = n /\ Len(first(m)) = m
        BY <2>4, <2>5, <3>1
      <4>3. QED
        BY <4>1, <4>2
  <2>7. \A i \in 1..n : (first(m) \o more)[i] = first(n)[i]
    <3> SUFFICES ASSUME NEW i \in 1..n PROVE (first(m) \o more)[i] = first(n)[i]
      OBVIOUS
    <3>1. first(n)[i] = cpus[i]
      OBVIOUS
    <3>2. CASE i <= m
      <4>1. i \in 1..m
        BY <2>5, <3>2
      <4>2. first(m)[i] = cpus[i]
        BY <4>1
      <4>3. QED
        <5> HIDE DEF first, more
        <5> QED BY <2>6, <3>1, <3>2, <4>2
    <3>3. CASE ~(i <= m)
      <4> DEFINE j == i - m
      <4>1. j \in 1..(n - m) /\ m + j = i
        BY <2>5, <3>3
      <4>2. more[j] = s + j - 1
        BY <4>1
      <4>3. cpus[m + j] = s + j - 1
        <5> HIDE DEF j
        <5> QED BY <2>2, <4>1
      <4>4. (first(m) \o more)[i] = more[j]
        <5> HIDE DEF first, more
        <5> QED BY <2>6, <3>3
      <4>5. QED
        <5> HIDE DEF first, more, j
        <5> QED BY <3>1, <4>1, <4>2, <4>3, <4>4
    <3>4. QED
      BY <3>2, <3>3
  <2>8. first(m) \o more = first(n)
    <3> HIDE DEF first, more
    <3> QED BY <2>5, <2>6, <2>7, SeqEqual
  <2>9. QED
    <3> HIDE DEF first, more
    <3> QED BY <2>3, <2>8 DEF m, n
<1>7. \A k \in 0..L : e[k] = IF k = 0 THEN <<>> ELSE e[k - 1] \o CpuRange(ranges[k])
  <2> SUFFICES ASSUME NEW k \in 0..L
               PROVE  e[k] = IF k = 0 THEN <<>> ELSE e[k - 1] \o CpuRange(ranges[k])
    OBVIOUS
  <2>1. CASE k = 0
    <3>1. 1..0 = {}
      OBVIOUS
    <3>2. first(0) = <<>>
      BY <3>1
    <3>3. e[k] = first(0)
      BY <1>4, <2>1
    <3>4. QED
      BY <2>1, <3>2, <3>3
  <2>2. CASE k # 0
    <3>1. k \in 1..L /\ k - 1 \in 0..L
      BY <1>1, <2>2
    <3>2. e[k] = first(b[k]) /\ e[k - 1] = first(b[k - 1])
      BY <3>1
    <3>3. QED
      <4> HIDE DEF e, first
      <4> QED BY <1>6, <2>2, <3>1, <3>2
  <2>3. QED
    BY <2>1, <2>2
<1>8. ExpandedUpTo(ranges, e, L)
  <2>1. e = [k \in 0..L |-> e[k]]
    OBVIOUS
  <2>2. QED
    <3> HIDE DEF e
    <3>1. [k \in 0..L |-> e[k]]
            = [k \in 0..L |-> IF k = 0 THEN <<>> ELSE e[k - 1] \o CpuRange(ranges[k])]
      BY <1>7
    <3>2. QED
      BY <2>1, <3>1 DEF ExpandedUpTo
<1> DEFINE h == CHOOSE g : ExpandedUpTo(ranges, g, L)
<1>9. ExpandedUpTo(ranges, h, L) /\ ExpandCpuList(ranges) = h[L]
  <2>1. ExpandedUpTo(ranges, h, L)
    <3> HIDE DEF e
    <3> QED BY <1>8
  <2>2. QED
    BY <2>1, ExpandIs DEF L
<1> HIDE DEF h, e
<1>10. \A k \in 0..L : h[k] = e[k]
  <2> DEFINE B == { k \in 0..L : h[k] # e[k] }
  <2>1. SUFFICES ASSUME B # {} PROVE FALSE
    OBVIOUS
  <2>2. PICK k \in B : \A m \in B : k <= m
    <3>1. B \in SUBSET Nat
      BY <1>1
    <3>2. QED
      <4> HIDE DEF B
      <4> QED BY <2>1, <3>1, LeastNatural
  <2>3. k \in 0..L /\ k \in Nat /\ h[k] # e[k]
    BY <1>1
  <2>4. h[k] = IF k = 0 THEN <<>> ELSE h[k - 1] \o CpuRange(ranges[k])
    BY <1>9, <2>3 DEF ExpandedUpTo
  <2>5. k # 0
    BY <1>7, <2>3, <2>4
  <2> DEFINE j == k - 1
  <2>6. j \in 0..L /\ ~(k <= j)
    BY <1>1, <2>3, <2>5
  <2>7. h[j] = e[j]
    <3> HIDE DEF j
    <3> QED BY <2>2, <2>6
  <2>8. QED
    BY <1>7, <2>3, <2>4, <2>5, <2>7
<1>11. e[L] = cpus
  <2>1. e[L] = first(N)
    <3>1. L \in 0..L
      BY <1>1
    <3>2. QED
      BY <1>4, <3>1 DEF e
  <2>2. first(N) = cpus
    BY DEF N
  <2>3. QED
    BY <2>1, <2>2
<1>12. QED
  <2>1. L \in 0..L
    BY <1>1
  <2>2. QED
    BY <1>9, <1>10, <1>11, <2>1

\* So a row of agent-list.tsv pins a VM to the CPUs of its slice, in their order.
LEMMA PinnedAsSliced ==
  ASSUME NEW cpus \in Seq(Nat)
  PROVE  ExpandCpuList(FormatCpuList(cpus)) = cpus
BY FormatTells, ExpandTells

-----------------------------------------------------------------------------
\* Nodes from 0 as plan_vm_placement counts them; without nodes there is one, of
\* all CPUs.
Bound == BindByAgent /\ NumaNodes # <<>>

NodeCount == IF Bound THEN Len(NumaNodes) ELSE 1

NodeOf(x) == IF Bound THEN x + 1 ELSE 0

ListOf(x) == IF Bound THEN NumaNodes[x + 1] ELSE [n \in 1..HostCpus |-> n - 1]

\* Each VM is placed by its index, and the VMs of a node have taken its CPUs in turn.
PlacedInv ==
  /\ agents \in AgentCounts /\ limit \in Limits
  /\ rows \in Seq([node : Nat, cpus : { FormatCpuList(cpus) : cpus \in Seq(Nat) }])
  /\ \A m \in DOMAIN rows : rows[m] = Placement(m - 1)

LoadInv ==
  \A x \in 0..(NodeCount - 1) : \A q \in 1..Len(ListOf(x)) :
    Load(ListOf(x)[q], NodeOf(x))
      = Turns(Len(ListOf(x)), Turns(NodeCount, Len(rows), x) * VcpuCount, q - 1)

\* A VM has vCPUs.
LEMMA VcpusPositive ==
  ASSUME agents \in AgentCounts, limit \in Limits
  PROVE  VcpuCount \in Nat \ {0}
<1> DEFINE p == PlannedTasks
<1>1. p \in Nat \ {0} /\ VcpusPerAgent \in Nat \ {0}
  BY PointDivided, PlanAssumption
<1>2. p * VcpusPerAgent \in Nat \ {0}
  <2> HIDE DEF p
  <2> QED BY <1>1
<1>3. QED
  BY <1>2 DEF VcpuCount

\* Every node has CPUs, each of them once, and they are the ones it is known for.
LEMMA NodeFacts ==
  /\ NodeCount \in Nat \ {0}
  /\ \A x \in 0..(NodeCount - 1) :
       /\ ListOf(x) \in Seq(Nat) /\ ListOf(x) # <<>> /\ IsInjective(ListOf(x))
       /\ Len(ListOf(x)) \in Nat \ {0} /\ DOMAIN ListOf(x) = 1..Len(ListOf(x))
       /\ NodeOf(x) \in Nat /\ CpusOf(NodeOf(x)) = Range(ListOf(x))
       /\ \A y \in 0..(NodeCount - 1) : NodeOf(x) = NodeOf(y) => x = y
<1> DEFINE all == [n \in 1..HostCpus |-> n - 1]
<1>1. NodeCount \in Nat \ {0}
  <2>1. Bound => Len(NumaNodes) \in Nat \ {0}
    BY PlanAssumption DEF Bound
  <2>2. QED
    BY <2>1 DEF NodeCount
<1>2. ASSUME NEW x \in 0..(NodeCount - 1)
      PROVE  /\ ListOf(x) \in Seq(Nat) /\ ListOf(x) # <<>> /\ IsInjective(ListOf(x))
             /\ NodeOf(x) \in Nat /\ CpusOf(NodeOf(x)) = Range(ListOf(x))
             /\ \A y \in 0..(NodeCount - 1) : NodeOf(x) = NodeOf(y) => x = y
  <2>1. CASE Bound
    <3>1. NodeCount = Len(NumaNodes) /\ NodeOf(x) = x + 1 /\ ListOf(x) = NumaNodes[x + 1]
      BY <2>1 DEF NodeCount, NodeOf, ListOf
    <3>2. x + 1 \in 1..Len(NumaNodes) /\ x + 1 \in DOMAIN NumaNodes /\ x + 1 # 0
      BY <1>1, <3>1, PlanAssumption
    <3>3. /\ NumaNodes[x + 1] \in Seq(Nat) /\ NumaNodes[x + 1] # <<>>
          /\ IsInjective(NumaNodes[x + 1])
      BY <3>2, PlanAssumption
    <3>4. CpusOf(NodeOf(x)) = Range(ListOf(x))
      BY <3>1, <3>2 DEF CpusOf
    <3>5. \A y \in 0..(NodeCount - 1) : NodeOf(x) = NodeOf(y) => x = y
      BY <2>1, <1>1 DEF NodeOf
    <3>6. QED
      BY <3>1, <3>3, <3>4, <3>5
  <2>2. CASE ~Bound
    <3>1. NodeCount = 1 /\ x = 0 /\ NodeOf(x) = 0 /\ ListOf(x) = all
      BY <2>2, <1>1 DEF NodeCount, NodeOf, ListOf
    <3>2. HostCpus \in Nat \ {0} /\ all \in [1..HostCpus -> Nat]
      BY PlanAssumption
    <3>3. all \in Seq(Nat) /\ Len(all) = HostCpus
      <4> HIDE DEF all
      <4> QED BY <3>2, FunctionIsSeq
    <3>4. all # <<>> /\ IsInjective(all)
      <4>1. IsInjective(all)
        BY <3>2 DEF IsInjective
      <4>2. QED
        <5> HIDE DEF all
        <5> QED BY <3>2, <3>3, <4>1
    <3>5. Range(all) = 0..(HostCpus - 1)
      <4>1. ASSUME NEW c \in 0..(HostCpus - 1) PROVE c \in Range(all)
        <5>1. c + 1 \in DOMAIN all /\ all[c + 1] = c
          BY <3>2
        <5>2. QED
          <6> HIDE DEF all
          <6> QED BY <5>1 DEF Range
      <4>2. Range(all) \subseteq 0..(HostCpus - 1)
        BY <3>2 DEF Range
      <4>3. QED
        BY <4>1, <4>2
    <3>6. CpusOf(NodeOf(x)) = Range(ListOf(x))
      BY <3>1, <3>5 DEF CpusOf
    <3>7. \A y \in 0..(NodeCount - 1) : x = y
      BY <3>1
    <3>8. QED
      <4> HIDE DEF all
      <4> QED BY <3>1, <3>3, <3>4, <3>6, <3>7
  <2>3. QED
    BY <2>1, <2>2
<1>3. ASSUME NEW x \in 0..(NodeCount - 1)
      PROVE  Len(ListOf(x)) \in Nat \ {0} /\ DOMAIN ListOf(x) = 1..Len(ListOf(x))
  <2> DEFINE l == ListOf(x)
  <2>1. l \in Seq(Nat) /\ l # <<>>
    BY <1>2
  <2>2. Len(l) \in Nat \ {0} /\ DOMAIN l = 1..Len(l)
    <3> HIDE DEF l
    <3> QED BY <2>1
  <2>3. QED
    BY <2>2
<1>4. QED
  BY <1>1, <1>2, <1>3

\* Where a VM is placed: on the node whose turn it is, on the slice of its CPUs from
\* where the VMs before it on the node left off.
LEMMA PlacementIs ==
  ASSUME agents \in AgentCounts, limit \in Limits, NEW i \in Nat
  PROVE  LET x == i % NodeCount
             list == ListOf(x)
             s == (i \div NodeCount) * VcpuCount
         IN  /\ x \in 0..(NodeCount - 1) /\ s \in Nat
             /\ Placement(i) = [node |-> NodeOf(x), cpus |-> FormatCpuList(SliceOf(list, s, VcpuCount))]
             /\ Placement(i) \in [node : Nat, cpus : { FormatCpuList(cpus) : cpus \in Seq(Nat) }]
             /\ ExpandCpuList(Placement(i).cpus) = SliceOf(list, s, VcpuCount)
<1> DEFINE x == i % NodeCount
           list == ListOf(x)
           e == i \div NodeCount
           s == e * VcpuCount
           slice == SliceOf(list, s, VcpuCount)
<1>1. VcpuCount \in Nat \ {0} /\ NodeCount \in Nat \ {0}
  BY VcpusPositive, NodeFacts
<1>2. x \in 0..(NodeCount - 1) /\ e \in Nat
  BY <1>1, Division
<1>3. s \in Nat
  <2> HIDE DEF e
  <2> QED BY <1>1, <1>2
<1>4. list \in Seq(Nat) /\ list # <<>> /\ IsInjective(list) /\ NodeOf(x) \in Nat
  <2> HIDE DEF x
  <2> QED BY <1>2, NodeFacts
<1>5. Placement(i) = [node |-> NodeOf(x), cpus |-> FormatCpuList(slice)]
  <2>1. CASE Bound
    BY <2>1 DEF Placement, Bound, NodeCount, NodeOf, ListOf, SliceOf, Slot, RoundRobinSlice
  <2>2. CASE ~Bound
    <3>1. NodeCount = 1
      BY <2>2 DEF NodeCount
    <3>2. i = 1 * i + 0 /\ 0 \in 0..(1 - 1)
      OBVIOUS
    <3>3. i \div 1 = i /\ i % 1 = 0
      BY <3>2, DivisionIs
    <3>4. e = i /\ x = 0
      BY <3>1, <3>3
    <3>5. Placement(i) = [node |-> 0, cpus |-> FormatCpuList(RoundRobinSlice(
                            [n \in 1..HostCpus |-> n - 1], i * VcpuCount))]
      BY <2>2 DEF Placement, Bound
    <3>6. NodeOf(x) = 0 /\ list = [n \in 1..HostCpus |-> n - 1]
      BY <2>2 DEF NodeOf, ListOf
    <3>7. slice = RoundRobinSlice(list, i * VcpuCount)
      <4> HIDE DEF e, x, list
      <4> QED BY <3>4 DEF SliceOf, RoundRobinSlice
    <3>8. QED
      <4> HIDE DEF e, x, list, slice
      <4> QED BY <3>5, <3>6, <3>7
  <2>3. QED
    BY <2>1, <2>2
<1>6. slice \in Seq(Nat)
  <2> HIDE DEF list, s
  <2> QED BY <1>1, <1>3, <1>4, SliceFacts
<1>7. ExpandCpuList(Placement(i).cpus) = slice
  <2> HIDE DEF slice, x
  <2> QED BY <1>5, <1>6, PinnedAsSliced
<1>8. Placement(i) \in [node : Nat, cpus : { FormatCpuList(cpus) : cpus \in Seq(Nat) }]
  <2> HIDE DEF slice, x
  <2> QED BY <1>4, <1>5, <1>6
<1>9. QED
  BY <1>2, <1>3, <1>5, <1>7, <1>8

\* How often one VM uses a CPU, of those placed on its node.
Use(row, cpu, node) ==
  IF row.node # node THEN 0
  ELSE LET cpus == ExpandCpuList(row.cpus)
       IN Cardinality({ n \in DOMAIN cpus : cpus[n] = cpu })

\* A VM takes the next turns of the CPUs of its node, and none of another.
LEMMA PlacementUse ==
  ASSUME agents \in AgentCounts, limit \in Limits, NEW i \in Nat,
         NEW x \in 0..(NodeCount - 1), NEW q \in 1..Len(ListOf(x))
  PROVE  LET P == Len(ListOf(x))
             t == Turns(NodeCount, i, x) * VcpuCount
         IN  Use(Placement(i), ListOf(x)[q], NodeOf(x))
               = IF i % NodeCount = x
                 THEN Turns(P, t + VcpuCount, q - 1) - Turns(P, t, q - 1) ELSE 0
<1> DEFINE P == Len(ListOf(x))
           t == Turns(NodeCount, i, x) * VcpuCount
           y == i % NodeCount
           s == (i \div NodeCount) * VcpuCount
           V == VcpuCount
<1>1. V \in Nat \ {0} /\ NodeCount \in Nat \ {0}
  BY VcpusPositive, NodeFacts
<1>2. /\ y \in 0..(NodeCount - 1) /\ s \in Nat
      /\ Placement(i) = [node |-> NodeOf(y), cpus |-> FormatCpuList(SliceOf(ListOf(y), s, V))]
      /\ ExpandCpuList(Placement(i).cpus) = SliceOf(ListOf(y), s, V)
  BY PlacementIs
<1>3. CASE y = x
  <2> DEFINE list == ListOf(x)
             slice == SliceOf(list, s, V)
  <2>1. s = t
    BY <1>1, <1>3, NextTurn
  <2>2. Placement(i).node = NodeOf(x) /\ ExpandCpuList(Placement(i).cpus) = slice
    <3> HIDE DEF s, y, V
    <3> QED BY <1>2, <1>3
  <2>3. /\ list \in Seq(Nat) /\ list # <<>> /\ IsInjective(list)
    BY NodeFacts
  <2>4. /\ DOMAIN slice = 1..V
        /\ Cardinality(Places(slice, list[q]))
             = Turns(P, s + V, q - 1) - Turns(P, s, q - 1)
    <3>1. q \in 1..Len(list) /\ P = Len(list) /\ s \in Nat /\ V \in Nat \ {0}
      BY <1>1, <1>2
    <3> HIDE DEF list, s, P, V
    <3>2. DOMAIN SliceOf(list, s, V) = 1..V
      BY <2>3, <3>1, SliceFacts
    <3>3. Cardinality(Places(SliceOf(list, s, V), list[q]))
            = Turns(Len(list), s + V, q - 1) - Turns(Len(list), s, q - 1)
      BY <2>3, <3>1, SliceTurns, Zenon
    <3>4. QED
      BY <3>1, <3>2, <3>3
  <2>5. Use(Placement(i), list[q], NodeOf(x)) = Cardinality(Places(slice, list[q]))
    <3> HIDE DEF slice, list, V
    <3> QED BY <2>2, <2>4 DEF Use, Places
  <2>6. Use(Placement(i), list[q], NodeOf(x)) = Turns(P, s + V, q - 1) - Turns(P, s, q - 1)
    <3> HIDE DEF slice, list, V, s, P
    <3> QED BY <2>4, <2>5
  <2>7. QED
    <3> HIDE DEF P, s, t, V, y
    <3> QED BY <1>3, <2>1, <2>6 DEF list, y, V, P, t
<1>4. CASE y # x
  <2>1. NodeOf(y) # NodeOf(x)
    <3> HIDE DEF y
    <3> QED BY <1>2, <1>4, NodeFacts
  <2>2. Placement(i).node # NodeOf(x)
    <3> HIDE DEF y, s, V
    <3> QED BY <1>2, <2>1
  <2>3. Use(Placement(i), ListOf(x)[q], NodeOf(x)) = 0
    BY <2>2 DEF Use
  <2>4. QED
    BY <1>4, <2>3
<1>5. QED
  BY <1>3, <1>4

\* No VM is placed at the start, and no CPU has had a turn.
LEMMA PinningInit == PlanInit => PlacedInv /\ LoadInv
<1> SUFFICES ASSUME PlanInit PROVE PlacedInv /\ LoadInv
  OBVIOUS
<1>1. rows = <<>> /\ agents \in AgentCounts /\ limit \in Limits
  BY DEF PlanInit
<1>2. PlacedInv
  BY <1>1 DEF PlacedInv
<1>3. ASSUME NEW x \in 0..(NodeCount - 1), NEW q \in 1..Len(ListOf(x))
      PROVE  Load(ListOf(x)[q], NodeOf(x))
               = Turns(Len(ListOf(x)), Turns(NodeCount, Len(rows), x) * VcpuCount, q - 1)
  <2> DEFINE P == Len(ListOf(x))
             N == NodeCount
             V == VcpuCount
             u == q - 1
  <2>1. V \in Nat /\ N \in Nat \ {0} /\ P \in Nat \ {0}
    BY <1>1, VcpusPositive, NodeFacts
  <2>2. Turns(N, 0, x) = 0
    <3> HIDE DEF N
    <3> QED BY <2>1, NextTurn DEF N
  <2>3. u \in 0..(P - 1)
    <3> HIDE DEF P
    <3> QED BY <2>1 DEF P
  <2>4. Turns(P, 0, u) = 0
    <3> HIDE DEF P, u
    <3> QED BY <2>1, <2>3, NextTurn
  <2>5. Load(ListOf(x)[q], NodeOf(x)) = 0
    <3> DEFINE f == [m \in DOMAIN rows |-> Use(rows[m], ListOf(x)[q], NodeOf(x))]
    <3>1. Load(ListOf(x)[q], NodeOf(x)) = SumFunction(f)
      BY DEF Load, Use
    <3>2. DOMAIN f = {}
      BY <1>1
    <3>3. SumFunction(f) = SumFunctionOnSet(f, {})
      <4> HIDE DEF f
      <4> QED BY <3>2 DEF SumFunction, SumFunctionOnSet, FoldFunction
    <3>4. QED
      <4> HIDE DEF f
      <4> QED BY <3>1, <3>3, SumEquation, FS_EmptySet
  <2>6. Len(rows) = 0 /\ 0 * V = 0
    <3> HIDE DEF V
    <3> QED BY <1>1, <2>1
  <2>7. QED
    <3> HIDE DEF P, V, N, u
    <3> QED BY <2>2, <2>4, <2>5, <2>6 DEF P, V, N, u
<1>4. QED
  BY <1>2, <1>3 DEF LoadInv

\* The numbers of the last lemma are numbers.
LEMMA UseInt ==
  ASSUME agents \in AgentCounts, limit \in Limits, NEW i \in Nat,
         NEW x \in 0..(NodeCount - 1), NEW q \in 1..Len(ListOf(x))
  PROVE  /\ Turns(NodeCount, i, x) * VcpuCount \in Nat
         /\ Turns(Len(ListOf(x)), Turns(NodeCount, i, x) * VcpuCount, q - 1) \in Nat
         /\ Use(Placement(i), ListOf(x)[q], NodeOf(x)) \in Int
<1> DEFINE P == Len(ListOf(x))
           N == NodeCount
           V == VcpuCount
           T == Turns(N, i, x)
           u == q - 1
<1>1. V \in Nat \ {0} /\ N \in Nat \ {0} /\ P \in Nat \ {0}
  BY VcpusPositive, NodeFacts
<1>2. T \in Nat
  <2> HIDE DEF N
  <2> QED BY <1>1, NextTurn DEF N
<1>3. T * V \in Nat /\ T * V + V \in Nat /\ u \in 0..(P - 1)
  <2> HIDE DEF T, V, P
  <2> QED BY <1>1, <1>2 DEF P
<1>4. Turns(P, T * V, u) \in Nat /\ Turns(P, T * V + V, u) \in Nat
  <2> DEFINE a == T * V
             b == T * V + V
  <2>1. a \in Nat /\ b \in Nat
    BY <1>3
  <2> HIDE DEF a, b, u, P
  <2>2. Turns(P, a, u) \in Nat /\ Turns(P, b, u) \in Nat
    BY <1>1, <1>3, <2>1, NextTurn
  <2>3. QED
    BY <2>2 DEF a, b
<1>5. Use(Placement(i), ListOf(x)[q], NodeOf(x))
        = IF i % N = x THEN Turns(P, T * V + V, u) - Turns(P, T * V, u) ELSE 0
  BY PlacementUse
<1>6. Use(Placement(i), ListOf(x)[q], NodeOf(x)) \in Int
  <2> HIDE DEF P, N, T, V, u
  <2> QED BY <1>4, <1>5
<1>7. QED
  BY <1>3, <1>4, <1>6

\* The load of a CPU is what the VMs use of it.
LEMMA LoadIs ==
  ASSUME NEW cpu, NEW node
  PROVE  /\ Load(cpu, node) = SumFunction([m \in DOMAIN rows |-> Use(rows[m], cpu, node)])
         /\ Load(cpu, node)' = SumFunction([m \in DOMAIN rows' |-> Use(rows'[m], cpu, node)])
BY DEF Load, Use

\* A VM more is placed: the CPUs of its node have the turns of its vCPUs more.
LEMMA PlaceVmPinned ==
  ASSUME PlacedInv, LoadInv, UNCHANGED <<agents, limit>>, PlaceVm
  PROVE  (PlacedInv /\ LoadInv)'
<1> DEFINE k == Len(rows)
           Rows == [node : Nat, cpus : { FormatCpuList(cpus) : cpus \in Seq(Nat) }]
<1>1. /\ rows \in Seq(Rows) /\ k \in Nat /\ DOMAIN rows = 1..k /\ rows' = Append(rows, Placement(k))
      /\ agents \in AgentCounts /\ limit \in Limits
  BY DEF PlacedInv, PlaceVm
<1>2. VcpuCount' = VcpuCount /\ \A i : Placement(i)' = Placement(i)
  <2>1. VcpuCount' = VcpuCount
    BY DEF VcpuCount, PlannedTasks, Most
  <2>2. QED
    BY <2>1 DEF Placement, RoundRobinSlice, Slot
<1>3. Placement(k) \in Rows
  BY <1>1, PlacementIs
<1>4. /\ rows' \in Seq(Rows) /\ Len(rows') = k + 1 /\ DOMAIN rows' = 1..(k + 1)
      /\ rows'[k + 1] = Placement(k) /\ \A m \in 1..k : rows'[m] = rows[m]
  <2> HIDE DEF Rows
  <2> QED BY <1>1, <1>3, AppendProperties
<1>5. \A m \in 1..k : rows[m] = Placement(m - 1)
  BY <1>1 DEF PlacedInv
<1>6. \A m \in 1..(k + 1) : rows'[m] = Placement(m - 1)
  <2> HIDE DEF k
  <2>1. ASSUME NEW m \in 1..(k + 1) PROVE rows'[m] = Placement(m - 1)
    <3>1. CASE m = k + 1
      <4>1. m - 1 = k
        BY <1>1, <3>1
      <4>2. QED
        BY <1>4, <3>1, <4>1
    <3>2. CASE m # k + 1
      <4>1. m \in 1..k
        BY <1>1, <3>2
      <4>2. QED
        BY <1>4, <1>5, <4>1
    <3>3. QED
      BY <3>1, <3>2
  <2>2. QED
    BY <2>1
<1>7. PlacedInv'
  <2>1. \A m \in DOMAIN rows' : rows'[m] = Placement(m - 1)'
    BY <1>2, <1>4, <1>6
  <2>2. QED
    BY <1>1, <1>4, <2>1 DEF PlacedInv
<1>8. ASSUME NEW x \in 0..(NodeCount - 1), NEW q \in 1..Len(ListOf(x))
      PROVE  Load(ListOf(x)[q], NodeOf(x))'
               = Turns(Len(ListOf(x)), Turns(NodeCount, k + 1, x) * VcpuCount, q - 1)
  <2> DEFINE P == Len(ListOf(x))
             N == NodeCount
             V == VcpuCount
             T == Turns(N, k, x)
             u == q - 1
             c == ListOf(x)[q]
             node == NodeOf(x)
             f == [m \in DOMAIN rows |-> Use(rows[m], c, node)]
             g == [m \in DOMAIN rows' |-> Use(rows'[m], c, node)]
  <2>1. /\ V \in Nat \ {0} /\ N \in Nat \ {0} /\ P \in Nat \ {0} /\ T * V \in Nat
        /\ Turns(P, T * V, u) \in Nat /\ Turns(P, Turns(N, k + 1, x) * V, u) \in Nat
    BY <1>1, VcpusPositive, NodeFacts, UseInt
  <2>2. T \in Nat /\ Turns(N, k + 1, x) = T + (IF k % N = x THEN 1 ELSE 0)
    <3> HIDE DEF k, N
    <3> QED BY <1>1, <2>1, NextTurn DEF N
  <2>3. Load(c, node) = Turns(P, T * V, u)
    <3>1. \A q1 \in 1..Len(ListOf(x)) : Load(ListOf(x)[q1], NodeOf(x))
      = Turns(Len(ListOf(x)), Turns(NodeCount, Len(rows), x) * VcpuCount, q1 - 1)
      BY Zenon DEF LoadInv
    <3>2. QED
      BY <3>1, Zenon
  <2>4. Load(c, node) = SumFunction(f) /\ Load(c, node)' = SumFunction(g)
    BY LoadIs
  <2>5. Use(Placement(k), c, node)
          = IF k % N = x THEN Turns(P, T * V + V, u) - Turns(P, T * V, u) ELSE 0
    BY <1>1, PlacementUse
  <2>6. SumFunction(g) = SumFunction(f) + Use(Placement(k), c, node)
    <3>1. \A m \in 1..k : f[m] \in Int /\ g[m] = f[m]
      <4>1. ASSUME NEW m \in 1..k PROVE f[m] \in Int /\ g[m] = f[m]
        <5>1. m \in DOMAIN rows /\ m \in DOMAIN rows' /\ rows[m] = Placement(m - 1) /\ m - 1 \in Nat
                /\ rows'[m] = rows[m]
          BY <1>1, <1>4, <1>5
        <5>2. f[m] = Use(Placement(m - 1), c, node) /\ g[m] = f[m]
          BY <5>1
        <5>3. Use(Placement(m - 1), c, node) \in Int
          BY <1>1, <5>1, UseInt
        <5>4. QED
          BY <5>2, <5>3
      <4>2. QED
        <5> HIDE DEF f, g, k
        <5> QED BY <4>1
    <3>2. g[k + 1] = Use(Placement(k), c, node) /\ Use(Placement(k), c, node) \in Int
      <4>1. k + 1 \in DOMAIN rows'
        BY <1>1, <1>4
      <4>2. QED
        BY <1>1, <1>4, <4>1, UseInt
    <3>3. DOMAIN f = 1..k /\ DOMAIN g = 1..(k + 1)
      BY <1>1, <1>4
    <3>4. SumFunction(g) = SumFunction(f) + g[k + 1]
      <4>1. g[k + 1] \in Int
        BY <3>2
      <4> HIDE DEF f, g, k
      <4> QED BY <1>1, <3>1, <3>3, <4>1, SumExtend
    <3>5. QED
      BY <3>2, <3>4
  <2>7. SumFunction(g) = Turns(P, Turns(N, k + 1, x) * V, u)
    <3>1. CASE k % N = x
      <4>1. Turns(N, k + 1, x) * V = T * V + V
        <5>1. Turns(N, k + 1, x) = T + 1
          BY <2>2, <3>1
        <5>2. (T + 1) * V = T * V + V
          <6> HIDE DEF T, V
          <6> QED BY <2>1, <2>2
        <5>3. QED
          BY <5>1, <5>2
      <4>2. Use(Placement(k), c, node) = Turns(P, T * V + V, u) - Turns(P, T * V, u)
        BY <2>5, <3>1
      <4>3. Turns(P, T * V + V, u) \in Nat
        BY <2>1, <4>1
      <4>4. SumFunction(g) = Turns(P, T * V, u) + (Turns(P, T * V + V, u) - Turns(P, T * V, u))
        BY <2>3, <2>4, <2>6, <4>2
      <4>5. QED
        <5> HIDE DEF f, g, k, P, T, V, u
        <5> QED BY <2>1, <4>1, <4>3, <4>4
    <3>2. CASE k % N # x
      <4>1. Turns(N, k + 1, x) = T /\ Use(Placement(k), c, node) = 0
        <5> HIDE DEF T, P, V, u, k, N, c, node
        <5> QED BY <2>2, <2>5, <3>2
      <4>2. SumFunction(g) = Turns(P, T * V, u) + 0
        BY <2>3, <2>4, <2>6, <4>1
      <4>3. QED
        <5> HIDE DEF f, g, k, P, T, V, u
        <5> QED BY <2>1, <4>1, <4>2
    <3>3. QED
      BY <3>1, <3>2
  <2>8. QED
    BY <2>4, <2>7
<1>9. LoadInv'
  <2>1. Len(rows)' = k + 1
    BY <1>4
  <2>2. QED
    <3> HIDE DEF k
    <3> QED BY <1>2, <1>8, <2>1 DEF LoadInv
<1>10. QED
  BY <1>7, <1>9

\* The other actions leave the rows.
LEMMA PinningStep ==
  PlacedInv /\ LoadInv /\ [PlanNext]_planVars => (PlacedInv /\ LoadInv)'
<1> SUFFICES ASSUME PlacedInv, LoadInv, [PlanNext]_planVars PROVE (PlacedInv /\ LoadInv)'
  OBVIOUS
<1>1. UNCHANGED <<agents, limit>>
  BY DEF PlanNext, planVars, pointVars
<1>2. CASE UNCHANGED rows
  <2>1. VcpuCount' = VcpuCount
    BY <1>1 DEF VcpuCount, PlannedTasks, Most
  <2>2. \A i : Placement(i)' = Placement(i)
    BY <2>1 DEF Placement, RoundRobinSlice, Slot
  <2>3. PlacedInv'
    BY <1>1, <1>2, <2>2 DEF PlacedInv
  <2>4. \A cpu, node : Load(cpu, node)' = Load(cpu, node)
    BY <1>2 DEF Load
  <2>5. LoadInv'
    BY <1>2, <2>1, <2>4 DEF LoadInv
  <2>6. QED
    BY <2>3, <2>5
<1>3. CASE PlaceVm
  BY <1>1, <1>3, PlaceVmPinned
<1>4. QED
  BY <1>2, <1>3 DEF PlanNext, PlanVm, WriteVm, WriteFails, WriteManifest, planVars

\* Of two successive numbers, the greatest is at most the least and one.
LEMMA WithinOne ==
  ASSUME NEW d \in Nat, NEW S \in SUBSET {d, d + 1}, S # {}
  PROVE  Max(S) <= Min(S) + 1
<1>1. (d + 1 \notin S => S = {d}) /\ (d \notin S => S = {d + 1})
  OBVIOUS
<1>2. \A x, y \in S : x \in Nat /\ y \in Nat /\ x <= y + 1
  OBVIOUS
<1>3. \E x \in S : \A y \in S : x >= y
  BY <1>1
<1>4. \E x \in S : \A y \in S : x <= y
  BY <1>1
<1>5. Max(S) \in S
  BY <1>3 DEF Max
<1>6. Min(S) \in S
  BY <1>4 DEF Min
<1>7. QED
  BY <1>2, <1>5, <1>6

\* The lesser of two.
LEMMA MinOfTwo ==
  ASSUME NEW a \in Nat, NEW b \in Nat
  PROVE  Min({a, b}) = IF a <= b THEN a ELSE b
<1> DEFINE c == IF a <= b THEN a ELSE b
<1>1. c \in {a, b} /\ \A y \in {a, b} : c =< y
  OBVIOUS
<1>2. \A x \in {a, b} : (\A y \in {a, b} : x =< y) => x = c
  OBVIOUS
<1>3. QED
  BY <1>1, <1>2 DEF Min

\* No VM is pinned outside its node or to fewer CPUs than there are for it, and the
\* CPUs of a node are used alike but for one turn, whatever the nodes and the VMs.
THEOREM PinningFair == PlanSpec => []PinningIsFair
<1>1. PlacedInv /\ LoadInv => PinningIsFair
  <2> SUFFICES ASSUME PlacedInv, LoadInv PROVE PinningIsFair
    OBVIOUS
  <2> DEFINE V == VcpuCount
  <2>1. V \in Nat \ {0} /\ agents \in AgentCounts /\ limit \in Limits /\ NodeCount \in Nat \ {0}
    BY VcpusPositive, NodeFacts DEF PlacedInv
  <2>2. /\ Len(rows) \in Nat /\ DOMAIN rows = 1..Len(rows)
        /\ \A m \in DOMAIN rows : rows[m] = Placement(m - 1)
    BY DEF PlacedInv
  <2>3. ASSUME NEW m \in DOMAIN rows
        PROVE  /\ Len(ExpandCpuList(rows[m].cpus)) = VcpuCount
               /\ Range(ExpandCpuList(rows[m].cpus)) \subseteq CpusOf(rows[m].node)
               /\ Cardinality(Range(ExpandCpuList(rows[m].cpus)))
                    = Min({VcpuCount, Cardinality(CpusOf(rows[m].node))})
               /\ \E x \in 0..(NodeCount - 1) : rows[m].node = NodeOf(x)
    <3> DEFINE i == m - 1
               x == i % NodeCount
               list == ListOf(x)
               s == (i \div NodeCount) * V
    <3>1. i \in Nat /\ rows[m] = Placement(i)
      BY <2>2
    <3>2. /\ x \in 0..(NodeCount - 1) /\ s \in Nat /\ rows[m].node = NodeOf(x)
          /\ ExpandCpuList(rows[m].cpus) = SliceOf(list, s, V)
      <4> HIDE DEF i
      <4>1. /\ x \in 0..(NodeCount - 1) /\ s \in Nat
            /\ Placement(i) = [node |-> NodeOf(x), cpus |-> FormatCpuList(SliceOf(list, s, V))]
            /\ ExpandCpuList(Placement(i).cpus) = SliceOf(list, s, V)
        BY <2>1, <3>1, PlacementIs
      <4>2. QED
        <5> HIDE DEF x, s, V, list
        <5> QED BY <3>1, <4>1
    <3>3. /\ list \in Seq(Nat) /\ list # <<>> /\ IsInjective(list) /\ Len(list) \in Nat \ {0}
          /\ CpusOf(NodeOf(x)) = Range(list)
      <4> HIDE DEF x
      <4> QED BY <3>2, NodeFacts
    <3> HIDE DEF x, s, V, list, i
    <3>4. /\ Len(SliceOf(list, s, V)) = V
          /\ Range(SliceOf(list, s, V)) \subseteq Range(list)
      BY <2>1, <3>2, <3>3, SliceFacts
    <3>5. /\ Cardinality(Range(list)) = Len(list)
          /\ Cardinality(Range(SliceOf(list, s, V))) = IF V <= Len(list) THEN V ELSE Len(list)
      BY <2>1, <3>2, <3>3, SliceFacts
    <3>6. Min({V, Len(list)}) = IF V <= Len(list) THEN V ELSE Len(list)
      BY <2>1, <3>3, MinOfTwo
    <3>7. QED
      BY <3>2, <3>3, <3>4, <3>5, <3>6 DEF V
  <2>4. ASSUME NEW x \in 0..(NodeCount - 1)
        PROVE  LET loads == { Load(cpu, NodeOf(x)) : cpu \in CpusOf(NodeOf(x)) }
               IN Max(loads) <= Min(loads) + 1
    <3> DEFINE P == Len(ListOf(x))
               t == Turns(NodeCount, Len(rows), x) * VcpuCount
               d == t \div P
               loads == { Load(cpu, NodeOf(x)) : cpu \in CpusOf(NodeOf(x)) }
    <3>1. P \in Nat \ {0} /\ CpusOf(NodeOf(x)) = Range(ListOf(x)) /\ DOMAIN ListOf(x) = 1..P
      BY NodeFacts
    <3>2. t \in Nat
      <4>1. 1 \in 1..Len(ListOf(x))
        BY <3>1
      <4>2. QED
        BY <2>1, <2>2, <4>1, UseInt
    <3>3. d \in Nat
      <4> HIDE DEF t, P
      <4> QED BY <3>1, <3>2, Division
    <3>4. ASSUME NEW q \in 1..P PROVE Load(ListOf(x)[q], NodeOf(x)) \in {d, d + 1}
      <4>1. Load(ListOf(x)[q], NodeOf(x)) = Turns(P, t, q - 1)
        BY DEF LoadInv
      <4>2. Turns(P, t, q - 1) \in {d, d + 1}
        <5>1. Turns(P, t, q - 1) = d + (IF q - 1 < t % P THEN 1 ELSE 0)
          BY DEF Turns
        <5>2. QED
          <6> HIDE DEF t, P, d
          <6> QED BY <3>3, <5>1
      <4>3. QED
        BY <4>1, <4>2
    <3>5. loads \in SUBSET {d, d + 1} /\ loads # {}
      <4>1. ASSUME NEW cpu \in Range(ListOf(x)) PROVE Load(cpu, NodeOf(x)) \in {d, d + 1}
        <5>1. PICK q \in 1..P : cpu = ListOf(x)[q]
          BY <3>1 DEF Range
        <5>2. QED
          BY <3>4, <5>1
      <4>2. ListOf(x)[1] \in Range(ListOf(x))
        BY <3>1 DEF Range
      <4>3. QED
        <5> HIDE DEF d, P, t
        <5> QED BY <3>1, <4>1, <4>2
    <3>6. Max(loads) <= Min(loads) + 1
      <4> HIDE DEF loads, d
      <4> QED BY <3>3, <3>5, WithinOne
    <3>7. QED
      BY <3>6
  <2>5. ASSUME NEW node \in { rows[m].node : m \in DOMAIN rows }
        PROVE  LET loads == { Load(cpu, node) : cpu \in CpusOf(node) }
               IN Max(loads) <= Min(loads) + 1
    <3>1. PICK x \in 0..(NodeCount - 1) : node = NodeOf(x)
      BY <2>3, <2>5
    <3>2. QED
      BY <2>4, <3>1
  <2>6. QED
    BY <2>3, <2>5 DEF PinningIsFair
<1>2. QED
  BY <1>1, PinningInit, PinningStep, PTL DEF PlanSpec

\* The lists grow to one entry for each VM, and the rows come last.
SizesInv ==
  /\ Len(specs) <= vmCount /\ Len(rows) <= vmCount
  /\ phase \in {"plan", "write", "manifest"} => rows = <<>>
  /\ phase = "place" => Len(rows) < vmCount

LEMMA SizesInit == PlanInit => SizesInv
<1> SUFFICES ASSUME PlanInit PROVE SizesInv
  OBVIOUS
<1>1. vmCount \in Nat \ {0}
  BY PointDivided DEF PlanInit
<1>2. QED
  BY <1>1 DEF PlanInit, SizesInv

LEMMA SizesStep ==
  SpecsInv /\ ManifestInv /\ PlacedInv /\ SizesInv /\ [PlanNext]_planVars => SizesInv'
<1> SUFFICES ASSUME SpecsInv, ManifestInv, PlacedInv, SizesInv, [PlanNext]_planVars PROVE SizesInv'
  OBVIOUS
<1>1. /\ vmCount \in Nat \ {0} /\ Len(specs) \in Nat /\ Len(rows) \in Nat
      /\ specs \in Seq(Int \X Int)
      /\ rows \in Seq([node : Nat, cpus : { FormatCpuList(cpus) : cpus \in Seq(Nat) }])
      /\ agents \in AgentCounts /\ limit \in Limits
  BY PointDivided DEF ManifestInv, SpecsInv, PlacedInv
<1>2. vmCount' = vmCount
  BY DEF PlanNext, planVars, pointVars, vmCount, PlannedTasks, Most
<1>3. CASE UNCHANGED planVars
  BY <1>2, <1>3 DEF planVars, SizesInv
<1>4. CASE PlanVm
  <2>1. UNCHANGED rows /\ phase = "plan" /\ rows = <<>> /\ Len(specs) < vmCount
    BY <1>4 DEF PlanVm, ManifestInv, SizesInv
  <2>2. CASE UNCHANGED specs /\ phase' = "raised"
    BY <1>1, <1>2, <2>1, <2>2 DEF SizesInv
  <2>3. CASE /\ specs' = Append(specs, GuestIp(Len(specs)))
             /\ phase' = IF Len(specs) + 1 = vmCount THEN "write" ELSE "plan"
    <3>1. Len(specs') = Len(specs) + 1
      BY <1>1, <2>3, GuestIpFacts, AppendProperties
    <3>2. Len(specs') <= vmCount
      BY <1>1, <2>1, <3>1
    <3>3. phase' \in {"write", "plan"}
      BY <2>3
    <3>4. QED
      BY <1>1, <1>2, <2>1, <3>2, <3>3 DEF SizesInv
  <2>4. QED
    BY <1>4, <2>2, <2>3 DEF PlanVm
<1>5. CASE WriteVm \/ WriteFails \/ WriteManifest
  <2>1. UNCHANGED <<specs, rows>> /\ phase \in {"write", "manifest"} /\ rows = <<>>
    BY <1>5 DEF WriteVm, WriteFails, WriteManifest, SizesInv
  <2>2. Len(rows) = 0
    BY <2>1
  <2>3. Len(specs') <= vmCount /\ Len(rows') <= vmCount /\ rows' = <<>> /\ Len(rows') < vmCount
    BY <1>1, <2>1, <2>2 DEF SizesInv
  <2>4. QED
    BY <1>2, <2>3 DEF SizesInv
<1>6. CASE PlaceVm
  <2>1. Len(rows') = Len(rows) + 1
    BY <1>1, <1>6, PlacementIs, AppendProperties DEF PlaceVm
  <2>2. /\ UNCHANGED specs /\ phase = "place"
        /\ phase' = IF Len(rows) + 1 = vmCount THEN "placed" ELSE "place"
    BY <1>6 DEF PlaceVm
  <2>3. Len(rows) < vmCount
    BY <2>2 DEF SizesInv
  <2>4. QED
    BY <1>1, <1>2, <2>1, <2>2, <2>3 DEF SizesInv
<1>7. QED
  BY <1>3, <1>4, <1>5, <1>6 DEF PlanNext

\* A MAC is made of a sum of numbers.
LEMMA StableMacType == ASSUME NEW i \in Nat PROVE StableMac(i) \in Nat
<1> DEFINE d == Digits(i)
           f == [n \in DOMAIN d |-> (6 + n) * (48 + d[n])]
<1>1. /\ i \div 1000 \in Nat /\ i % 10 \in Nat
      /\ (i \div 100) % 10 \in Nat /\ (i \div 10) % 10 \in Nat
  BY Division
<1>2. d \in Seq(Nat)
  <2> DEFINE three == <<(i \div 100) % 10, (i \div 10) % 10, i % 10>>
  <2>1. three \in Seq(Nat) /\ <<i \div 1000>> \in Seq(Nat)
    BY <1>1
  <2>2. <<i \div 1000>> \o three \in Seq(Nat)
    <3> HIDE DEF three
    <3> QED BY <2>1, ConcatProperties
  <2>3. QED
    <3>1. d = IF i < 1000 THEN three ELSE <<i \div 1000>> \o three
      BY DEF Digits
    <3>2. QED
      <4> HIDE DEF three, d
      <4> QED BY <2>1, <2>2, <3>1
<1>3. DOMAIN d = 1..Len(d) /\ Len(d) \in Nat /\ IsFiniteSet(DOMAIN d)
  <2> HIDE DEF d
  <2> QED BY <1>2, LenProperties, IntervalCount
<1>4. \A n \in DOMAIN d : f[n] \in Nat
  <2> HIDE DEF d
  <2>1. ASSUME NEW n \in DOMAIN d PROVE f[n] \in Nat
    <3>1. 6 + n \in Nat /\ 48 + d[n] \in Nat
      BY <1>2, <1>3
    <3>2. f[n] = (6 + n) * (48 + d[n])
      OBVIOUS
    <3>3. QED
      BY <3>1, <3>2
  <2>2. QED
    BY <2>1
<1>5. SumFunction(f) \in Nat
  <2>1. DOMAIN f = DOMAIN d
    OBVIOUS
  <2>2. SumFunctionOnSet(f, DOMAIN f) \in Nat
    <3> HIDE DEF f, d
    <3> QED BY <1>3, <1>4, <2>1, SumNat
  <2>3. QED
    <3> HIDE DEF f, d
    <3> QED BY <2>2 DEF SumFunction, SumFunctionOnSet, FoldFunction
<1>6. QED
  <2>1. StableMac(i) = AgentDash + SumFunction(f)
    BY DEF StableMac
  <2>2. QED
    <3> HIDE DEF f, d
    <3> QED BY <1>5, <2>1 DEF AgentDash

\* The manifest is there or it is not.
LEMMA ManifestBoolean == PlanSpec => [](manifest \in BOOLEAN)
<1>1. PlanInit => manifest \in BOOLEAN
  BY DEF PlanInit
<1>2. manifest \in BOOLEAN /\ [PlanNext]_planVars => (manifest \in BOOLEAN)'
  BY DEF PlanNext, PlanVm, WriteVm, WriteFails, WriteManifest, PlaceVm, planVars
<1>3. QED
  BY <1>1, <1>2, PTL DEF PlanSpec

\* The variables of a plan keep their types, whatever the counts and the nodes.
THEOREM PlanTypes == PlanSpec => []PlanTypeOK
<1>1. SpecsInv /\ ManifestInv /\ PlacedInv /\ SizesInv /\ manifest \in BOOLEAN => PlanTypeOK
  <2> SUFFICES ASSUME SpecsInv, ManifestInv, PlacedInv, SizesInv, manifest \in BOOLEAN PROVE PlanTypeOK
    OBVIOUS
  <2>1. /\ agents \in AgentCounts /\ limit \in Limits /\ limit \in Nat \ {0}
        /\ PlannedTasks \in 1..limit
    <3>1. agents \in AgentCounts /\ limit \in Limits
      BY DEF ManifestInv
    <3>2. PlannedTasks \in 1..Most /\ Most \in 1..limit /\ limit \in Nat \ {0}
      BY <3>1, PlannedTasksDivide, PointFacts
    <3>3. QED
      BY <3>1, <3>2
  <2>2. \A m \in DOMAIN specs : specs[m] \in Nat \X Nat
    <3>1. ASSUME NEW m \in DOMAIN specs PROVE specs[m] \in Nat \X Nat
      <4> DEFINE i == m - 1
      <4>1. i \in Nat /\ specs[m] = GuestIp(i)
        BY DEF SpecsInv
      <4>2. i \div 245 \in Nat /\ i % 245 \in Nat /\ ThirdOctet \in Nat
        <5> HIDE DEF i
        <5> QED BY <4>1, Division, PlanAssumption
      <4>3. QED
        <5> HIDE DEF i
        <5> QED BY <4>1, <4>2 DEF GuestIp
    <3>2. QED
      BY <3>1
  <2>3. Range(specs) \subseteq Nat \X Nat
    BY <2>2 DEF Range
  <2>4. Range(configs) \subseteq [ip : Nat \X Nat, mac : Nat, tasks : 1..limit]
    <3>1. ASSUME NEW m \in DOMAIN configs
          PROVE  configs[m] \in [ip : Nat \X Nat, mac : Nat, tasks : 1..limit]
      <4>1. configs[m] \in Configs /\ m \in DOMAIN specs
        BY DEF ManifestInv, SpecsInv
      <4>2. configs[m].ip = specs[m] /\ configs[m].tasks = PlannedTasks
        BY DEF ManifestInv
      <4>3. configs[m].mac \in Nat
        <5>1. \A mac \in { StableMac(n) : n \in Nat } : mac \in Nat
          BY StableMacType
        <5>2. configs[m].mac \in { StableMac(n) : n \in Nat }
          BY <4>1 DEF Configs
        <5>3. QED
          BY <5>1, <5>2
      <4>4. configs[m] = [ip |-> configs[m].ip, mac |-> configs[m].mac, tasks |-> configs[m].tasks]
        BY <4>1 DEF Configs
      <4>5. configs[m].ip \in Nat \X Nat /\ configs[m].tasks \in 1..limit
        BY <2>1, <2>2, <4>1, <4>2
      <4>6. QED
        BY <4>3, <4>4, <4>5
    <3>2. QED
      BY <3>1 DEF Range
  <2>5. \A n \in DOMAIN rows : rows[n].node \in 0..Len(NumaNodes)
    <3>1. ASSUME NEW n \in DOMAIN rows PROVE rows[n].node \in 0..Len(NumaNodes)
      <4> DEFINE x == (n - 1) % NodeCount
      <4>1. n - 1 \in Nat /\ rows[n] = Placement(n - 1)
        BY DEF PlacedInv
      <4>2. x \in 0..(NodeCount - 1) /\ rows[n].node = NodeOf(x)
        BY <2>1, <4>1, PlacementIs
      <4>3. Len(NumaNodes) \in Nat
        BY PlanAssumption
      <4>4. QED
        <5> HIDE DEF x
        <5> QED BY <4>2, <4>3 DEF NodeOf, NodeCount
    <3>2. QED
      BY <3>1
  <2>6. QED
    BY <2>1, <2>3, <2>4, <2>5 DEF PlanTypeOK, ManifestInv, SizesInv
<1>2. QED
  BY <1>1, SpecsInit, SpecsStep, ManifestInit, ManifestStep, PinningInit, PinningStep,
     SizesInit, SizesStep, ManifestBoolean, PTL DEF PlanSpec

-----------------------------------------------------------------------------
\* The agents of a coding point.  The types at the start and over a step.
LEMMA AgentTypeInit == Init => TypeOK
<1> SUFFICES ASSUME Init PROVE TypeOK
  OBVIOUS
<1> USE GuestAssumption
<1>1. [v \in Guests |-> <<>>] \in [Guests -> Seq(Line)]
  BY EmptySeq
<1>2. QED
  BY <1>1 DEF Init, TypeOK, NoResult

\* Three events of stages and the line of the task, whatever its status.
LEMMA ClosingLines ==
  ASSUME NEW status \in {"ok", "error"}
  PROVE  /\ Closing(status) \in Seq(Line) /\ DOMAIN Closing(status) = 1..4
         /\ Closing(status)[4] = TaskLine(status)
         /\ \A n \in 1..3 : Closing(status)[n].kind = "stage"
<1>1. CASE status = "ok"
  <2>1. Closing(status) = <<Stage("ok"), Stage("ok"), Stage("ok"), TaskLine("ok")>>
    BY <1>1 DEF Closing
  <2>2. Stage("ok") \in Line /\ TaskLine("ok") \in Line /\ Stage("ok").kind = "stage"
    BY DEF Stage, TaskLine, Line
  <2>3. Closing(status) \in Seq(Line) /\ DOMAIN Closing(status) = 1..4
    BY <2>1, <2>2
  <2>4. /\ Closing(status)[1].kind = "stage" /\ Closing(status)[2].kind = "stage"
        /\ Closing(status)[3].kind = "stage" /\ Closing(status)[4] = TaskLine(status)
    BY <1>1, <2>1, <2>2
  <2>5. QED
    BY <2>3, <2>4
<1>2. CASE status = "error"
  <2>1. Closing(status)
          = <<Stage("error"), Stage("skipped"), Stage("blocked"), TaskLine("error")>>
    BY <1>2 DEF Closing
  <2>2. /\ Stage("error") \in Line /\ TaskLine("error") \in Line
        /\ Stage("skipped") \in Line /\ Stage("blocked") \in Line
        /\ Stage("error").kind = "stage" /\ Stage("skipped").kind = "stage"
        /\ Stage("blocked").kind = "stage"
    BY DEF Stage, TaskLine, Line
  <2>3. Closing(status) \in Seq(Line) /\ DOMAIN Closing(status) = 1..4
    BY <2>1, <2>2
  <2>4. /\ Closing(status)[1].kind = "stage" /\ Closing(status)[2].kind = "stage"
        /\ Closing(status)[3].kind = "stage" /\ Closing(status)[4] = TaskLine(status)
    BY <1>2, <2>1, <2>2
  <2>5. QED
    BY <2>3, <2>4
<1>3. QED
  BY <1>1, <1>2

LEMMA AgentTypeStep == TypeOK /\ [Next]_vars => TypeOK'
<1> SUFFICES ASSUME TypeOK, [Next]_vars PROVE TypeOK'
  OBVIOUS
<1> USE GuestAssumption
<1>1. CASE UNCHANGED vars
  BY <1>1 DEF vars, guestVars, TypeOK
<1>2. CASE mode' = mode /\ Tick
  BY <1>2 DEF Tick, guestVars, TypeOK
<1>3. CASE mode' = mode /\ Summarize
  BY <1>3 DEF Summarize, guestVars, TypeOK
<1>4. ASSUME NEW v \in Guests, mode' = mode,
             GuestStep(v) \/ StopVm(v) \/ CopyOut(v)
      PROVE  TypeOK'
  <2> USE <1>4
  <2>1. CASE Boot(v) \/ NextTask(v) \/ MemoryEnds(v) \/ StopVm(v)
    BY <2>1 DEF Boot, NextTask, MemoryEnds, StopVm, Goto, TypeOK
  <2>2. CASE BeginTask(v)
    <3>1. Append(trace[v], Stage("ok")) \in Seq(Line)
      BY AppendProperties DEF TypeOK, Stage, Line
    <3>2. trace' \in [Guests -> Seq(Line)]
      BY <2>2, <3>1 DEF BeginTask, TypeOK
    <3>3. began' \in [Guests -> 0..RunSeconds] /\ tasks' \in [Guests -> Nat]
      BY <2>2 DEF BeginTask, TypeOK
    <3>4. QED
      BY <2>2, <3>2, <3>3 DEF BeginTask, Goto, TypeOK
  <2>3. CASE SendRequest(v)
    <3>1. trace[v] \in Seq(Line) /\ <<Stage("ok"), Stage("started")>> \in Seq(Line)
      BY DEF TypeOK, Stage, Line
    <3>2. trace[v] \o <<Stage("ok"), Stage("started")>> \in Seq(Line)
      BY <3>1, ConcatProperties
    <3>3. QED
      BY <2>3, <3>2 DEF SendRequest, Goto, TypeOK
  <2>4. CASE EndRequest(v)
    <3>1. PICK status \in {"ok", "error"} :
            /\ trace' = [trace EXCEPT ![v] = trace[v] \o Closing(status)]
            /\ count' = [count EXCEPT ![v] = Counted(count[v], status)]
      BY <2>4 DEF EndRequest
    <3>2. trace[v] \in Seq(Line) /\ Closing(status) \in Seq(Line)
      BY ClosingLines DEF TypeOK
    <3>3. trace[v] \o Closing(status) \in Seq(Line)
      BY <3>2, ConcatProperties
    <3>4. trace' \in [Guests -> Seq(Line)]
      BY <3>1, <3>3 DEF TypeOK
    <3>5. Counted(count[v], status) \in [completed : Nat, failed : Nat]
      <4>1. count[v] \in [completed : Nat, failed : Nat]
        BY DEF TypeOK
      <4>2. CASE status = "ok"
        BY <4>1, <4>2 DEF Counted
      <4>3. CASE status = "error"
        BY <4>1, <4>3 DEF Counted
      <4>4. QED
        BY <4>2, <4>3
    <3>6. count' \in [Guests -> [completed : Nat, failed : Nat]]
      BY <3>1, <3>5 DEF TypeOK
    <3>7. QED
      BY <2>4, <3>4, <3>6 DEF EndRequest, Goto, TypeOK
  <2>5. CASE WriteResult(v)
    BY <2>5 DEF WriteResult, Goto, TypeOK
  <2>6. CASE CopyOut(v)
    <3> DEFINE Results == [completed : Nat, failed : Nat, written : BOOLEAN]
    <3>1. PICK r \in {NoResult, result[v]} : saved' = [saved EXCEPT ![v] = r]
      BY <2>6 DEF CopyOut
    <3>2. r \in Results
      <4>1. result \in [Guests -> Results]
        BY DEF TypeOK
      <4>2. result[v] \in Results
        BY <4>1
      <4>3. NoResult \in Results
        BY DEF NoResult
      <4>4. QED
        BY <4>2, <4>3
    <3>3. saved' \in [Guests -> Results]
      <4> HIDE DEF Results
      <4>1. saved \in [Guests -> Results]
        BY DEF TypeOK, Results
      <4>2. QED
        BY <3>1, <3>2, <4>1
    <3>4. QED
      BY <2>6, <3>3 DEF CopyOut, Goto, TypeOK
  <2>7. QED
    BY <2>1, <2>2, <2>3, <2>4, <2>5, <2>6 DEF GuestStep
<1>5. QED
  BY <1>1, <1>2, <1>3, <1>4 DEF Next, HostStep

\* Every variable keeps its type, for any guests and any deadlines.
THEOREM AgentTypes == Spec => []TypeOK
<1>1. QED
  BY AgentTypeInit, AgentTypeStep, PTL DEF Spec

-----------------------------------------------------------------------------
Closed(v) == count[v].completed + count[v].failed

\* The counters of an agent are what its trace shows.
TraceInv(v) ==
  /\ count[v].completed = TasksTraced(v, "ok")
  /\ count[v].failed = TasksTraced(v, "error")

\* Where an agent is says how many tasks it has begun: those that are closed, and
\* one more while a request runs; in single_task mode never more than it was given.
TasksInv(v) ==
  /\ pc[v] \in {"boot", "task", "next", "result", "memory", "last", "over"} =>
       tasks[v] = Closed(v)
  /\ pc[v] \in {"prompt", "request"} => tasks[v] = Closed(v) + 1
  /\ pc[v] = "boot" => tasks[v] = 0
  /\ mode = "single_task" =>
       /\ pc[v] = "task" => tasks[v] < TasksPerVm
       /\ pc[v] \in {"prompt", "request", "next"} => tasks[v] <= TasksPerVm
       /\ pc[v] \in {"result", "memory", "last", "over"} => tasks[v] = TasksPerVm

\* A result.json is written past the last task and never behind it, and what is
\* copied is the result or nothing.
ResultInv(v) ==
  /\ \/ result[v] = NoResult
     \/ /\ pc[v] \in {"memory", "last", "over", "stopped", "copied"}
        /\ result[v] = [completed |-> count[v].completed, failed |-> count[v].failed,
                        written |-> TRUE]
        /\ tasks[v] = Closed(v)
        /\ mode = "single_task" => tasks[v] = TasksPerVm
  /\ saved[v] = NoResult \/ (pc[v] = "copied" /\ saved[v] = result[v])

AgentInv(v) == TraceInv(v) /\ TasksInv(v) /\ ResultInv(v)

\* The table is made of all copies, when nothing moves any more.
TableInv ==
  \/ table = NoTable
  \/ /\ \A v \in Guests : pc[v] = "copied"
     /\ table = [ready |-> TRUE,
                 vmResults |-> Cardinality({ v \in Guests : saved[v].written }),
                 completed |-> SumFunction([v \in Guests |-> saved[v].completed]),
                 failed |-> SumFunction([v \in Guests |-> saved[v].failed])]

BooksInv == TableInv /\ \A v \in Guests : AgentInv(v)

-----------------------------------------------------------------------------
\* What lines add to the tasks a trace shows.
LEMMA TracedMore ==
  ASSUME TypeOK, NEW v \in Guests, NEW lines \in Seq(Line), NEW status,
         trace' = [trace EXCEPT ![v] = trace[v] \o lines]
  PROVE  /\ TasksTraced(v, status) \in Nat
         /\ TasksTraced(v, status)'
              = TasksTraced(v, status) + Cardinality(Places(lines, TaskLine(status)))
<1>1. trace[v] \in Seq(Line) /\ trace'[v] = trace[v] \o lines
  BY DEF TypeOK
<1>2. /\ TasksTraced(v, status) = Cardinality(Places(trace[v], TaskLine(status)))
      /\ TasksTraced(v, status)' = Cardinality(Places(trace'[v], TaskLine(status)))
  BY DEF TasksTraced, Places
<1>3. QED
  BY <1>1, <1>2, PlacesFinite, PlacesConcat

\* A line of a stage closes no task.
LEMMA StagesTraceNone ==
  ASSUME TypeOK, NEW v \in Guests, NEW lines \in Seq(Line),
         \A n \in DOMAIN lines : lines[n].kind = "stage",
         trace' = [trace EXCEPT ![v] = trace[v] \o lines], UNCHANGED count[v]
  PROVE  TraceInv(v) => TraceInv(v)'
<1>1. ASSUME NEW status PROVE Cardinality(Places(lines, TaskLine(status))) = 0
  <2>1. Places(lines, TaskLine(status)) = {}
    BY DEF Places, TaskLine
  <2>2. QED
    BY <2>1, FS_EmptySet
<1>2. ASSUME NEW status PROVE TasksTraced(v, status)' = TasksTraced(v, status)
  <2>1. /\ TasksTraced(v, status) \in Nat
        /\ TasksTraced(v, status)'
             = TasksTraced(v, status) + Cardinality(Places(lines, TaskLine(status)))
    BY TracedMore
  <2>2. QED
    BY <1>1, <2>1
<1>3. QED
  BY <1>2 DEF TraceInv

\* The lines that close a task show one task more, with its status.
LEMMA ClosingTracesOne ==
  ASSUME NEW status \in {"ok", "error"}, NEW other \in {"ok", "error"}
  PROVE  Cardinality(Places(Closing(status), TaskLine(other)))
           = IF other = status THEN 1 ELSE 0
<1> DEFINE lines == Closing(status)
<1>1. /\ DOMAIN lines = 1..4 /\ lines[4] = TaskLine(status)
      /\ \A n \in 1..3 : lines[n].kind = "stage"
  BY ClosingLines
<1>2. TaskLine(other).kind = "task" /\ (TaskLine(other) = TaskLine(status) <=> other = status)
  BY DEF TaskLine
<1>3. Places(lines, TaskLine(other)) = IF other = status THEN {4} ELSE {}
  <2> HIDE DEF lines
  <2>1. ASSUME NEW n \in 1..4 PROVE lines[n] = TaskLine(other) <=> n = 4 /\ other = status
    <3>1. CASE n = 4
      BY <1>1, <1>2, <3>1
    <3>2. CASE n \in 1..3
      BY <1>1, <1>2, <3>2
    <3>3. QED
      BY <3>1, <3>2
  <2>2. QED
    BY <1>1, <2>1 DEF Places
<1>4. Cardinality({4}) = 1 /\ Cardinality({}) = 0
  BY FS_Singleton, FS_EmptySet
<1>5. QED
  BY <1>1, <1>3, <1>4

\* A step of one agent leaves the books of the others alone.
LEMMA OthersKeep ==
  ASSUME NEW v, AgentInv(v),
         UNCHANGED <<mode, pc[v], tasks[v], count[v], trace[v], result[v], saved[v]>>
  PROVE  AgentInv(v)'
BY DEF AgentInv, TraceInv, TasksInv, ResultInv, Closed, TasksTraced

LEMMA AgentInit == Init => BooksInv
<1> SUFFICES ASSUME Init, NEW v \in Guests PROVE AgentInv(v)
  BY DEF BooksInv, Init, TableInv
<1>1. ASSUME NEW status PROVE TasksTraced(v, status) = 0
  <2>1. trace[v] = <<>>
    BY DEF Init
  <2>2. { n \in DOMAIN trace[v] : trace[v][n] = TaskLine(status) } = {}
    BY <2>1
  <2>3. QED
    BY <2>2, FS_EmptySet DEF TasksTraced
<1>2. QED
  BY <1>1 DEF Init, AgentInv, TraceInv, TasksInv, ResultInv, Closed

\* The step of one agent, or of the host with its VM.
LEMMA AgentStep ==
  ASSUME TypeOK, NEW v \in Guests, AgentInv(v), mode' = mode,
         GuestStep(v) \/ StopVm(v) \/ CopyOut(v)
  PROVE  AgentInv(v)'
<1> USE GuestAssumption
<1>1. CASE Boot(v)
  <2>1. /\ pc[v] = "boot" /\ pc'[v] = "task"
        /\ UNCHANGED <<tasks, count, trace, result, saved>>
    BY <1>1 DEF Boot, Goto, TypeOK
  <2>2. QED
    BY <2>1 DEF AgentInv, TraceInv, TasksInv, ResultInv, Closed, TasksTraced
<1>2. CASE BeginTask(v)
  <2>1. /\ pc[v] = "task" /\ pc'[v] = "prompt" /\ tasks'[v] = tasks[v] + 1
        /\ tasks[v] \in Nat /\ UNCHANGED <<count, result, saved>>
    BY <1>2 DEF BeginTask, Goto, TypeOK
  <2>2. TraceInv(v)'
    <3>1. Stage("ok") \in Line /\ trace[v] \in Seq(Line)
      BY DEF Stage, Line, TypeOK
    <3>2. Append(trace[v], Stage("ok")) = trace[v] \o <<Stage("ok")>>
      BY <3>1, AppendIsConcat
    <3>3. /\ <<Stage("ok")>> \in Seq(Line)
          /\ \A n \in DOMAIN <<Stage("ok")>> : <<Stage("ok")>>[n].kind = "stage"
      BY <3>1 DEF Stage
    <3>4. trace' = [trace EXCEPT ![v] = trace[v] \o <<Stage("ok")>>]
      BY <1>2, <3>2 DEF BeginTask
    <3>5. QED
      BY <2>1, <3>3, <3>4, StagesTraceNone DEF AgentInv
  <2>3. TasksInv(v)' /\ ResultInv(v)'
    BY <2>1 DEF AgentInv, TasksInv, ResultInv, Closed
  <2>4. QED
    BY <2>2, <2>3 DEF AgentInv
<1>3. CASE SendRequest(v)
  <2>1. /\ pc[v] = "prompt" /\ pc'[v] = "request"
        /\ UNCHANGED <<tasks, count, result, saved>>
    BY <1>3 DEF SendRequest, Goto, TypeOK
  <2>2. TraceInv(v)'
    <3> DEFINE lines == <<Stage("ok"), Stage("started")>>
    <3>1. lines \in Seq(Line) /\ \A n \in DOMAIN lines : lines[n].kind = "stage"
      BY DEF Stage, Line
    <3>2. trace' = [trace EXCEPT ![v] = trace[v] \o lines]
      BY <1>3 DEF SendRequest
    <3>3. QED
      <4> HIDE DEF lines
      <4> QED BY <2>1, <3>1, <3>2, StagesTraceNone DEF AgentInv
  <2>3. TasksInv(v)' /\ ResultInv(v)'
    BY <2>1 DEF AgentInv, TasksInv, ResultInv, Closed
  <2>4. QED
    BY <2>2, <2>3 DEF AgentInv
<1>4. CASE EndRequest(v)
  <2>1. PICK status \in {"ok", "error"} :
          /\ trace' = [trace EXCEPT ![v] = trace[v] \o Closing(status)]
          /\ count' = [count EXCEPT ![v] = Counted(count[v], status)]
    BY <1>4 DEF EndRequest
  <2>2. /\ pc[v] = "request" /\ pc'[v] = "next"
        /\ UNCHANGED <<tasks, result, saved>>
    BY <1>4 DEF EndRequest, Goto, TypeOK
  <2>3. /\ count[v].completed \in Nat /\ count[v].failed \in Nat
        /\ count'[v].completed = count[v].completed + (IF status = "ok" THEN 1 ELSE 0)
        /\ count'[v].failed = count[v].failed + (IF status = "error" THEN 1 ELSE 0)
    BY <2>1 DEF Counted, TypeOK
  <2>4. TraceInv(v)'
    <3>1. ASSUME NEW other \in {"ok", "error"}
          PROVE  TasksTraced(v, other)' = TasksTraced(v, other) + (IF other = status THEN 1 ELSE 0)
      <4>1. Closing(status) \in Seq(Line)
        BY ClosingLines
      <4>2. TasksTraced(v, other)'
              = TasksTraced(v, other) + Cardinality(Places(Closing(status), TaskLine(other)))
        <5> DEFINE lines == Closing(status)
        <5> HIDE DEF lines
        <5> QED BY <2>1, <4>1, TracedMore DEF lines
      <4>3. QED
        BY <4>2, ClosingTracesOne
    <3>2. /\ TasksTraced(v, "ok")' = TasksTraced(v, "ok") + (IF status = "ok" THEN 1 ELSE 0)
          /\ TasksTraced(v, "error")' = TasksTraced(v, "error") + (IF status = "error" THEN 1 ELSE 0)
      BY <3>1
    <3>3. QED
      BY <2>3, <3>2 DEF AgentInv, TraceInv
  <2>5. Closed(v)' = Closed(v) + 1 /\ Closed(v) \in Nat
    BY <2>3 DEF Closed
  <2>6. TasksInv(v)'
    BY <2>2, <2>5 DEF AgentInv, TasksInv
  <2>7. ResultInv(v)'
    BY <2>2 DEF AgentInv, ResultInv
  <2>8. QED
    BY <2>4, <2>6, <2>7 DEF AgentInv
<1>5. CASE NextTask(v)
  <2>1. /\ pc[v] = "next" /\ pc'[v] = IF MoreTasks(v) THEN "task" ELSE "result"
        /\ tasks[v] \in Nat /\ UNCHANGED <<tasks, count, trace, result, saved>>
    BY <1>5 DEF NextTask, Goto, TypeOK
  <2>2. mode = "single_task" => (MoreTasks(v) <=> tasks[v] < TasksPerVm)
    BY DEF MoreTasks
  <2>3. TasksInv(v)'
    BY <2>1, <2>2 DEF AgentInv, TasksInv, Closed
  <2>4. QED
    BY <2>1, <2>3 DEF AgentInv, TraceInv, ResultInv, TasksTraced
<1>6. CASE WriteResult(v)
  <2>1. /\ pc[v] \in {"result", "last"}
        /\ pc'[v] = IF pc[v] = "result" THEN "memory" ELSE "over"
        /\ result'[v] = [completed |-> count[v].completed, failed |-> count[v].failed,
                         written |-> TRUE]
        /\ UNCHANGED <<tasks, count, trace, saved>>
    BY <1>6 DEF WriteResult, Goto, TypeOK
  <2>2. TraceInv(v)' /\ TasksInv(v)'
    BY <2>1 DEF AgentInv, TraceInv, TasksInv, Closed, TasksTraced
  <2>3. ResultInv(v)'
    BY <2>1 DEF AgentInv, TasksInv, ResultInv, Closed
  <2>4. QED
    BY <2>2, <2>3 DEF AgentInv
<1>7. CASE MemoryEnds(v)
  <2>1. /\ pc[v] = "memory" /\ pc'[v] = "last"
        /\ UNCHANGED <<tasks, count, trace, result, saved>>
    BY <1>7 DEF MemoryEnds, Goto, TypeOK
  <2>2. QED
    BY <2>1 DEF AgentInv, TraceInv, TasksInv, ResultInv, Closed, TasksTraced
<1>8. CASE StopVm(v)
  <2>1. /\ pc[v] # "copied" /\ pc'[v] = "stopped"
        /\ UNCHANGED <<tasks, count, trace, result, saved>>
    BY <1>8 DEF StopVm, Goto, TypeOK
  <2>2. QED
    BY <2>1 DEF AgentInv, TraceInv, TasksInv, ResultInv, Closed, TasksTraced
<1>9. CASE CopyOut(v)
  <2>1. /\ pc[v] = "stopped" /\ pc'[v] = "copied" /\ saved'[v] \in {NoResult, result[v]}
        /\ UNCHANGED <<tasks, count, trace, result>>
    BY <1>9 DEF CopyOut, Goto, TypeOK
  <2>2. QED
    BY <2>1 DEF AgentInv, TraceInv, TasksInv, ResultInv, Closed, TasksTraced
<1>10. QED
  BY <1>1, <1>2, <1>3, <1>4, <1>5, <1>6, <1>7, <1>8, <1>9 DEF GuestStep

LEMMA BooksStep == TypeOK /\ BooksInv /\ [Next]_vars => BooksInv'
<1> SUFFICES ASSUME TypeOK, BooksInv, [Next]_vars PROVE BooksInv'
  OBVIOUS
<1>1. CASE UNCHANGED <<mode, guestVars, saved>> /\ (Tick \/ Summarize \/ UNCHANGED vars)
  <2>1. ASSUME NEW v \in Guests PROVE AgentInv(v)'
    BY <1>1, OthersKeep DEF BooksInv, guestVars
  <2>2. TableInv'
    <3>1. CASE UNCHANGED table
      BY <1>1, <3>1 DEF BooksInv, TableInv, guestVars
    <3>2. CASE Summarize
      BY <1>1, <3>2 DEF TableInv, Summarize, guestVars
    <3>3. QED
      BY <1>1, <3>1, <3>2 DEF Tick, vars
  <2>3. QED
    BY <2>1, <2>2 DEF BooksInv
<1>2. ASSUME NEW v \in Guests, mode' = mode,
             GuestStep(v) \/ StopVm(v) \/ CopyOut(v)
      PROVE  BooksInv'
  <2> USE <1>2
  <2>1. pc[v] # "copied" /\ UNCHANGED table
    BY DEF GuestStep, Boot, BeginTask, SendRequest, EndRequest, NextTask, WriteResult,
           MemoryEnds, StopVm, CopyOut
  <2>2. table = NoTable
    BY <2>1 DEF BooksInv, TableInv
  <2>3. ASSUME NEW w \in Guests PROVE AgentInv(w)'
    <3>1. CASE w = v
      BY <3>1, AgentStep DEF BooksInv
    <3>2. CASE w # v
      <4>1. UNCHANGED <<pc[w], tasks[w], count[w], trace[w], result[w], saved[w]>>
        BY <3>2 DEF GuestStep, Boot, BeginTask, SendRequest, EndRequest, NextTask,
               WriteResult, MemoryEnds, StopVm, CopyOut, Goto, TypeOK
      <4>2. QED
        BY <4>1, OthersKeep DEF BooksInv
    <3>3. QED
      BY <3>1, <3>2
  <2>4. QED
    BY <2>1, <2>2, <2>3 DEF BooksInv, TableInv
<1>3. QED
  BY <1>1, <1>2 DEF Next, HostStep, Tick, Summarize, vars, guestVars

\* The books of every agent, and the table, at every moment of a point.
THEOREM BooksInvariant == Spec => [](TypeOK /\ BooksInv)
<1>1. Init => TypeOK /\ BooksInv
  BY AgentTypeInit, AgentInit
<1>2. TypeOK /\ BooksInv /\ [Next]_vars => (TypeOK /\ BooksInv)'
  BY AgentTypeStep, BooksStep
<1>3. QED
  BY <1>1, <1>2, PTL DEF Spec

\* Whenever the agent has written result.json, by any number of tasks, with any
\* answers, its counters are the tasks of its trace and all it has begun.
THEOREM ResultsCount == Spec => []ResultCountsTrace
<1>1. BooksInv => ResultCountsTrace
  <2> SUFFICES ASSUME BooksInv, NEW v \in Guests, result[v].written
               PROVE  /\ result[v].completed = TasksTraced(v, "ok")
                      /\ result[v].failed = TasksTraced(v, "error")
                      /\ result[v].completed + result[v].failed = tasks[v]
                      /\ mode = "single_task" => tasks[v] = TasksPerVm
    BY DEF ResultCountsTrace
  <2>1. result[v] # NoResult
    BY DEF NoResult
  <2>2. /\ result[v] = [completed |-> count[v].completed, failed |-> count[v].failed,
                        written |-> TRUE]
        /\ tasks[v] = count[v].completed + count[v].failed
        /\ mode = "single_task" => tasks[v] = TasksPerVm
    BY <2>1 DEF BooksInv, AgentInv, ResultInv, Closed
  <2>3. /\ count[v].completed = TasksTraced(v, "ok")
        /\ count[v].failed = TasksTraced(v, "error")
    BY DEF BooksInv, AgentInv, TraceInv
  <2>4. QED
    BY <2>2, <2>3
<1>2. QED
  BY <1>1, BooksInvariant, PTL

-----------------------------------------------------------------------------
\* What the copy of one VM adds to the table.
LEMMA SavedOfTrace ==
  ASSUME TypeOK, BooksInv, NEW v \in Guests
  PROVE  /\ saved[v].completed \in Nat /\ saved[v].failed \in Nat
         /\ TasksTraced(v, "ok") \in Nat /\ TasksTraced(v, "error") \in Nat
         /\ saved[v].completed <= TasksTraced(v, "ok")
         /\ saved[v].failed <= TasksTraced(v, "error")
         /\ ~saved[v].written => saved[v].completed + saved[v].failed = 0
         /\ mode = "single_task" /\ saved[v].written =>
              saved[v].completed + saved[v].failed = TasksPerVm
<1>1. /\ count[v].completed \in Nat /\ count[v].failed \in Nat
      /\ TasksTraced(v, "ok") = count[v].completed /\ TasksTraced(v, "error") = count[v].failed
  BY DEF TypeOK, BooksInv, AgentInv, TraceInv
<1>2. \/ saved[v] = NoResult
      \/ /\ saved[v] = [completed |-> count[v].completed, failed |-> count[v].failed,
                        written |-> TRUE]
         /\ mode = "single_task" => count[v].completed + count[v].failed = TasksPerVm
  BY DEF BooksInv, AgentInv, ResultInv, Closed
<1>3. QED
  BY <1>1, <1>2 DEF NoResult

\* The rows of the VMs that were written stand for all their tasks, those of the
\* others for none.
LEMMA TableOfTraces == TypeOK /\ BooksInv => TableClaimsNoMore
<1> SUFFICES ASSUME TypeOK, BooksInv, table.ready PROVE TableClaimsNoMore
  BY DEF TableClaimsNoMore
<1> DEFINE done == [v \in Guests |-> saved[v].completed]
           lost == [v \in Guests |-> saved[v].failed]
           both == [v \in Guests |-> saved[v].completed + saved[v].failed]
           written == { v \in Guests : saved[v].written }
           oks == [v \in Guests |-> TasksTraced(v, "ok")]
           errors == [v \in Guests |-> TasksTraced(v, "error")]
<1>1. IsFiniteSet(Guests) /\ TasksPerVm \in Int
  BY GuestAssumption
<1>2. /\ table.vmResults = Cardinality(written)
      /\ table.completed = SumFunctionOnSet(done, Guests)
      /\ table.failed = SumFunctionOnSet(lost, Guests)
  BY DEF BooksInv, TableInv, NoTable, SumFunction
<1>3. \A v \in Guests : /\ done[v] \in Int /\ oks[v] \in Int /\ done[v] <= oks[v]
                        /\ lost[v] \in Int /\ errors[v] \in Int /\ lost[v] <= errors[v]
                        /\ both[v] \in Int /\ both[v] = done[v] + lost[v]
  BY SavedOfTrace
<1>4. /\ SumFunctionOnSet(done, Guests) <= SumFunctionOnSet(oks, Guests)
      /\ SumFunctionOnSet(lost, Guests) <= SumFunctionOnSet(errors, Guests)
  <2> HIDE DEF done, lost, oks, errors, both
  <2> QED BY <1>1, <1>3, SumMonotone
<1>5. /\ SumFunction(oks) = SumFunctionOnSet(oks, Guests)
      /\ SumFunction(errors) = SumFunctionOnSet(errors, Guests)
  BY DEF SumFunction
<1>6. ASSUME mode = "single_task"
      PROVE  table.completed + table.failed = TasksPerVm * table.vmResults
  <2>1. SumFunctionOnSet(both, Guests)
          = SumFunctionOnSet(done, Guests) + SumFunctionOnSet(lost, Guests)
    <3> HIDE DEF done, lost, both
    <3> QED BY <1>1, <1>3, SumPlus
  <2>2. /\ \A v \in written : both[v] = TasksPerVm
        /\ \A v \in Guests \ written : both[v] = 0
    BY <1>6, SavedOfTrace
  <2>3. SumFunctionOnSet(both, Guests) = TasksPerVm * Cardinality(written)
    <3>1. written \in SUBSET Guests
      OBVIOUS
    <3>2. QED
      <4> HIDE DEF both, written
      <4> QED BY <1>1, <2>2, <3>1, SumOfSome
  <2>4. QED
    <3> HIDE DEF both, written, done, lost
    <3> QED BY <1>2, <2>1, <2>3
<1>7. QED
  BY <1>2, <1>4, <1>5, <1>6 DEF TableClaimsNoMore

\* Wherever the deadline catches the VMs, the row of the aligned table counts no
\* task a guest has not closed, and each result that was saved in full.
THEOREM TableHonest == Spec => []TableClaimsNoMore
<1>1. QED
  BY TableOfTraces, BooksInvariant, PTL

-----------------------------------------------------------------------------
\* The memory workers beside them.  Types at the start and over a step.
LEMMA BurnerTypeInit == BurnerInit => BurnerTypeOK
<1> SUFFICES ASSUME BurnerInit PROVE BurnerTypeOK
  OBVIOUS
<1> USE BurnerAssumption
<1>1. 1 \in Threads
  BY DEF Threads
<1>2. [p \in {"a", "b", "c"} |-> 0] \in [{"a", "b", "c"} -> 0..3] /\ 0 \in 0..MaxRounds
  OBVIOUS
<1>3. arrays \in [Threads -> [{"a", "b", "c"} -> 0..3]]
  BY <1>2 DEF BurnerInit
<1>4. QED
  BY <1>1, <1>2, <1>3 DEF BurnerInit, BurnerTypeOK

LEMMA BurnerTypeStep == BurnerTypeOK /\ [BurnerNext]_burnerVars => BurnerTypeOK'
<1> SUFFICES ASSUME BurnerTypeOK, [BurnerNext]_burnerVars PROVE BurnerTypeOK'
  OBVIOUS
<1> USE BurnerAssumption
<1>1. CASE UNCHANGED burnerVars
  BY <1>1 DEF burnerVars, mainVars, threadVars, BurnerTypeOK
<1>2. CASE StartBurner \/ StartLoops \/ WaitMemory
  BY <1>2 DEF StartBurner, StartLoops, WaitMemory, mainVars, threadVars, BurnerTypeOK
<1>3. CASE CreateThread
  <2>1. next' \in Threads /\ main' \in {"create", "join"}
    BY <1>3 DEF CreateThread, BurnerTypeOK, Threads
  <2>2. QED
    BY <1>3, <2>1 DEF CreateThread, BurnerTypeOK
<1>4. CASE CreateFails
  BY <1>4 DEF CreateFails, BurnerTypeOK
<1>5. CASE Join
  <2>1. next' \in Threads
    BY <1>5 DEF Join, Add, BurnerTypeOK, Threads
  <2>2. total' \in Nat
    BY <1>5 DEF Join, Add, BurnerTypeOK
  <2>3. main' \in {"join", "exited"} /\ printed' \in BOOLEAN
    BY <1>5 DEF Join, Add, BurnerTypeOK
  <2>4. QED
    BY <1>5, <2>1, <2>2, <2>3 DEF Join, Add, threadVars, BurnerTypeOK
<1>6. ASSUME NEW i \in Threads, ThreadStep(i)
      PROVE  BurnerTypeOK'
  <2>1. CASE LoopEnds(i) \/ AllocateFails(i) \/ EndThread(i)
    BY <2>1 DEF LoopEnds, AllocateFails, EndThread, mainVars, threadVars, BurnerTypeOK
  <2>2. CASE Allocate(i)
    <3>1. [a |-> 1, b |-> 2, c |-> 3] \in [{"a", "b", "c"} -> 0..3]
      OBVIOUS
    <3>2. arrays' \in [Threads -> [{"a", "b", "c"} -> 0..3]]
      BY <2>2, <3>1 DEF Allocate, BurnerTypeOK
    <3>3. QED
      BY <2>2, <3>2 DEF Allocate, mainVars, BurnerTypeOK
  <2>3. CASE BurnRound(i)
    <3>1. arrays[i] \in [{"a", "b", "c"} -> 0..3]
      BY DEF BurnerTypeOK
    <3>2. Rotated(arrays[i]) \in [{"a", "b", "c"} -> 0..3]
      BY <3>1 DEF Rotated
    <3>3. arrays' \in [Threads -> [{"a", "b", "c"} -> 0..3]]
      BY <2>3, <3>2 DEF BurnRound, BurnerTypeOK
    <3>4. rounds' \in [Threads -> 0..MaxRounds]
      BY <2>3 DEF BurnRound, BurnerTypeOK
    <3>5. QED
      BY <2>3, <3>3, <3>4 DEF BurnRound, mainVars, BurnerTypeOK
  <2>4. QED
    BY <1>6, <2>1, <2>2, <2>3 DEF ThreadStep
<1>7. QED
  BY <1>1, <1>2, <1>3, <1>4, <1>5, <1>6 DEF BurnerNext, MainStep

\* Every variable of the burner and of the script beside it keeps its type.
THEOREM BurnerTypes == BurnerSpec => []BurnerTypeOK
<1>1. QED
  BY BurnerTypeInit, BurnerTypeStep, PTL DEF BurnerSpec

-----------------------------------------------------------------------------
\* The arrays the pointers of a thread point to.
Pointed(i) == { arrays[i][p] : p \in {"a", "b", "c"} }

\* What a thread has measured by where it is.
ThreadInv(i) ==
  /\ thread[i] \in {"none", "allocate"} => rounds[i] = 0
  /\ thread[i] = "done" => measure[i] = rounds[i]
  /\ thread[i] # "done" => measure[i] = 0
  /\ thread[i] = "burn" \/ rounds[i] > 0 => Pointed(i) = 1..3

\* The threads before next are created, or joined and added up, by where main is.
MainInv ==
  /\ script = "start" => main = "off"
  /\ main = "off" => next = 1
  /\ main \in {"off", "create"} =>
       /\ \A i \in Threads : i >= next => thread[i] = "none"
       /\ \A i \in Threads : i < next => thread[i] \notin {"none", "killed"}
       /\ total = 0
  /\ printed => main = "exited" /\ \A i \in Threads : thread[i] = "done"
  /\ printed => total = SumFunctionOnSet(measure, Threads)
  /\ main = "join" =>
       /\ \A i \in Threads : thread[i] \notin {"none", "killed"}
       /\ \A i \in Threads : i < next => thread[i] = "done"
       /\ total = SumFunctionOnSet(measure, 1..(next - 1))
  /\ main = "exited" => \A i \in Threads : thread[i] \in {"none", "done", "killed"}

BurnInv == MainInv /\ \A i \in Threads : ThreadInv(i)

LEMMA BurnInit == BurnerInit => BurnInv
BY DEF BurnerInit, BurnInv, MainInv, ThreadInv, Threads

\* The threads of the burner: each one's rounds, measure and arrays.
LEMMA ThreadsStep ==
  ASSUME BurnerTypeOK, BurnInv, [BurnerNext]_burnerVars, NEW i \in Threads
  PROVE  ThreadInv(i)'
<1> USE DEF BurnInv
<1>1. CASE UNCHANGED threadVars
  BY <1>1 DEF threadVars, ThreadInv, Pointed
<1>2. CASE CreateThread
  <2>1. next \in Threads /\ thread[next] = "none"
    BY <1>2 DEF CreateThread, MainInv, BurnerTypeOK, Threads
  <2>2. thread'[i] = (IF i = next THEN "allocate" ELSE thread[i])
        /\ UNCHANGED <<arrays, rounds, measure>>
    BY <1>2 DEF CreateThread, BurnerTypeOK
  <2>3. QED
    BY <2>1, <2>2 DEF ThreadInv, Pointed
<1>3. CASE CreateFails
  <2>1. /\ thread'[i] \in {thread[i], "killed"} /\ (thread[i] = "done" => thread'[i] = "done")
        /\ thread[i] = "none" => thread'[i] = "none"
        /\ UNCHANGED <<arrays, rounds, measure>>
    BY <1>3 DEF CreateFails
  <2>2. QED
    BY <2>1 DEF ThreadInv, Pointed
<1>4. ASSUME NEW j \in Threads, ThreadStep(j)
      PROVE  ThreadInv(i)'
  <2>1. CASE i # j \/ LoopEnds(j)
    <3>1. UNCHANGED <<thread[i], arrays[i], rounds[i], measure[i]>>
      <4>1. CASE LoopEnds(j) \/ AllocateFails(j) \/ EndThread(j)
        BY <2>1, <4>1 DEF LoopEnds, AllocateFails, EndThread, threadVars, BurnerTypeOK
      <4>2. CASE Allocate(j) \/ BurnRound(j)
        BY <2>1, <4>2 DEF Allocate, BurnRound, LoopEnds, threadVars, BurnerTypeOK
      <4>3. QED
        BY <1>4, <4>1, <4>2 DEF ThreadStep
    <3>2. QED
      BY <3>1 DEF ThreadInv, Pointed
  <2>2. CASE i = j /\ Allocate(j)
    <3>1. /\ thread[i] = "allocate" /\ thread'[i] = "burn"
          /\ arrays'[i] = [a |-> 1, b |-> 2, c |-> 3] /\ UNCHANGED <<rounds, measure>>
      BY <2>2 DEF Allocate, BurnerTypeOK
    <3>2. arrays'[i]["a"] = 1 /\ arrays'[i]["b"] = 2 /\ arrays'[i]["c"] = 3
      BY <3>1
    <3>3. Pointed(i)' = 1..3
      BY <3>2 DEF Pointed
    <3>4. QED
      BY <3>1, <3>3 DEF ThreadInv
  <2>3. CASE i = j /\ AllocateFails(j)
    <3>1. /\ thread[i] = "allocate" /\ thread'[i] = "done"
          /\ UNCHANGED <<arrays, rounds, measure>>
      BY <2>3 DEF AllocateFails, BurnerTypeOK
    <3>2. QED
      BY <3>1 DEF ThreadInv, Pointed
  <2>4. CASE i = j /\ BurnRound(j)
    <3>1. /\ thread[i] = "burn" /\ UNCHANGED <<thread, measure>>
          /\ arrays'[i] \in {arrays[i], Rotated(arrays[i])}
      BY <2>4 DEF BurnRound, BurnerTypeOK
    <3>2. Pointed(i)' = Pointed(i)
      BY <3>1 DEF Pointed, Rotated
    <3>3. QED
      BY <3>1, <3>2 DEF ThreadInv
  <2>5. CASE i = j /\ EndThread(j)
    <3>1. /\ thread[i] = "burn" /\ thread'[i] = "done" /\ measure'[i] = rounds[i]
          /\ UNCHANGED <<arrays, rounds>>
      BY <2>5 DEF EndThread, BurnerTypeOK
    <3>2. QED
      BY <3>1 DEF ThreadInv, Pointed
  <2>6. QED
    BY <1>4, <2>1, <2>2, <2>3, <2>4, <2>5 DEF ThreadStep
<1>5. QED
  BY <1>1, <1>2, <1>3, <1>4
     DEF BurnerNext, StartBurner, StartLoops, WaitMemory, MainStep, Join, Add, burnerVars

\* The sum over the threads that were joined, one more of them.
LEMMA MeasuresSum ==
  ASSUME BurnerTypeOK, NEW k \in Threads
  PROVE  /\ SumFunctionOnSet(measure, 1..k)
              = SumFunctionOnSet(measure, 1..(k - 1)) + measure[k]
         /\ SumFunctionOnSet(measure, 1..(k - 1)) \in Nat
<1> USE BurnerAssumption
<1>1. k \in Nat \ {0} /\ k - 1 \in Nat /\ 1..k \subseteq Threads
  BY DEF Threads
<1>2. IsFiniteSet(1..k) /\ IsFiniteSet(1..(k - 1)) /\ (1..k) \ {k} = 1..(k - 1) /\ k \in 1..k
  BY <1>1, IntervalCount
<1>3. \A n \in 1..k : measure[n] \in Nat
  BY <1>1 DEF BurnerTypeOK
<1>4. SumFunctionOnSet(measure, 1..k)
        = measure[k] + SumFunctionOnSet(measure, (1..k) \ {k})
  BY <1>2, <1>3, SumTakeOut
<1>5. SumFunctionOnSet(measure, 1..(k - 1)) \in Nat
  <2>1. \A n \in 1..(k - 1) : measure[n] \in Nat
    BY <1>1, <1>3
  <2>2. QED
    BY <1>2, <2>1, SumNat
<1>6. measure[k] \in Nat
  BY <1>2, <1>3
<1>7. SumFunctionOnSet(measure, 1..k) = measure[k] + SumFunctionOnSet(measure, 1..(k - 1))
  BY <1>2, <1>4
<1>8. QED
  BY <1>5, <1>6, <1>7

\* main beside any one of its threads.
LEMMA MainBesideThread ==
  ASSUME BurnerTypeOK, BurnInv, NEW i \in Threads, ThreadStep(i)
  PROVE  MainInv'
<1> USE BurnerAssumption DEF BurnInv
<1>1. UNCHANGED <<script, main, next, total, printed>>
  BY DEF ThreadStep, LoopEnds, Allocate, AllocateFails, BurnRound, EndThread, mainVars
<1>2. CASE UNCHANGED <<thread, measure>>
  BY <1>1, <1>2 DEF MainInv
<1>3. CASE ~UNCHANGED <<thread, measure>>
  <2>1. /\ thread[i] \in {"allocate", "burn"} /\ thread'[i] \in {"burn", "done"}
        /\ \A j \in Threads \ {i} : thread'[j] = thread[j] /\ measure'[j] = measure[j]
    BY <1>3 DEF ThreadStep, LoopEnds, Allocate, AllocateFails, BurnRound, EndThread,
           threadVars, BurnerTypeOK
  <2>2. main # "exited" /\ ~printed
    BY <2>1 DEF MainInv
  <2>3. CASE main = "join"
    <3>1. \A j \in 1..(next - 1) : j \in Threads /\ j # i
      BY <2>1, <2>3 DEF MainInv, Threads, BurnerTypeOK
    <3>2. SumFunctionOnSet(measure', 1..(next - 1)) = SumFunctionOnSet(measure, 1..(next - 1))
      <4>1. IsFiniteSet(1..(next - 1))
        BY FS_Interval DEF BurnerTypeOK, Threads
      <4>2. \A j \in 1..(next - 1) : measure[j] \in Int /\ measure'[j] = measure[j]
        BY <2>1, <3>1 DEF BurnerTypeOK
      <4>3. QED
        BY <4>1, <4>2, SumSame
    <3>3. QED
      BY <1>1, <2>1, <2>2, <2>3, <3>2 DEF MainInv
  <2>4. CASE main # "join"
    BY <1>1, <2>1, <2>2, <2>4 DEF MainInv
  <2>5. QED
    BY <2>3, <2>4
<1>4. QED
  BY <1>2, <1>3

LEMMA MainStepKeeps ==
  ASSUME BurnerTypeOK, BurnInv, [BurnerNext]_burnerVars
  PROVE  MainInv'
<1> USE BurnerAssumption DEF BurnInv
<1>1. CASE UNCHANGED <<mainVars, threadVars>> /\ script' \in {script, "wait", "over"}
  BY <1>1 DEF mainVars, threadVars, MainInv
<1>2. CASE StartBurner
  BY <1>2 DEF StartBurner, threadVars, MainInv
<1>3. CASE CreateThread
  <2>1. /\ next \in Threads /\ next \in Nat /\ NumThreads \in Nat
        /\ main = "create" /\ UNCHANGED <<script, total, printed, measure>>
        /\ \A i \in Threads : thread'[i] = IF i = next THEN "allocate" ELSE thread[i]
    BY <1>3 DEF CreateThread, BurnerTypeOK, Threads
  <2>2. CASE next < NumThreads
    BY <1>3, <2>1, <2>2 DEF CreateThread, MainInv, Threads
  <2>3. CASE ~(next < NumThreads)
    <3>1. next' = 1 /\ main' = "join" /\ next = NumThreads
      BY <1>3, <2>1, <2>3 DEF CreateThread, Threads
    <3>2. SumFunctionOnSet(measure', 1..(next' - 1)) = 0
      <4>1. 1..(next' - 1) = {}
        BY <3>1
      <4>2. QED
        BY <4>1, SumEquation, FS_EmptySet
    <3>3. \A i \in Threads : thread'[i] \notin {"none", "killed"}
      BY <2>1, <3>1 DEF MainInv, Threads
    <3>4. QED
      BY <2>1, <3>1, <3>2, <3>3 DEF MainInv, Threads
  <2>4. QED
    BY <2>2, <2>3
<1>4. CASE CreateFails
  BY <1>4 DEF CreateFails, MainInv, BurnerTypeOK
<1>5. CASE Join
  <2>1. /\ main = "join" /\ next \in Threads /\ next \in Nat /\ thread[next] = "done" /\ ~printed
        /\ total = SumFunctionOnSet(measure, 1..(next - 1))
        /\ total' = total + measure[next]
        /\ UNCHANGED <<script, thread, measure>>
    BY <1>5 DEF Join, Add, MainInv, threadVars, BurnerTypeOK, Threads
  <2>2. total' = SumFunctionOnSet(measure, 1..next)
    BY <2>1, MeasuresSum
  <2>3. \A i \in Threads : i <= next => thread[i] = "done"
    BY <2>1 DEF MainInv, Threads
  <2>4. CASE next < NumThreads
    <3>1. next' = next + 1 /\ main' = "join" /\ ~printed' /\ next' - 1 = next
      BY <1>5, <2>1, <2>4 DEF Join, Add
    <3>2. total' = SumFunctionOnSet(measure', 1..(next' - 1))
      BY <2>1, <2>2, <3>1
    <3>3. \A i \in Threads : i < next' => thread'[i] = "done"
      BY <2>1, <2>3, <3>1 DEF Threads
    <3>4. QED
      BY <2>1, <3>1, <3>2, <3>3 DEF MainInv
  <2>5. CASE ~(next < NumThreads)
    <3>1. main' = "exited" /\ printed' /\ next = NumThreads
      BY <1>5, <2>1, <2>5 DEF Join, Add, Threads
    <3>2. \A i \in Threads : thread'[i] = "done"
      BY <2>1, <2>3, <3>1 DEF Threads
    <3>3. total' = SumFunctionOnSet(measure', Threads)
      BY <2>1, <2>2, <3>1 DEF Threads
    <3>4. QED
      BY <2>1, <3>1, <3>2, <3>3 DEF MainInv
  <2>6. QED
    BY <2>4, <2>5
<1>6. QED
  BY <1>1, <1>2, <1>3, <1>4, <1>5, MainBesideThread
     DEF BurnerNext, StartLoops, WaitMemory, MainStep, burnerVars

LEMMA BurnStep == BurnerTypeOK /\ BurnInv /\ [BurnerNext]_burnerVars => BurnInv'
<1> SUFFICES ASSUME BurnerTypeOK, BurnInv, [BurnerNext]_burnerVars PROVE BurnInv'
  OBVIOUS
<1>1. \A i \in Threads : ThreadInv(i)'
  BY ThreadsStep
<1>2. QED
  BY <1>1, MainStepKeeps DEF BurnInv, Threads

THEOREM BurnInvariant == BurnerSpec => [](BurnerTypeOK /\ BurnInv)
<1>1. BurnerInit => BurnerTypeOK /\ BurnInv
  BY BurnerTypeInit, BurnInit
<1>2. BurnerTypeOK /\ BurnInv /\ [BurnerNext]_burnerVars => (BurnerTypeOK /\ BurnInv)'
  BY BurnerTypeStep, BurnStep
<1>3. QED
  BY <1>1, <1>2, PTL DEF BurnerSpec

\* The total the burner prints is what its threads measured, for any number of them
\* and in whatever order they end; every thread frees the arrays it was given.
THEOREM TotalOfThreads == BurnerSpec => []TotalIsOfThreads
<1>1. BurnerTypeOK /\ BurnInv => TotalIsOfThreads
  <2> SUFFICES ASSUME BurnerTypeOK, BurnInv PROVE TotalIsOfThreads
    OBVIOUS
  <2>1. ASSUME printed PROVE total = SumFunction(rounds)
    <3>1. IsFiniteSet(Threads) /\ DOMAIN rounds = Threads
      BY IntervalCount, BurnerAssumption DEF Threads, BurnerTypeOK
    <3>2. \A i \in Threads : measure[i] \in Int /\ rounds[i] = measure[i]
      BY <2>1 DEF BurnInv, MainInv, ThreadInv, BurnerTypeOK
    <3>3. SumFunctionOnSet(rounds, Threads) = SumFunctionOnSet(measure, Threads)
      BY <3>1, <3>2, SumSame
    <3>4. QED
      BY <2>1, <3>1, <3>3 DEF BurnInv, MainInv, SumFunction
  <2>2. QED
    BY <2>1 DEF TotalIsOfThreads, BurnInv, MainInv, ThreadInv, Pointed
<1>2. QED
  BY <1>1, BurnInvariant, PTL

-----------------------------------------------------------------------------
\* The worker of a team run.
\* Where the worker has not got to mini yet, and where it is past its end.
Before == {"off", "start", "mini"}

Behind == {"diff", "files", "open", "close", "over"}

\* mini is started by the worker in cli mode only.  Until a wait has timed out
\* nothing survives it.
ProcessInv ==
  /\ step \in Before \cup {"api"} => cli = "none"
  /\ step = "wait" => cli \in {"up", "gone"}
  /\ step \in Before \cup {"api", "wait"} => ~orphan
  /\ step \in Before => edits = 0 /\ shown = 0
  /\ ~tracked => shown = 0

\* Only a mini that came to its own end leaves status 0, and then nobody edits.
CodeInv ==
  code = 0 => /\ step \in Behind \cup {"raised"}
              /\ cli \in {"none", "gone"} /\ ~orphan

\* The files that are there by each step; the patch of an issue that may be
\* verified is what git shows from the moment it is there.
OutputInv ==
  /\ patch = 0 \/ "patch" \in outputs
  /\ step \in Before \cup {"api", "wait", "term", "kill"} => "patch" \notin outputs
  /\ step \in Behind => {"stdout", "stderr"} \subseteq outputs
  /\ step \in {"wait", "term", "kill"} => {"stdout", "stderr"} \subseteq outputs
  /\ step \in Behind \ {"diff"} => "patch" \in outputs
  /\ step \in {"open", "close", "over"} => {"test_log", "trajectory"} \subseteq outputs
  /\ code = 0 /\ step \in Behind /\ "patch" \in outputs => patch = shown

\* result.json is opened and closed once, by these steps, and is true to code.
VerdictInv ==
  /\ step \in (Before \cup {"api", "wait", "term", "kill"} \cup Behind) \ {"close", "over"} =>
       verdict.state = "missing"
  /\ step = "close" => verdict.state = "torn"
  /\ step = "over" <=> verdict.state = "whole"
  /\ verdict.verified => code = 0

WorkInv == ProcessInv /\ CodeInv /\ OutputInv /\ VerdictInv

-----------------------------------------------------------------------------
\* The types at the start and over a step.
LEMMA TypeInit == WorkerInit => WorkerTypeOK
<1> SUFFICES ASSUME WorkerInit PROVE WorkerTypeOK
  OBVIOUS
<1>1. alive \in BOOLEAN /\ orphan \in BOOLEAN /\ tracked \in BOOLEAN
  BY DEF WorkerInit
<1>2. verdict \in [state : {"missing", "torn", "whole"}, verified : BOOLEAN]
  BY DEF WorkerInit
<1>3. /\ runner \in Runners /\ step = "off" /\ cli = "none" /\ code = 1
      /\ edits = 0 /\ shown = 0 /\ patch = 0 /\ outputs = {}
  BY DEF WorkerInit
<1>4. QED
  BY <1>1, <1>2, <1>3, WorkerAssumption DEF WorkerTypeOK

LEMMA TypeStep == WorkerTypeOK /\ [WorkerNext]_workerVars => WorkerTypeOK'
<1>1. SUFFICES ASSUME WorkerTypeOK, [WorkerNext]_workerVars PROVE WorkerTypeOK'
  OBVIOUS
<1> USE <1>1, WorkerAssumption DEF workVars
<1>2. CASE StartWorker
  BY <1>2 DEF StartWorker, At, processVars, fileVars, WorkerTypeOK
<1>3. CASE Probe
  BY <1>3 DEF Probe, At, processVars, WorkerTypeOK, Extra
<1>4. CASE RunMock
  BY <1>4 DEF RunMock, At, processVars, WorkerTypeOK, OutputFiles
<1>5. CASE RunApi
  BY <1>5 DEF RunApi, At, processVars, fileVars, WorkerTypeOK
<1>6. CASE ApiEnds
  <2>1. orphan' \in BOOLEAN
    BY <1>6 DEF ApiEnds
  <2>2. outputs' \subseteq OutputFiles \cup Extra
    <3>1. outputs \subseteq OutputFiles \cup Extra
      BY DEF WorkerTypeOK
    <3>2. outputs' \subseteq outputs \cup {"stdout", "stderr", "trajectory"}
      BY <1>6 DEF ApiEnds
    <3>3. QED
      BY <3>1, <3>2 DEF OutputFiles
  <2>3. /\ step' = "diff" /\ code' \in {0, 1}
        /\ UNCHANGED <<runner, alive, cli, workVars, patch, verdict>>
    BY <1>6 DEF ApiEnds, At
  <2>4. QED
    BY <2>1, <2>2, <2>3 DEF WorkerTypeOK
<1>7. CASE RunCli
  BY <1>7 DEF RunCli, At, WorkerTypeOK, OutputFiles
<1>8. CASE Waited
  BY <1>8 DEF Waited, At, processVars, fileVars, WorkerTypeOK
<1>9. CASE WaitTimesOut
  BY <1>9 DEF WaitTimesOut, At, Signalled, fileVars, WorkerTypeOK
<1>10. CASE TermTimesOut
  BY <1>10 DEF TermTimesOut, At, Signalled, fileVars, WorkerTypeOK
<1>11. CASE KillTimesOut
  BY <1>11 DEF KillTimesOut, At, processVars, fileVars, WorkerTypeOK
<1>12. CASE TakePatch
  BY <1>12 DEF TakePatch, At, processVars, WorkerTypeOK, OutputFiles
<1>13. CASE WriteFiles
  BY <1>13 DEF WriteFiles, At, processVars, WorkerTypeOK, OutputFiles, Extra
<1>14. CASE OpenResult
  BY <1>14 DEF OpenResult, At, processVars, WorkerTypeOK
<1>15. CASE CloseResult
  BY <1>15 DEF CloseResult, At, processVars, WorkerTypeOK
<1>16. CASE WorkerRaises
  BY <1>16 DEF WorkerRaises, At, processVars, fileVars, WorkerTypeOK
<1>17. CASE Edit \/ UseGit
  <2>1. UNCHANGED <<runner, alive, step, cli, orphan, code, fileVars>>
    BY <1>17 DEF Edit, UseGit
  <2>2. edits' \in 0..MaxEdits /\ shown' \in 0..edits'
    BY <1>17 DEF Edit, UseGit, WorkerTypeOK
  <2>3. tracked' \in BOOLEAN
    BY <1>17 DEF Edit, UseGit, WorkerTypeOK
  <2>4. QED
    BY <2>1, <2>2, <2>3 DEF fileVars, WorkerTypeOK
<1>18. CASE CliEnds
  <2>1. orphan' \in BOOLEAN
    BY <1>18 DEF CliEnds
  <2>2. cli' = "gone" /\ UNCHANGED <<runner, alive, step, workVars, code, fileVars>>
    BY <1>18 DEF CliEnds
  <2>3. QED
    BY <2>1, <2>2 DEF WorkerTypeOK, fileVars
<1>19. CASE OrphanEnds
  <2>1. orphan' \in BOOLEAN
    BY <1>19 DEF OrphanEnds
  <2>2. UNCHANGED <<runner, alive, step, cli, workVars, code, fileVars>>
    BY <1>19 DEF OrphanEnds
  <2>3. QED
    BY <2>1, <2>2 DEF WorkerTypeOK, fileVars
<1>20. CASE VmStops
  <2>1. alive' \in BOOLEAN
    BY <1>20 DEF VmStops
  <2>2. UNCHANGED <<runner, step, processVars, code, fileVars>>
    BY <1>20 DEF VmStops
  <2>3. QED
    BY <2>1, <2>2 DEF WorkerTypeOK, processVars, fileVars
<1>21. CASE UNCHANGED workerVars
  BY <1>21 DEF workerVars, processVars, fileVars, WorkerTypeOK
<1>22. QED
  BY <1>2, <1>3, <1>4, <1>5, <1>6, <1>7, <1>8, <1>9, <1>10, <1>11, <1>12, <1>13, <1>14,
     <1>15, <1>16, <1>17, <1>18, <1>19, <1>20, <1>21 DEF WorkerNext, WorkerStep

\* WorkInv is inductive.  OutputInv is not by itself: a patch stays whole only as
\* CodeInv says who may still edit.
LEMMA WorkInit == WorkerInit => WorkInv
  BY DEF WorkerInit, WorkInv, ProcessInv, CodeInv, OutputInv, VerdictInv, Before, Behind

LEMMA WorkStep ==
  ASSUME WorkInv, [WorkerNext]_workerVars
  PROVE  WorkInv'
<1> USE DEF workVars
<1>1. CASE StartWorker
  BY <1>1 DEF StartWorker, At, processVars, fileVars, WorkInv, ProcessInv, CodeInv,
         OutputInv, VerdictInv, Before, Behind
<1>2. CASE Probe
  BY <1>2 DEF Probe, At, processVars, WorkInv, ProcessInv, CodeInv, OutputInv, VerdictInv,
         Before, Behind
<1>3. CASE RunMock
  BY <1>3 DEF RunMock, At, processVars, WorkInv, ProcessInv, CodeInv, OutputInv, VerdictInv,
         Before, Behind, OutputFiles
<1>4. CASE RunApi
  BY <1>4 DEF RunApi, At, processVars, fileVars, WorkInv, ProcessInv, CodeInv, OutputInv,
         VerdictInv, Before, Behind
<1>5. CASE ApiEnds
  <2>1. /\ step = "api" /\ step' = "diff" /\ code' \in {0, 1}
        /\ UNCHANGED <<runner, alive, cli, workVars, patch, verdict>>
    BY <1>5 DEF ApiEnds, At
  <2>2. code' = 0 => ~orphan'
    BY <1>5 DEF ApiEnds
  <2>3. {"stdout", "stderr"} \subseteq outputs' /\ "patch" \notin outputs'
    BY <1>5, <2>1 DEF ApiEnds, WorkInv, OutputInv
  <2>4. /\ cli = "none" /\ verdict.state = "missing" /\ code # 0 /\ patch = 0
        /\ ~tracked' => shown' = 0
    BY <2>1 DEF WorkInv, ProcessInv, CodeInv, OutputInv, VerdictInv, Before, Behind
  <2>5. ProcessInv' /\ CodeInv'
    BY <2>1, <2>2, <2>4 DEF ProcessInv, CodeInv, Before, Behind
  <2>6. OutputInv'
    BY <2>1, <2>3, <2>4 DEF OutputInv, Before, Behind
  <2>7. VerdictInv'
    BY <2>1, <2>4 DEF WorkInv, VerdictInv, Before, Behind
  <2>8. QED
    BY <2>5, <2>6, <2>7 DEF WorkInv
<1>6. CASE RunCli
  BY <1>6 DEF RunCli, At, WorkInv, ProcessInv, CodeInv, OutputInv, VerdictInv, Before,
         Behind
<1>7. CASE Waited
  <2>1. /\ cli = "gone" /\ step \in {"wait", "term", "kill"} /\ step' = "diff"
        /\ code' = 0 => step = "wait"
        /\ UNCHANGED <<cli, orphan, workVars, outputs, patch, verdict>>
    BY <1>7 DEF Waited, At, processVars, fileVars
  <2>2. code # 0
    BY <2>1 DEF WorkInv, CodeInv, Behind
  <2>3. ProcessInv' /\ CodeInv'
    BY <2>1 DEF WorkInv, ProcessInv, CodeInv, Before, Behind
  <2>4. OutputInv'
    BY <2>1, <2>2 DEF WorkInv, OutputInv, Before, Behind
  <2>5. VerdictInv'
    BY <2>1, <2>2 DEF WorkInv, VerdictInv, Before, Behind
  <2>6. QED
    BY <2>3, <2>4, <2>5 DEF WorkInv
<1>8. CASE WaitTimesOut
  BY <1>8 DEF WaitTimesOut, At, Signalled, fileVars, WorkInv, ProcessInv, CodeInv,
         OutputInv, VerdictInv, Before, Behind
<1>9. CASE TermTimesOut
  BY <1>9 DEF TermTimesOut, At, Signalled, fileVars, WorkInv, ProcessInv, CodeInv,
         OutputInv, VerdictInv, Before, Behind
<1>10. CASE KillTimesOut
  BY <1>10 DEF KillTimesOut, At, processVars, fileVars, WorkInv, ProcessInv, CodeInv,
         OutputInv, VerdictInv, Before, Behind
<1>11. CASE TakePatch
  <2>1. /\ step = "diff" /\ step' = "files" /\ "patch" \in outputs'
        /\ {"stdout", "stderr"} \cap outputs \subseteq outputs'
        /\ UNCHANGED <<cli, orphan, workVars, code, verdict>>
    BY <1>11 DEF TakePatch, At, processVars
  <2>2. code = 0 => patch' = shown'
    BY <1>11, <2>1 DEF TakePatch, WorkInv, OutputInv, Behind
  <2>3. ProcessInv' /\ CodeInv' /\ VerdictInv'
    BY <2>1 DEF WorkInv, ProcessInv, CodeInv, VerdictInv, Before, Behind
  <2>4. OutputInv'
    BY <2>1, <2>2 DEF WorkInv, OutputInv, Before, Behind
  <2>5. QED
    BY <2>3, <2>4 DEF WorkInv
<1>12. CASE WriteFiles
  BY <1>12 DEF WriteFiles, At, processVars, WorkInv, ProcessInv, CodeInv, OutputInv,
         VerdictInv, Before, Behind
<1>13. CASE OpenResult
  BY <1>13 DEF OpenResult, At, processVars, WorkInv, ProcessInv, CodeInv, OutputInv,
         VerdictInv, Before, Behind
<1>14. CASE CloseResult
  BY <1>14 DEF CloseResult, At, processVars, WorkInv, ProcessInv, CodeInv, OutputInv,
         VerdictInv, Before, Behind
<1>15. CASE WorkerRaises
  BY <1>15 DEF WorkerRaises, At, processVars, fileVars, WorkInv, ProcessInv, CodeInv,
         OutputInv, VerdictInv, Before, Behind
<1>16. CASE Edit \/ UseGit
  <2>1. /\ step = "api" \/ cli \in {"up", "termed"} \/ orphan
        /\ UNCHANGED <<step, cli, orphan, code, outputs, patch, verdict>>
    BY <1>16 DEF Edit, UseGit, AtWork, fileVars
  <2>2. code # 0 /\ step \notin Before
    BY <2>1 DEF WorkInv, CodeInv, ProcessInv, Before, Behind
  <2>3. ~tracked' => shown' = 0
    BY <1>16 DEF Edit, UseGit, WorkInv, ProcessInv
  <2>4. QED
    BY <2>1, <2>2, <2>3 DEF WorkInv, ProcessInv, CodeInv, OutputInv, VerdictInv
<1>17. CASE CliEnds
  BY <1>17 DEF CliEnds, fileVars, WorkInv, ProcessInv, CodeInv, OutputInv, VerdictInv,
         Before, Behind
<1>18. CASE OrphanEnds
  BY <1>18 DEF OrphanEnds, fileVars, WorkInv, ProcessInv, CodeInv, OutputInv, VerdictInv,
         Before, Behind
<1>19. CASE VmStops
  BY <1>19 DEF VmStops, processVars, fileVars, WorkInv, ProcessInv, CodeInv, OutputInv,
         VerdictInv, Before, Behind
<1>20. CASE UNCHANGED workerVars
  BY <1>20 DEF workerVars, processVars, fileVars, WorkInv, ProcessInv, CodeInv, OutputInv,
         VerdictInv, Before, Behind
<1>21. QED
  BY <1>1, <1>2, <1>3, <1>4, <1>5, <1>6, <1>7, <1>8, <1>9, <1>10, <1>11, <1>12, <1>13,
     <1>14, <1>15, <1>16, <1>17, <1>18, <1>19, <1>20 DEF WorkerNext, WorkerStep

\* Every variable keeps its type, however the steps of guest_worker.py, of mini and of
\* the VM interleave.
THEOREM WorkerTypes == WorkerSpec => []WorkerTypeOK
<1>1. QED
  BY TypeInit, TypeStep, PTL DEF WorkerSpec

\* Process, status, files and result.json fit the step the worker is at.
THEOREM WorkInvariant == WorkerSpec => []WorkInv
<1>1. WorkInv /\ [WorkerNext]_workerVars => WorkInv'
  BY WorkStep
<1>2. QED
  BY <1>1, WorkInit, PTL DEF WorkerSpec

-----------------------------------------------------------------------------
\* What WorkInv says of a whole and verified result.json.
LEMMA PatchOfWork == WorkerTypeOK /\ WorkInv => VerifiedPatchIsFinal
  BY DEF VerifiedPatchIsFinal, WorkerTypeOK, WorkInv, ProcessInv, CodeInv, OutputInv, VerdictInv,
         Behind, OutputFiles

\* A result.json that guest_worker.py closed as verified stands for a mini that came
\* to its own end, a patch that is what `git diff` still shows of /work (nothing, if
\* mini did not make a repository of it), and every file it names.
THEOREM VerifiedMeansFinal == WorkerSpec => []VerifiedPatchIsFinal
<1>1. QED
  BY PatchOfWork, WorkerTypes, WorkInvariant, PTL

-----------------------------------------------------------------------------
\* The guest of FirecrackerTeam that the worker is seen as.
GuestSeen ==
  CASE step = "off" -> "idle" [] verdict.state = "torn" -> "writing"
    [] step \in {"over", "raised"} -> "over" [] OTHER -> "working"

\* The result.json it has in its cache.
CacheSeen ==
  [state |-> verdict.state, verified |-> verdict.verified,
   issue |-> IF verdict.state = "missing" THEN 0 ELSE 1]

\* One lemma per action of the guest: what it asks of a step of the worker.
LEMMA SeenStarts ==
  ASSUME alive, GuestSeen = "idle", GuestSeen' = "working", UNCHANGED <<alive, CacheSeen>>
  PROVE  Team!GuestStarts(0)
<1>1. Team!Running(0)
  BY DEF Team!Running
<1>2. QED
  BY <1>1 DEF GuestSeen, CacheSeen, Team!GuestStarts, Team!scriptVars, Team!rowVars

LEMMA SeenAborts ==
  ASSUME alive, ~alive', UNCHANGED <<GuestSeen, CacheSeen>>
  PROVE  Team!VmAborts(0)
  BY DEF GuestSeen, CacheSeen, Team!VmAborts, Team!scriptVars, Team!rowVars

LEMMA SeenFails ==
  ASSUME alive, GuestSeen = "working", GuestSeen' = "over", UNCHANGED <<alive, CacheSeen>>
  PROVE  Team!GuestFails(0)
<1>1. Team!Running(0)
  BY DEF Team!Running
<1>2. QED
  BY <1>1 DEF GuestSeen, CacheSeen, Team!GuestFails, Team!scriptVars, Team!rowVars

LEMMA SeenWrites ==
  ASSUME alive, GuestSeen = "working", GuestSeen' = "writing", UNCHANGED alive,
         NEW ok \in BOOLEAN, CacheSeen' = [state |-> "torn", issue |-> 1, verified |-> ok]
  PROVE  Team!GuestWrites(0)
<1>1. Team!Running(0)
  BY DEF Team!Running
<1>2. QED
  BY <1>1 DEF GuestSeen, CacheSeen, Team!GuestWrites, Team!scriptVars, Team!rowVars

LEMMA SeenCloses ==
  ASSUME alive, GuestSeen = "writing", GuestSeen' = "over", UNCHANGED alive,
         CacheSeen' = [CacheSeen EXCEPT !.state = "whole"]
  PROVE  Team!GuestCloses(0)
<1>1. Team!Running(0)
  BY DEF Team!Running
<1>2. QED
  BY <1>1 DEF GuestSeen, CacheSeen, Team!GuestCloses, Team!scriptVars, Team!rowVars

LEMMA SeenNothing ==
  ASSUME UNCHANGED <<alive, GuestSeen, CacheSeen>>
  PROVE  UNCHANGED Team!vars
  BY DEF GuestSeen, CacheSeen, Team!vars, Team!scriptVars, Team!guestVars, Team!rowVars

\* Every step of guest_worker.py, of mini and of the VM is one that FirecrackerTeam
\* takes a guest to make, or leaves what it sees of the guest as it is.
THEOREM WorkerIsGuest == WorkerSpec => ImplementsGuest
<1>1. ASSUME WorkerTypeOK, WorkInv, [WorkerNext]_workerVars
      PROVE  TeamGuest \/ UNCHANGED Team!vars
  <2> USE <1>1 DEF TeamGuest
  <2>1. CASE StartWorker
    <3>1. alive /\ step = "off" /\ step' = "start" /\ UNCHANGED <<alive, verdict>>
      BY <2>1 DEF StartWorker, At, fileVars
    <3>2. verdict.state = "missing"
      BY <3>1 DEF WorkInv, VerdictInv, Before
    <3>3. GuestSeen = "idle" /\ GuestSeen' = "working" /\ UNCHANGED CacheSeen
      BY <3>1, <3>2 DEF GuestSeen, CacheSeen
    <3>4. QED
      BY <3>1, <3>3, SeenStarts
  <2>2. CASE \/ Probe \/ RunMock \/ RunApi \/ ApiEnds \/ RunCli \/ Waited \/ WaitTimesOut
             \/ TermTimesOut \/ TakePatch \/ WriteFiles
    <3>1. /\ step \in {"start", "mini", "api", "wait", "term", "kill", "diff", "files"}
          /\ step' \in {"mini", "api", "wait", "term", "kill", "diff", "files", "open"}
          /\ UNCHANGED <<alive, verdict>>
      BY <2>2 DEF Probe, RunMock, RunApi, ApiEnds, RunCli, Waited, WaitTimesOut, TermTimesOut,
                  TakePatch, WriteFiles, At, fileVars
    <3>2. verdict.state = "missing"
      BY <3>1 DEF WorkInv, VerdictInv, Before, Behind
    <3>3. UNCHANGED <<GuestSeen, CacheSeen>>
      BY <3>1, <3>2 DEF GuestSeen, CacheSeen
    <3>4. QED
      BY <3>1, <3>3, SeenNothing
  <2>3. CASE KillTimesOut \/ (WorkerRaises /\ step # "close")
    <3>1. /\ alive /\ step \in {"kill", "start", "mini", "diff", "files", "open"}
          /\ step' = "raised" /\ UNCHANGED <<alive, verdict>>
      BY <2>3 DEF KillTimesOut, WorkerRaises, At, fileVars
    <3>2. verdict.state = "missing"
      BY <3>1 DEF WorkInv, VerdictInv, Before, Behind
    <3>3. GuestSeen = "working" /\ GuestSeen' = "over" /\ UNCHANGED CacheSeen
      BY <3>1, <3>2 DEF GuestSeen, CacheSeen
    <3>4. QED
      BY <3>1, <3>3, SeenFails
  <2>4. CASE WorkerRaises /\ step = "close"
    <3>1. step' = "raised" /\ UNCHANGED <<alive, verdict>>
      BY <2>4 DEF WorkerRaises, At, fileVars
    <3>2. verdict.state = "torn"
      BY <2>4 DEF WorkInv, VerdictInv
    <3>3. UNCHANGED <<GuestSeen, CacheSeen>>
      BY <2>4, <3>1, <3>2 DEF GuestSeen, CacheSeen
    <3>4. QED
      BY <3>1, <3>3, SeenNothing
  <2>5. CASE OpenResult
    <3>1. PICK ok \in BOOLEAN : ok <=> code = 0
      OBVIOUS
    <3>2. alive /\ step = "open" /\ step' = "close" /\ UNCHANGED alive
      BY <2>5 DEF OpenResult, At
    <3>3. verdict' = [state |-> "torn", verified |-> ok]
      BY <2>5, <3>1 DEF OpenResult
    <3>4. verdict.state = "missing"
      BY <3>2 DEF WorkInv, VerdictInv, Behind
    <3>5. GuestSeen = "working" /\ GuestSeen' = "writing"
      BY <3>2, <3>3, <3>4 DEF GuestSeen
    <3>6. CacheSeen' = [state |-> "torn", issue |-> 1, verified |-> ok]
      BY <3>3 DEF CacheSeen
    <3>7. QED
      BY <3>2, <3>5, <3>6, SeenWrites
  <2>6. CASE CloseResult
    <3>1. alive /\ step = "close" /\ step' = "over" /\ UNCHANGED alive
      BY <2>6 DEF CloseResult, At
    <3>2. verdict.state = "torn"
      BY <3>1 DEF WorkInv, VerdictInv
    <3>3. verdict' = [verdict EXCEPT !.state = "whole"]
      BY <2>6 DEF CloseResult
    <3>4. verdict'.state = "whole" /\ verdict'.verified = verdict.verified
      BY <3>3 DEF WorkerTypeOK
    <3>5. GuestSeen = "writing" /\ GuestSeen' = "over"
      BY <3>1, <3>2, <3>4 DEF GuestSeen
    <3>6. CacheSeen' = [CacheSeen EXCEPT !.state = "whole"]
      BY <3>2, <3>4 DEF CacheSeen
    <3>7. QED
      BY <3>1, <3>5, <3>6, SeenCloses
  <2>7. CASE Edit \/ UseGit \/ CliEnds \/ OrphanEnds \/ UNCHANGED workerVars
    <3>1. UNCHANGED <<alive, step, verdict>>
      BY <2>7 DEF Edit, UseGit, CliEnds, OrphanEnds, fileVars, workerVars
    <3>2. UNCHANGED <<GuestSeen, CacheSeen>>
      BY <3>1 DEF GuestSeen, CacheSeen
    <3>3. QED
      BY <3>1, <3>2, SeenNothing
  <2>8. CASE VmStops
    <3>1. alive /\ ~alive' /\ UNCHANGED <<step, verdict>>
      BY <2>8 DEF VmStops, fileVars
    <3>2. UNCHANGED <<GuestSeen, CacheSeen>>
      BY <3>1 DEF GuestSeen, CacheSeen
    <3>3. QED
      BY <3>1, <3>2, SeenAborts
  <2>9. QED
    BY <2>1, <2>2, <2>3, <2>4, <2>5, <2>6, <2>7, <2>8 DEF WorkerNext, WorkerStep
<1>2. WorkerTypeOK /\ WorkInv /\ [WorkerNext]_workerVars => [TeamGuest]_<<Team!vars>>
  BY <1>1
<1>3. QED
  BY <1>2, WorkerTypes, WorkInvariant, PTL DEF WorkerSpec, ImplementsGuest

=============================================================================
