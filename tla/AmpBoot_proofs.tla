--------------------------- MODULE AmpBoot_proofs ---------------------------
(***************************************************************************)
(* Proofs about the start of the cores, for every image, device tree,      *)
(* number of slots and number of failures.                                 *)
(***************************************************************************)
EXTENDS AmpBoot, TLAPS

(* The slots below idx are the successes, in order, and no two are of the  *)
(* same core; a slot from idx on may hold the id of a failure, but is not  *)
(* enabled.                                                                *)
DistinctNodes == \A i, j \in DOMAIN tree : tree[i].id = tree[j].id => i = j

EnabledBelow == \A s \in 0..NrCpus - 1 : lx.info[s].en <=> s < lx.idx

SlotsSeen == \A s \in 0..NrCpus - 1 : s < lx.idx =>
  \E j \in DOMAIN tree : j < lx.i /\ tree[j].id = lx.info[s].cpu_id

SlotsDistinct == \A s, t \in 0..NrCpus - 1 :
  s < lx.idx /\ t < lx.idx /\ lx.info[s].cpu_id = lx.info[t].cpu_id => s = t

ConfiguredSlots == lx.configured =
  { c \in Cpu : \E s \in 0..NrCpus - 1 : s < lx.idx /\ lx.info[s].cpu_id = c }

SlotInv == EnabledBelow /\ SlotsSeen /\ SlotsDistinct /\ ConfiguredSlots

BootInv == TypeOK /\ DistinctNodes /\ SlotInv

LEMMA BootInit == Init => BootInv
<1> SUFFICES ASSUME Init PROVE BootInv
  OBVIOUS
<1> USE AmpBootAssumption
<1>1. TypeOK
  <2>1. conf \in Seq(Image) /\ tree \in Seq(Node)
    BY DEF Init
  <2>2. run \in [Cpu -> {"off", "uboot", "linux", "amp"}]
    BY DEF Init
  <2>3. lx.info \in [0..NrCpus - 1 -> Slot]
    BY DEF Init, Slot
  <2>4. ub.boot \in [linux : BOOLEAN, entry : BOOLEAN, bootOn : BOOLEAN]
    BY DEF Init
  <2>5. lx.answer \in [cpu : Nat, text : Answers]
    BY DEF Init, NoAnswer, Answers
  <2>6. refused \subseteq Cpu /\ faults \in 0..MaxFaults /\ 0 \in 0..NrCpus
    BY DEF Init
  <2> HIDE AmpBootAssumption
  <2> QED BY <2>1, <2>2, <2>3, <2>4, <2>5, <2>6 DEF Init, TypeOK
<1>2. DistinctNodes
  BY DEF Init, WellFormed, DistinctNodes
<1>3. SlotInv
  BY DEF Init, SlotInv, EnabledBelow, SlotsSeen, SlotsDistinct, ConfiguredSlots
<1> QED BY <1>1, <1>2, <1>3 DEF BootInv

(* A step that leaves the tree and the slots alone, and does not go back in*)
(* the walk, keeps SlotInv.                                                *)
LEMMA SlotsKept ==
  ASSUME BootInv, tree' = tree, lx'.i \in Nat, lx.i <= lx'.i, lx'.idx = lx.idx,
         lx'.info = lx.info, lx'.configured = lx.configured
  PROVE  DistinctNodes' /\ SlotInv'
<1>1. DistinctNodes'
  BY DEF BootInv, DistinctNodes
<1>2. EnabledBelow'
  BY DEF BootInv, SlotInv, EnabledBelow
<1>3. SlotsSeen'
  <2> SUFFICES ASSUME NEW s \in 0..NrCpus - 1, s < lx.idx
               PROVE  \E j \in DOMAIN tree : j < lx'.i /\ tree[j].id = lx.info[s].cpu_id
    BY DEF SlotsSeen
  <2>1. PICK j \in DOMAIN tree : j < lx.i /\ tree[j].id = lx.info[s].cpu_id
    BY DEF BootInv, SlotInv, SlotsSeen
  <2>2. j < lx'.i
    BY <2>1 DEF BootInv, TypeOK
  <2> QED BY <2>1, <2>2
<1>4. SlotsDistinct' /\ ConfiguredSlots'
  BY DEF BootInv, SlotInv, SlotsDistinct, ConfiguredSlots
<1> QED BY <1>1, <1>2, <1>3, <1>4 DEF SlotInv

(* What the firmware may answer to CPU_ON keeps the types.                 *)
LEMMA FirmwareTypes ==
  ASSUME TypeOK, NEW c \in Cpu, NEW what \in {"linux", "amp"},
         CpuOn(c, what) \/ CpuOnRefused(c) \/ CpuOnFails(c)
  PROVE  /\ run' \in [Cpu -> {"off", "uboot", "linux", "amp"}]
         /\ refused' \subseteq Cpu /\ faults' \in 0..MaxFaults
<1>1. CASE CpuOn(c, what)
  <2>1. what \in {"off", "uboot", "linux", "amp"}
    OBVIOUS
  <2> QED BY <1>1, <2>1 DEF CpuOn, TypeOK
<1>2. CASE CpuOnRefused(c)
  BY <1>2 DEF CpuOnRefused, TypeOK
<1>3. CASE CpuOnFails(c)
  <2>1. faults' \in 0..MaxFaults
    BY <1>3, AmpBootAssumption DEF CpuOnFails, Fault, TypeOK
  <2> QED BY <1>3, <2>1 DEF CpuOnFails, TypeOK
<1> QED BY <1>1, <1>2, <1>3

LEMMA FaultType ==
  ASSUME TypeOK, Fault PROVE faults' \in 0..MaxFaults
BY AmpBootAssumption DEF TypeOK, Fault

UbType == [pc : {"read", "parse", "load", "images", "returned", "failed", "gone", "stuck"},
           i : Nat \ {0}, owned : SUBSET Cpu,
           boot : [linux : BOOLEAN, entry : BOOLEAN, bootOn : BOOLEAN]]

LEMMA UbMoves ==
  ASSUME TypeOK
  PROVE  /\ UbNext => ub' \in UbType
         /\ \A pc \in {"parse", "load", "images", "returned", "failed", "gone", "stuck"} :
              UbTo(pc) => ub' \in UbType
BY DEF TypeOK, UbType, UbNext, UbTo

(* u-boot's steps do not touch what Linux's driver knows.                  *)
LEMMA UBootTypes == ASSUME BootInv, UBoot PROVE TypeOK'
<1> USE DEF BootInv
<1>1. conf' = conf /\ tree' = tree /\ lx' = lx
  BY DEF UBoot, ReadPartition, ParseDispatcher, LoadImages, Standalone,
         PropertyMissing, RecordBootCpu, LoadFails, LeaveOff, BringUp, BootCpuFinish
<1>2. SUFFICES /\ ub' \in UbType
               /\ run' \in [Cpu -> {"off", "uboot", "linux", "amp"}]
               /\ refused' \subseteq Cpu /\ faults' \in 0..MaxFaults
  BY <1>1 DEF TypeOK, UbType
<1>3. CASE ReadPartition \/ LoadImages
  BY <1>3, FaultType, UbMoves DEF ReadPartition, LoadImages, TypeOK
<1>4. CASE ParseDispatcher
  <2>1. \A i \in DOMAIN tree : tree[i] \in Node
    BY DEF TypeOK
  <2>2. DispatcherCpus \subseteq Cpu
    BY <2>1 DEF DispatcherCpus, Node
  <2> QED BY <1>4, <2>2 DEF ParseDispatcher, TypeOK, UbType
<1>5. CASE Standalone \/ PropertyMissing \/ LeaveOff
  BY <1>5, UbMoves DEF Standalone, PropertyMissing, LeaveOff, TypeOK
<1>6. ASSUME AtImage PROVE Img \in Image
  BY <1>6 DEF AtImage, Img, TypeOK
<1>7. CASE RecordBootCpu
  <2>1. Img.linux \in BOOLEAN /\ Img.entry \in BOOLEAN /\ BootOn(Img) \in BOOLEAN
    BY <1>6, <1>7 DEF RecordBootCpu, Image, BootOn
  <2> DEFINE boot == [linux |-> Img.linux, entry |-> Img.entry, bootOn |-> BootOn(Img)]
  <2>2. boot \in [linux : BOOLEAN, entry : BOOLEAN, bootOn : BOOLEAN]
    BY <2>1
  <2>3. ub' = [ub EXCEPT !.i = @ + 1, !.boot = boot]
    BY <1>7 DEF RecordBootCpu
  <2> HIDE DEF boot
  <2>4. ub' \in UbType
    <3>1. ub \in UbType /\ ub.i + 1 \in Nat \ {0}
      BY DEF TypeOK, UbType
    <3>2. /\ ub'.pc = ub.pc /\ ub'.i = ub.i + 1 /\ ub'.owned = ub.owned
          /\ ub'.boot = boot
          /\ ub' = [pc |-> ub'.pc, i |-> ub'.i, owned |-> ub'.owned, boot |-> ub'.boot]
      BY <2>3, <3>1 DEF UbType
    <3> QED BY <2>2, <3>1, <3>2 DEF UbType
  <2> QED BY <1>7, <2>4 DEF RecordBootCpu, TypeOK
<1>8. CASE LoadFails
  BY <1>8, FaultType, UbMoves DEF LoadFails, TypeOK
<1>9. CASE BringUp
  <2>1. Img.cpu \in Cpu
    BY <1>6, <1>9 DEF BringUp, OtherCpu, Image
  <2>2. ub' \in UbType
    BY <1>9, UbMoves DEF BringUp
  <2>3. PICK what \in {"linux", "amp"} :
          CpuOn(Img.cpu, what) \/ CpuOnRefused(Img.cpu) \/ CpuOnFails(Img.cpu)
    BY <1>9 DEF BringUp
  <2> QED BY <2>1, <2>2, <2>3, FirmwareTypes
<1>10. CASE BootCpuFinish
  BY <1>10, UbMoves, FaultType, AmpBootAssumption DEF BootCpuFinish, TypeOK
<1> QED
  BY <1>3, <1>4, <1>5, <1>7, <1>8, <1>9, <1>10 DEF UBoot

LEMMA UBootStep == ASSUME BootInv, UBoot PROVE BootInv'
<1>1. /\ tree' = tree /\ lx'.i \in Nat /\ lx.i <= lx'.i /\ lx'.idx = lx.idx
      /\ lx'.info = lx.info /\ lx'.configured = lx.configured
  <2>1. tree' = tree /\ lx' = lx
    BY DEF UBoot, ReadPartition, ParseDispatcher, LoadImages, Standalone,
           PropertyMissing, RecordBootCpu, LoadFails, LeaveOff, BringUp, BootCpuFinish
  <2> QED BY <2>1 DEF BootInv, TypeOK
<1> QED BY <1>1, UBootTypes, SlotsKept DEF BootInv

LxType == [pc : {"down", "cpus", "ready", "failed"}, i : Nat \ {0},
           idx : 0..NrCpus, info : [0..NrCpus - 1 -> Slot],
           configured : SUBSET Cpu, answer : [cpu : Nat, text : Answers]]

(* Steps of Linux that change neither the walk's place nor the slots.      *)
LEMMA LinuxStays ==
  ASSUME BootInv, BootLinux \/ ProbeStart \/ SkipNode \/ ProbeEnd
  PROVE  BootInv'
<1> USE DEF BootInv
<1>1. CASE BootLinux
  <2>1. TypeOK'
    BY <1>1, AmpBootAssumption DEF BootLinux, TypeOK
  <2>2. /\ tree' = tree /\ lx'.i \in Nat /\ lx.i <= lx'.i /\ lx'.idx = lx.idx
        /\ lx'.info = lx.info /\ lx'.configured = lx.configured
    BY <1>1 DEF BootLinux, TypeOK
  <2> QED BY <2>1, <2>2, SlotsKept
<1>2. CASE ProbeStart \/ ProbeEnd
  <2>1. PICK pc \in {"cpus", "ready", "failed"} : lx' = [lx EXCEPT !.pc = pc]
    BY <1>2 DEF ProbeStart, ProbeEnd
  <2>2. lx' \in LxType
    <3>1. lx \in LxType
      BY DEF TypeOK, LxType
    <3>2. [lx EXCEPT !.pc = pc] \in LxType
      BY <3>1 DEF LxType
    <3> QED BY <2>1, <3>2
  <2>3. faults' \in 0..MaxFaults
    BY <1>2, FaultType DEF ProbeStart, ProbeEnd, TypeOK
  <2>4. UNCHANGED <<conf, tree, ub, run, refused>>
    BY <1>2 DEF ProbeStart, ProbeEnd
  <2>5. TypeOK'
    BY <2>2, <2>3, <2>4 DEF TypeOK, LxType
  <2>6. /\ tree' = tree /\ lx'.i \in Nat /\ lx.i <= lx'.i /\ lx'.idx = lx.idx
        /\ lx'.info = lx.info /\ lx'.configured = lx.configured
    BY <2>1, <2>4 DEF TypeOK
  <2> QED BY <2>5, <2>6, SlotsKept
<1>3. CASE SkipNode
  <2>1. lx' = [lx EXCEPT !.i = @ + 1] /\ UNCHANGED <<conf, tree, ub, run, refused, faults>>
    BY <1>3 DEF SkipNode
  <2>2. lx' \in LxType
    <3>1. lx \in LxType /\ lx.i + 1 \in Nat \ {0}
      BY DEF TypeOK, LxType
    <3>2. [lx EXCEPT !.i = lx.i + 1] \in LxType
      BY <3>1 DEF LxType
    <3> QED BY <2>1, <3>2
  <2>3. TypeOK'
    BY <2>1, <2>2 DEF TypeOK, LxType
  <2>4. /\ tree' = tree /\ lx'.i \in Nat /\ lx.i <= lx'.i /\ lx'.idx = lx.idx
        /\ lx'.info = lx.info /\ lx'.configured = lx.configured
    BY <2>1 DEF TypeOK
  <2> QED BY <2>3, <2>4, SlotsKept
<1> QED BY <1>1, <1>2, <1>3

(* sysfs reads the slots and writes only its answer.                       *)
LEMMA SysfsStep == ASSUME BootInv, Sysfs PROVE BootInv'
<1> USE DEF BootInv
<1>1. PICK n \in Written : StoreOn(n) \/ StoreUnavailable(n) \/ StoreOff(n)
  BY DEF Sysfs
<1>2. n \in Nat
  BY AmpBootAssumption
<1>3. lx' = lx \/ \E text \in Answers : lx' = [lx EXCEPT !.answer = [cpu |-> n, text |-> text]]
  BY <1>1 DEF StoreOn, StoreUnavailable, StoreOff, Answer, Answers
<1>4. lx' \in LxType
  BY SMTT(30), <1>2, <1>3 DEF TypeOK, LxType
<1>5. run' \in [Cpu -> {"off", "uboot", "linux", "amp"}]
  BY <1>1 DEF StoreOn, StoreUnavailable, StoreOff, TypeOK
<1>6. faults' \in 0..MaxFaults
  BY <1>1, FaultType DEF StoreOn, StoreUnavailable, StoreOff, TypeOK
<1>7. UNCHANGED <<conf, tree, ub, refused>>
  BY <1>1 DEF StoreOn, StoreUnavailable, StoreOff
<1>8. TypeOK'
  BY <1>4, <1>5, <1>6, <1>7 DEF TypeOK, LxType
<1>9. /\ tree' = tree /\ lx'.i \in Nat /\ lx.i <= lx'.i /\ lx'.idx = lx.idx
      /\ lx'.info = lx.info /\ lx'.configured = lx.configured
  BY <1>3, <1>7, SMTT(30) DEF TypeOK
<1> QED BY <1>8, <1>9, SlotsKept

(* A node fills the slot at idx, above every success.  If it fails, the    *)
(* slot stays disabled and idx where it is.                                *)
LEMMA FillStep ==
  ASSUME BootInv, AtNode, Room, tree' = tree, lx' = Filled(lx)
  PROVE  lx' \in LxType /\ DistinctNodes' /\ SlotInv'
<1> USE DEF BootInv
<1> DEFINE k == lx.idx
<1>1. Nd \in Node /\ lx.i \in DOMAIN tree /\ Nd = tree[lx.i]
  BY DEF AtNode, Nd, TypeOK
<1>2. k \in 0..NrCpus - 1 /\ k \in Nat /\ NrCpus \in Nat
  BY AmpBootAssumption DEF Room, TypeOK
<1>3. Nd.id \in Cpu /\ Nd.id \in Nat
  BY <1>1, AmpBootAssumption DEF Node
<1>4. /\ lx'.pc = lx.pc /\ lx'.i = lx.i + 1 /\ lx'.idx = k
      /\ lx'.configured = lx.configured /\ lx'.answer = lx.answer
      /\ lx'.info = [lx.info EXCEPT ![k] = [@ EXCEPT !.cpu_id = Nd.id]]
      /\ lx' = [pc |-> lx'.pc, i |-> lx'.i, idx |-> lx'.idx, info |-> lx'.info,
                configured |-> lx'.configured, answer |-> lx'.answer]
  BY DEF Filled, TypeOK
<1>5. lx'.info \in [0..NrCpus - 1 -> Slot]
  <2>1. lx.info \in [0..NrCpus - 1 -> Slot]
    BY DEF TypeOK
  <2>2. [lx.info[k] EXCEPT !.cpu_id = Nd.id] \in Slot
    BY <1>2, <1>3, <2>1 DEF Slot
  <2> QED BY <1>2, <1>4, <2>1, <2>2
<1>6. lx' \in LxType
  <2>1. /\ lx.pc \in {"down", "cpus", "ready", "failed"} /\ lx.i + 1 \in Nat \ {0}
        /\ lx.idx \in 0..NrCpus /\ lx.configured \in SUBSET Cpu
        /\ lx.answer \in [cpu : Nat, text : Answers]
    BY DEF TypeOK
  <2> QED BY <1>4, <1>5, <2>1 DEF LxType
<1>7. \A s \in 0..NrCpus - 1 : s # k => lx'.info[s] = lx.info[s]
  BY <1>4 DEF TypeOK
<1>8. lx'.info[k].en = lx.info[k].en
  BY <1>2, <1>4 DEF TypeOK, Slot
<1>9. EnabledBelow'
  BY <1>4, <1>7, <1>8 DEF SlotInv, EnabledBelow
<1>10. SlotsSeen'
  <2> SUFFICES ASSUME NEW s \in 0..NrCpus - 1, s < k
               PROVE  \E j \in DOMAIN tree : j < lx.i + 1 /\ tree[j].id = lx'.info[s].cpu_id
    BY <1>4 DEF SlotsSeen
  <2>1. PICK j \in DOMAIN tree : j < lx.i /\ tree[j].id = lx.info[s].cpu_id
    BY DEF SlotInv, SlotsSeen
  <2>2. j \in Nat /\ lx.i \in Nat /\ s # k
    BY <1>2 DEF TypeOK
  <2> QED BY <1>7, <2>1, <2>2
<1>11. SlotsDistinct' /\ ConfiguredSlots'
  BY SMTT(30), <1>2, <1>4, <1>7 DEF SlotInv, SlotsDistinct, ConfiguredSlots, TypeOK
<1>12. DistinctNodes'
  BY DEF DistinctNodes
<1> QED BY <1>6, <1>9, <1>10, <1>11, <1>12 DEF SlotInv

(* If it succeeds, the slot is enabled, its core is not one of an earlier  *)
(* slot because the nodes' ids differ, and idx moves on.                   *)
LEMMA EnableStep ==
  ASSUME BootInv, AtNode, Room, tree' = tree, lx' = Enabled(lx)
  PROVE  lx' \in LxType /\ DistinctNodes' /\ SlotInv'
<1> USE DEF BootInv
<1> DEFINE k == lx.idx
<1>1. Nd \in Node /\ lx.i \in DOMAIN tree /\ Nd = tree[lx.i]
  BY DEF AtNode, Nd, TypeOK
<1>2. k \in 0..NrCpus - 1 /\ k \in Nat /\ NrCpus \in Nat
  BY AmpBootAssumption DEF Room, TypeOK
<1>3. Nd.id \in Cpu /\ Nd.id \in Nat
  BY <1>1, AmpBootAssumption DEF Node
<1> DEFINE f == Filled(lx)
<1>4. f = [lx EXCEPT !.i = @ + 1, !.info[k].cpu_id = Nd.id]
  BY DEF Filled
<1>5. lx' = [f EXCEPT !.info[k].en = TRUE, !.idx = @ + 1,
                      !.configured = @ \cup {Nd.id}]
  BY DEF Enabled
<1> HIDE DEF f
<1>6. /\ f.pc = lx.pc /\ f.i = lx.i + 1 /\ f.idx = k
      /\ f.configured = lx.configured /\ f.answer = lx.answer
      /\ f.info = [lx.info EXCEPT ![k] = [@ EXCEPT !.cpu_id = Nd.id]]
      /\ f = [pc |-> f.pc, i |-> f.i, idx |-> f.idx, info |-> f.info,
              configured |-> f.configured, answer |-> f.answer]
  BY <1>4 DEF TypeOK
<1>7. /\ lx'.pc = lx.pc /\ lx'.i = lx.i + 1 /\ lx'.idx = k + 1
      /\ lx'.configured = lx.configured \cup {Nd.id} /\ lx'.answer = lx.answer
      /\ lx'.info = [f.info EXCEPT ![k] = [@ EXCEPT !.en = TRUE]]
      /\ lx' = [pc |-> lx'.pc, i |-> lx'.i, idx |-> lx'.idx, info |-> lx'.info,
                configured |-> lx'.configured, answer |-> lx'.answer]
  BY <1>5, <1>6
<1>8. f.info \in [0..NrCpus - 1 -> Slot] /\ f.info[k].cpu_id = Nd.id
  <2>1. lx.info \in [0..NrCpus - 1 -> Slot]
    BY DEF TypeOK
  <2>2. [lx.info[k] EXCEPT !.cpu_id = Nd.id] \in Slot
    BY <1>2, <1>3, <2>1 DEF Slot
  <2>3. [lx.info[k] EXCEPT !.cpu_id = Nd.id].cpu_id = Nd.id
    BY <1>2, <2>1 DEF Slot
  <2> QED BY <1>2, <1>6, <2>1, <2>2, <2>3
<1>9. /\ lx'.info \in [0..NrCpus - 1 -> Slot]
      /\ lx'.info[k].en /\ lx'.info[k].cpu_id = Nd.id
  <2>1. [f.info[k] EXCEPT !.en = TRUE] \in Slot
    BY <1>2, <1>8 DEF Slot
  <2>2. /\ [f.info[k] EXCEPT !.en = TRUE].en
        /\ [f.info[k] EXCEPT !.en = TRUE].cpu_id = Nd.id
    BY <1>2, <1>8 DEF Slot
  <2> QED BY <1>2, <1>7, <1>8, <2>1, <2>2
<1>10. \A s \in 0..NrCpus - 1 : s # k => lx'.info[s] = lx.info[s]
  <2> TAKE s \in 0..NrCpus - 1
  <2> HAVE s # k
  <2>1. f.info[s] = lx.info[s]
    BY <1>6 DEF TypeOK
  <2>2. lx'.info[s] = f.info[s]
    BY <1>7, <1>8
  <2> QED BY <2>1, <2>2
<1>11. lx' \in LxType
  <2>1. /\ lx.pc \in {"down", "cpus", "ready", "failed"} /\ lx.i + 1 \in Nat \ {0}
        /\ k + 1 \in 0..NrCpus /\ lx.configured \cup {Nd.id} \in SUBSET Cpu
        /\ lx.answer \in [cpu : Nat, text : Answers]
    BY SMTT(30), <1>2, <1>3 DEF TypeOK
  <2> QED BY <1>7, <1>9, <2>1 DEF LxType
<1>12. EnabledBelow'
  <2> SUFFICES ASSUME NEW s \in 0..NrCpus - 1
               PROVE  lx'.info[s].en <=> s < k + 1
    BY <1>7 DEF EnabledBelow
  <2>1. s < k + 1 <=> s < k \/ s = k
    BY <1>2
  <2>2. CASE s = k
    BY <1>9, <2>1, <2>2
  <2>3. CASE s # k
    <3>1. lx.info[s].en <=> s < k
      BY DEF SlotInv, EnabledBelow
    <3> QED BY <1>10, <2>1, <2>3, <3>1
  <2> QED BY <2>2, <2>3
<1>13. SlotsSeen'
  <2> SUFFICES ASSUME NEW s \in 0..NrCpus - 1, s < k + 1
               PROVE  \E j \in DOMAIN tree : j < lx.i + 1 /\ tree[j].id = lx'.info[s].cpu_id
    BY <1>7 DEF SlotsSeen
  <2>1. CASE s = k
    <3>1. lx.i < lx.i + 1
      BY DEF TypeOK
    <3> QED BY <1>1, <1>9, <2>1, <3>1
  <2>2. CASE s # k
    <3>1. s < k
      BY <1>2, <2>2
    <3>2. PICK j \in DOMAIN tree : j < lx.i /\ tree[j].id = lx.info[s].cpu_id
      BY <3>1 DEF SlotInv, SlotsSeen
    <3>3. j < lx.i + 1
      <4>1. j \in Nat /\ lx.i \in Nat
        BY DEF TypeOK
      <4> QED BY <3>2, <4>1
    <3>4. tree[j].id = lx'.info[s].cpu_id
      BY <1>10, <2>2, <3>2
    <3> QED BY <3>3, <3>4
  <2> QED BY <2>1, <2>2
<1>14. \A s \in 0..NrCpus - 1 : s < k => lx.info[s].cpu_id # Nd.id
  <2> SUFFICES ASSUME NEW s \in 0..NrCpus - 1, s < k, lx.info[s].cpu_id = Nd.id
               PROVE  FALSE
    OBVIOUS
  <2>1. PICK j \in DOMAIN tree : j < lx.i /\ tree[j].id = lx.info[s].cpu_id
    BY DEF SlotInv, SlotsSeen
  <2>2. j = lx.i
    BY <1>1, <2>1 DEF DistinctNodes
  <2>3. lx.i \in Nat
    BY DEF TypeOK
  <2> QED BY <2>1, <2>2, <2>3
<1>15. SlotsDistinct'
  BY SMTT(30), <1>2, <1>7, <1>9, <1>10, <1>14 DEF SlotInv, SlotsDistinct
<1>16. ConfiguredSlots'
  <2> SUFFICES ASSUME NEW c \in Cpu
               PROVE  c \in lx.configured \cup {Nd.id} <=>
                      \E s \in 0..NrCpus - 1 : s < k + 1 /\ lx'.info[s].cpu_id = c
    BY <1>3, <1>7 DEF SlotInv, ConfiguredSlots
  <2>1. \A s \in 0..NrCpus - 1 : s < k + 1 <=> s < k \/ s = k
    BY <1>2
  <2>2. c \in lx.configured <=>
          \E s \in 0..NrCpus - 1 : s < k /\ lx.info[s].cpu_id = c
    BY DEF SlotInv, ConfiguredSlots
  <2>3. (\E s \in 0..NrCpus - 1 : s < k + 1 /\ lx'.info[s].cpu_id = c)
          <=> c = Nd.id \/ (\E s \in 0..NrCpus - 1 : s < k /\ lx.info[s].cpu_id = c)
    BY SMTT(30), <1>2, <1>9, <1>10, <2>1
  <2> QED BY <2>2, <2>3
<1>17. DistinctNodes'
  BY DEF DistinctNodes
<1> QED BY <1>11, <1>12, <1>13, <1>15, <1>16, <1>17 DEF SlotInv

LEMMA BootCpusStep == ASSUME BootInv, BootCpus PROVE BootInv'
<1> USE DEF BootInv
<1>1. AtNode /\ Room /\ UNCHANGED <<conf, tree, ub>>
  BY DEF BootCpus
<1>2. lx' = Filled(lx) \/ lx' = Enabled(lx)
  BY DEF BootCpus
<1>3. lx' \in LxType /\ DistinctNodes' /\ SlotInv'
  BY <1>1, <1>2, FillStep, EnableStep
<1>4. Nd.id \in Cpu
  <2>1. Nd \in Node
    BY <1>1 DEF AtNode, Nd, TypeOK
  <2> QED BY <2>1 DEF Node
<1>5. /\ run' \in [Cpu -> {"off", "uboot", "linux", "amp"}]
      /\ refused' \subseteq Cpu /\ faults' \in 0..MaxFaults
  <2>1. CASE UNCHANGED <<run, refused>> /\ (Fault \/ UNCHANGED faults)
    BY <2>1, FaultType DEF TypeOK
  <2>2. CASE CpuOn(Nd.id, "amp") \/ CpuOnRefused(Nd.id) \/ CpuOnFails(Nd.id)
    BY <1>4, <2>2, FirmwareTypes
  <2> QED BY <2>1, <2>2 DEF BootCpus
<1>6. TypeOK'
  BY <1>1, <1>3, <1>5 DEF TypeOK, LxType
<1> QED BY <1>3, <1>6

LEMMA BootNext == ASSUME BootInv, [Next]_vars PROVE BootInv'
<1>1. CASE UNCHANGED vars
  <2>1. UNCHANGED <<conf, tree, ub, lx, run, refused, faults>>
    BY <1>1 DEF vars
  <2>2. TypeOK'
    BY <2>1 DEF TypeOK, BootInv
  <2>3. DistinctNodes' /\ SlotInv'
    BY <2>1 DEF BootInv, DistinctNodes, SlotInv, EnabledBelow, SlotsSeen,
                SlotsDistinct, ConfiguredSlots
  <2> QED BY <2>2, <2>3 DEF BootInv
<1> QED
  BY <1>1, UBootStep, LinuxStays, BootCpusStep, SysfsStep DEF Next, Probe

THEOREM Invariant == Spec => []BootInv
  BY BootInit, BootNext, PTL DEF Spec

(* Both boots stay in their types: in particular no slot outside           *)
(* cpu_boot_info is touched, however many nodes the tree has.              *)
THEOREM TypeCorrect == Spec => []TypeOK
<1>1. BootInv => TypeOK
  BY DEF BootInv
<1> QED BY Invariant, <1>1, PTL

(* sysfs offers exactly the cores rockchip_amp_boot_cpus has set up: the   *)
(* first slot with the id of such a core is its enabled one, and no other  *)
(* id has an enabled slot.                                                 *)
THEOREM SysfsExact == Spec => []SysfsKnows
<1>1. BootInv => SysfsKnows
  <2> SUFFICES ASSUME BootInv, NEW c \in Cpu
               PROVE  Available(c) <=> c \in lx.configured
    BY DEF SysfsKnows, BootInv, TypeOK
  <2> USE DEF BootInv, SlotInv
  <2>1. ASSUME Available(c) PROVE c \in lx.configured
    BY <2>1 DEF Available, Matches, EnabledBelow, ConfiguredSlots
  <2>2. ASSUME c \in lx.configured PROVE Available(c)
    <3>1. PICK s \in 0..NrCpus - 1 : s < lx.idx /\ lx.info[s].cpu_id = c
      BY <2>2 DEF ConfiguredSlots
    <3>2. s \in Matches(c) /\ lx.info[s].en
      BY <3>1 DEF Matches, EnabledBelow
    <3>3. ASSUME NEW t \in Matches(c) PROVE s <= t
      <4>1. t \in 0..NrCpus - 1 /\ lx.info[t].cpu_id = c
        BY <3>3 DEF Matches
      <4>2. lx.idx \in Nat /\ s \in Nat /\ t \in Nat
        BY <4>1, AmpBootAssumption DEF TypeOK
      <4>3. t < lx.idx => s = t
        BY <3>1, <4>1 DEF SlotsDistinct
      <4> QED BY <3>1, <4>2, <4>3
    <3> QED BY <3>2, <3>3 DEF Available
  <2> QED BY <2>1, <2>2
<1> QED BY Invariant, <1>1, PTL
-----------------------------------------------------------------------------
(* Who owns which core.  Neither the images nor the nodes change, so what  *)
(* they say of each other stays; u-boot goes by the ids it has read.       *)
OnCore(j) == j \in DOMAIN conf /\ ~conf[j].standalone

WellPlaced ==
  /\ \A i, j \in DOMAIN conf :
        OnCore(i) /\ OnCore(j) /\ conf[i].cpu = conf[j].cpu => i = j
  /\ \A j \in DOMAIN conf : conf[j].linux => conf[j].cpu \notin DispatcherCpus
  /\ BootCpu \in DispatcherCpus =>
        \E j \in DOMAIN conf : OnCore(j) /\ conf[j].cpu = BootCpu

OwnedRead ==
  /\ ub.pc \in {"load", "images"} => ub.owned = DispatcherCpus
  /\ ub.pc \in {"read", "parse", "load"} => ub.i = 1

(* A boot CPU that belongs to the dispatcher is not kept by u-boot.        *)
BootCpuGiven ==
  BootCpu \in DispatcherCpus =>
    /\ ub.pc # "returned"
    /\ ub.pc = "images" =>
         \A j \in DOMAIN conf :
            OnCore(j) /\ j < ub.i /\ conf[j].cpu = BootCpu => ~ub.boot.bootOn

LinuxKept ==
  \A c \in DispatcherCpus : run[c] = "linux" => c = BootCpu /\ ub.pc = "failed"

PlaceInv == WellPlaced /\ OwnedRead /\ BootCpuGiven /\ LinuxKept

LEMMA DispatcherType == TypeOK => DispatcherCpus \subseteq Cpu
<1> SUFFICES ASSUME TypeOK, NEW i \in DOMAIN tree PROVE tree[i].id \in Cpu
  BY DEF DispatcherCpus
<1>1. tree[i] \in Node
  BY DEF TypeOK
<1> QED BY <1>1 DEF Node

LEMMA PlaceInit == Init => PlaceInv
<1> SUFFICES ASSUME Init PROVE PlaceInv
  OBVIOUS
<1>1. WellPlaced
  <2>1. WellFormed(conf, tree)
    BY DEF Init
  <2> HIDE DEF Init
  <2> QED BY <2>1 DEF WellFormed, WellPlaced, OnCore, Cores, DispatcherCpus
<1>2. ub.pc = "read" /\ ub.i = 1 /\ \A c \in Cpu : run[c] # "linux"
  BY DEF Init
<1>3. DispatcherCpus \subseteq Cpu
  BY BootInit, DispatcherType DEF BootInv
<1> QED BY <1>1, <1>2, <1>3 DEF PlaceInv, OwnedRead, BootCpuGiven, LinuxKept

(* A step of u-boot that starts no core.                                   *)
LEMMA PlaceKept ==
  ASSUME PlaceInv, UNCHANGED <<conf, tree, run>>, OwnedRead', BootCpuGiven',
         ub.pc = "failed" => ub'.pc = "failed"
  PROVE  PlaceInv'
<1>1. DispatcherCpus' = DispatcherCpus
  BY DEF DispatcherCpus
<1>2. WellPlaced'
  BY <1>1 DEF PlaceInv, WellPlaced, OnCore
<1>3. LinuxKept'
  BY <1>1 DEF PlaceInv, LinuxKept
<1> QED BY <1>2, <1>3 DEF PlaceInv

LEMMA PlaceUBoot == ASSUME BootInv, PlaceInv, UBoot PROVE PlaceInv'
<1> USE DEF PlaceInv
<1>1. /\ UNCHANGED <<conf, tree>> /\ ub.pc \in {"read", "parse", "load", "images"}
  BY DEF UBoot, ReadPartition, ParseDispatcher, LoadImages, Standalone, PropertyMissing,
         RecordBootCpu, LoadFails, LeaveOff, BringUp, BootCpuFinish, AtImage, OtherCpu
<1>2. /\ DispatcherCpus' = DispatcherCpus /\ DispatcherCpus \subseteq Cpu
      /\ \A j : OnCore(j)' <=> OnCore(j)
      /\ ub.pc # "failed"
      /\ ub \in [pc : {"read", "parse", "load", "images", "returned", "failed",
                     "gone", "stuck"},
             i : Nat \ {0}, owned : SUBSET Cpu,
             boot : [linux : BOOLEAN, entry : BOOLEAN, bootOn : BOOLEAN]]
      /\ run \in [Cpu -> {"off", "uboot", "linux", "amp"}]
  BY <1>1, DispatcherType DEF DispatcherCpus, OnCore, BootInv, TypeOK
<1>3. CASE ReadPartition \/ PropertyMissing \/ LoadFails
  BY <1>1, <1>2, <1>3, PlaceKept
     DEF ReadPartition, PropertyMissing, LoadFails, UbTo, OwnedRead, BootCpuGiven, AtImage,
         OtherCpu
<1>4. CASE ParseDispatcher
  BY <1>1, <1>2, <1>4, PlaceKept DEF ParseDispatcher, OwnedRead, BootCpuGiven
<1>5. CASE LoadImages
  <2>1. \A j \in DOMAIN conf : ~(j < 1)
    BY DEF BootInv, TypeOK
  <2> QED
    BY <1>1, <1>2, <1>5, <2>1, PlaceKept DEF LoadImages, UbTo, OwnedRead, BootCpuGiven
<1>6. CASE Standalone \/ LeaveOff
  <2>1. /\ ub.pc = "images" /\ UNCHANGED run /\ ub' = [ub EXCEPT !.i = ub.i + 1]
        /\ ~(OnCore(ub.i) /\ conf[ub.i].cpu = BootCpu)
    BY <1>6 DEF Standalone, LeaveOff, OtherCpu, AtImage, Img, UbNext, OnCore
  <2>2. \A j \in DOMAIN conf : j < ub.i + 1 => j < ub.i \/ j = ub.i
    BY <1>2 DEF BootInv, TypeOK
  <2>3. BootCpuGiven'
    BY <1>1, <1>2, <2>1, <2>2 DEF BootCpuGiven
  <2> QED
    BY <1>1, <1>2, <2>1, <2>3, PlaceKept DEF OwnedRead
<1>7. CASE RecordBootCpu
  <2>1. /\ ub.pc = "images" /\ UNCHANGED run /\ ub'.pc = "images" /\ ub'.owned = ub.owned
        /\ ub'.boot.bootOn = BootOn(Img) /\ Img.cpu = BootCpu
    BY <1>2, <1>7 DEF RecordBootCpu, AtImage
  <2>2. BootCpu \in DispatcherCpus => ~ub'.boot.bootOn
    BY <2>1 DEF BootOn, OwnedRead
  <2> QED
    BY <1>1, <1>2, <2>1, <2>2, PlaceKept DEF OwnedRead, BootCpuGiven
<1>8. CASE BringUp
  <2>1. /\ ub.pc = "images" /\ Img.cpu # BootCpu /\ Img.cpu \notin DispatcherCpus
        /\ \/ ub' = [ub EXCEPT !.i = ub.i + 1]
           \/ ub' = [ub EXCEPT !.pc = "failed"]
    BY <1>8 DEF BringUp, OtherCpu, AtImage, BootOn, OwnedRead, UbNext, UbTo
  <2>2. \A c \in DispatcherCpus : run'[c] = run[c]
    BY <1>2, <1>8, <2>1 DEF BringUp, CpuOn, CpuOnRefused, CpuOnFails
  <2>3. \A j \in DOMAIN conf : j < ub.i + 1 => j < ub.i \/ j = ub.i
    BY <1>2 DEF BootInv, TypeOK
  <2>4. OwnedRead' /\ BootCpuGiven'
    BY <1>1, <1>2, <2>1, <2>3 DEF OwnedRead, BootCpuGiven, Img
  <2>5. WellPlaced' /\ LinuxKept'
    BY <1>1, <1>2, <2>2 DEF WellPlaced, LinuxKept
  <2> QED BY <2>4, <2>5
<1>9. CASE BootCpuFinish
  <2>1. /\ ub.pc = "images" /\ ub.i > Len(conf)
        /\ \E pc \in {"gone", "stuck", "returned"} : ub' = [ub EXCEPT !.pc = pc]
        /\ \A c \in Cpu : run'[c] = "linux" => run[c] = "linux"
    BY <1>2, <1>9 DEF BootCpuFinish, UbTo
  <2>2. BootCpu \in DispatcherCpus => ub'.pc \in {"gone", "stuck"}
    <3> SUFFICES ASSUME BootCpu \in DispatcherCpus PROVE ub'.pc \in {"gone", "stuck"}
      OBVIOUS
    <3>1. PICK j \in DOMAIN conf : OnCore(j) /\ conf[j].cpu = BootCpu
      BY DEF WellPlaced
    <3>2. j < ub.i
      BY <1>2, <2>1, <3>1 DEF BootInv, TypeOK
    <3>3. ~ub.boot.bootOn
      BY <2>1, <3>1, <3>2 DEF BootCpuGiven
    <3> QED BY <1>2, <1>9, <3>3 DEF BootCpuFinish, UbTo
  <2>3. OwnedRead' /\ BootCpuGiven'
    BY <1>2, <2>1, <2>2 DEF OwnedRead, BootCpuGiven
  <2>4. WellPlaced' /\ LinuxKept'
    BY <1>1, <1>2, <2>1 DEF WellPlaced, LinuxKept
  <2> QED BY <2>3, <2>4
<1> QED
  BY <1>3, <1>4, <1>5, <1>6, <1>7, <1>8, <1>9 DEF UBoot

(* Linux's own boot and its driver leave u-boot alone; a core that already *)
(* runs Linux is not made to by the driver.                                *)
LEMMA PlaceLinux ==
  ASSUME BootInv, PlaceInv, BootLinux \/ Probe \/ Sysfs \/ UNCHANGED vars
  PROVE  PlaceInv'
<1> USE DEF PlaceInv
<1>1. UNCHANGED <<conf, tree, ub>>
  BY DEF BootLinux, Probe, ProbeStart, SkipNode, BootCpus, ProbeEnd, Sysfs, StoreOn,
         StoreUnavailable, StoreOff, vars
<1>2. /\ DispatcherCpus' = DispatcherCpus /\ DispatcherCpus \subseteq Cpu
      /\ \A j : OnCore(j)' <=> OnCore(j)
      /\ run \in [Cpu -> {"off", "uboot", "linux", "amp"}]
  BY <1>1, DispatcherType DEF DispatcherCpus, OnCore, BootInv, TypeOK
<1>3. WellPlaced' /\ OwnedRead' /\ BootCpuGiven'
  BY <1>1, <1>2 DEF WellPlaced, OwnedRead, BootCpuGiven
<1>4. CASE BootLinux
  <2>1. /\ ub.pc \in {"returned", "failed"}
        /\ \A c \in Cpu : run'[c] = "linux" => run[c] = "linux" \/ c = BootCpu
    BY <1>2, <1>4 DEF BootLinux
  <2> QED BY <1>1, <1>2, <1>3, <2>1 DEF LinuxKept, BootCpuGiven
<1>5. CASE Probe \/ Sysfs \/ UNCHANGED vars
  <2>1. \A c \in Cpu : run'[c] = "linux" => run[c] = "linux"
    <3>1. CASE Probe
      BY <1>2, <3>1
         DEF Probe, ProbeStart, SkipNode, BootCpus, ProbeEnd, CpuOn, CpuOnRefused, CpuOnFails
    <3>2. CASE Sysfs
      BY <1>2, <3>2 DEF Sysfs, StoreOn, StoreUnavailable, StoreOff
    <3>3. CASE UNCHANGED vars
      BY <3>3 DEF vars
    <3> QED BY <1>5, <3>1, <3>2, <3>3
  <2> QED BY <1>1, <1>2, <1>3, <2>1 DEF LinuxKept
<1> QED BY <1>4, <1>5

THEOREM Places == Spec => [](BootInv /\ PlaceInv)
<1>1. BootInv /\ PlaceInv /\ [Next]_vars => PlaceInv'
  BY PlaceUBoot, PlaceLinux DEF Next
<1> QED BY Invariant, PlaceInit, <1>1, PTL DEF Spec

(* Whoever writes to boot_cpu cannot switch off the core Linux runs on,    *)
(* unless u-boot failed and left Linux on a core of the dispatcher; this   *)
(* needs no assumption on how fast Linux comes up.                         *)
THEOREM LinuxSafeFromSysfs == Spec => []LinuxNotOffered
<1>1. BootInv /\ PlaceInv => LinuxNotOffered
  <2> SUFFICES ASSUME BootInv, PlaceInv, NEW c \in Cpu, lx.pc = "ready",
                      run[c] = "linux", Available(c)
               PROVE  c = BootCpu /\ ub.pc = "failed"
    BY DEF LinuxNotOffered
  <2>1. PICK s \in 0..NrCpus - 1 : lx.info[s].cpu_id = c /\ s < lx.idx
    BY DEF Available, Matches, BootInv, SlotInv, EnabledBelow
  <2>2. PICK j \in DOMAIN tree : tree[j].id = c
    BY <2>1 DEF BootInv, SlotInv, SlotsSeen
  <2>3. c \in DispatcherCpus
    BY <2>2 DEF DispatcherCpus
  <2> QED BY <2>3 DEF PlaceInv, LinuxKept
<1> QED BY Places, <1>1, PTL

-----------------------------------------------------------------------------
(* Who has started what so far, when Linux's driver comes after u-boot.    *)
SlowLinux == ~UbDone => lx.pc = "down"

StartedByUBoot ==
  ~UbDone => \A c \in Cpu : run[c] # "off" /\ c # BootCpu =>
    /\ c \notin DispatcherCpus
    /\ ub.pc = "images"
    /\ \E j \in DOMAIN conf : OnCore(j) /\ j < ub.i /\ conf[j].cpu = c

(* What the driver has still to visit is off, or is the core u-boot did not*)
(* get to power off.                                                       *)
NodesAhead ==
  \A j \in DOMAIN tree :
    lx.pc \in {"down", "cpus"} /\ lx.i <= j /\ run[tree[j].id] # "off"
      => tree[j].id = BootCpu /\ ub.pc # "gone"

StartInv == SlowLinux /\ StartedByUBoot /\ NodesAhead /\ StartedOnce

LEMMA StartInit == Init => StartInv
<1> SUFFICES ASSUME Init PROVE StartInv
  OBVIOUS
<1>1. /\ ub.pc = "read" /\ lx.pc = "down" /\ refused = {}
      /\ \A c \in Cpu : run[c] # "off" => c = BootCpu
  BY DEF Init
<1>2. DispatcherCpus \subseteq Cpu
  BY BootInit, DispatcherType DEF BootInv
<1>3. \A j \in DOMAIN tree : tree[j].id \in Cpu
  BY <1>2 DEF DispatcherCpus
<1> QED
  BY <1>1, <1>3 DEF StartInv, SlowLinux, UbDone, StartedByUBoot, NodesAhead, StartedOnce

LEMMA StartUBoot == ASSUME BootInv, PlaceInv, StartInv, UBoot PROVE StartInv'
<1> USE DEF StartInv
<1>1. /\ UNCHANGED <<conf, tree, lx>> /\ ub.pc \in {"read", "parse", "load", "images"}
      /\ ub'.pc # "gone" \/ BootCpuFinish
      /\ refused' = refused \/ BringUp
  <2>1. CASE ReadPartition \/ ParseDispatcher \/ LoadImages
    BY <2>1 DEF ReadPartition, ParseDispatcher, LoadImages, UbTo, BootInv, TypeOK
  <2>2. CASE PropertyMissing \/ LoadFails
    BY <2>2 DEF PropertyMissing, LoadFails, AtImage, OtherCpu, UbTo, BootInv, TypeOK
  <2>5. CASE Standalone \/ LeaveOff
    BY <2>5 DEF Standalone, LeaveOff, AtImage, OtherCpu, UbNext, BootInv, TypeOK
  <2>6. CASE RecordBootCpu
    BY <2>6 DEF RecordBootCpu, AtImage, BootInv, TypeOK
  <2>3. CASE BringUp
    BY <2>3 DEF BringUp, AtImage, OtherCpu, UbTo, UbNext, BootInv, TypeOK
  <2>4. CASE BootCpuFinish
    BY <2>4 DEF BootCpuFinish
  <2> QED BY <2>1, <2>2, <2>3, <2>4, <2>5, <2>6 DEF UBoot
<1>2. /\ DispatcherCpus' = DispatcherCpus /\ DispatcherCpus \subseteq Cpu
      /\ \A j : OnCore(j)' <=> OnCore(j)
      /\ \A j \in DOMAIN tree : tree[j].id \in DispatcherCpus
      /\ ub \in [pc : {"read", "parse", "load", "images", "returned", "failed",
                     "gone", "stuck"},
             i : Nat \ {0}, owned : SUBSET Cpu,
             boot : [linux : BOOLEAN, entry : BOOLEAN, bootOn : BOOLEAN]]
      /\ run \in [Cpu -> {"off", "uboot", "linux", "amp"}]
  BY <1>1, DispatcherType DEF DispatcherCpus, OnCore, BootInv, TypeOK
<1>3. ~UbDone /\ lx.pc = "down" /\ refused = {}
  BY <1>1 DEF UbDone, SlowLinux, StartedOnce
<1>4. SlowLinux'
  BY <1>1, <1>3 DEF SlowLinux
<1>5. CASE BringUp
  <2>1. /\ ub.pc = "images" /\ ub.i \in DOMAIN conf /\ OnCore(ub.i)
        /\ conf[ub.i].cpu # BootCpu /\ conf[ub.i].cpu \notin DispatcherCpus
        /\ conf[ub.i].cpu \in Cpu
    <3>1. ub.i \in DOMAIN conf /\ conf[ub.i] \in Image
      BY <1>2, <1>5 DEF BringUp, OtherCpu, AtImage, BootInv, TypeOK
    <3> QED
      BY <3>1, <1>5 DEF BringUp, OtherCpu, AtImage, BootOn, OnCore, Img, Image, PlaceInv,
                        OwnedRead
  <2>2. run[conf[ub.i].cpu] = "off"
    <3> SUFFICES ASSUME run[conf[ub.i].cpu] # "off" PROVE FALSE
      OBVIOUS
    <3>1. PICK j \in DOMAIN conf : OnCore(j) /\ j < ub.i /\ conf[j].cpu = conf[ub.i].cpu
      BY <1>3, <2>1 DEF StartedByUBoot
    <3>2. j = ub.i
      BY <2>1, <3>1 DEF PlaceInv, WellPlaced
    <3> QED BY <1>2, <3>1, <3>2
  <2>3. /\ refused' = refused
        /\ \/ ub'.pc = "failed" /\ run' = run
           \/ /\ ub' = [ub EXCEPT !.i = ub.i + 1]
              /\ \A c \in Cpu : c # conf[ub.i].cpu => run'[c] = run[c]
    BY <1>2, <1>5, <2>2 DEF BringUp, CpuOn, CpuOnRefused, CpuOnFails, UbTo, UbNext, Img
  <2>4. StartedOnce'
    BY <1>3, <2>3 DEF StartedOnce
  <2>5. NodesAhead'
    BY <1>1, <1>2, <1>3, <2>1, <2>3 DEF NodesAhead, BootCpuFinish, UbTo
  <2>6. StartedByUBoot'
    <3>1. CASE ub'.pc = "failed"
      BY <3>1 DEF StartedByUBoot, UbDone
    <3>2. CASE ub' = [ub EXCEPT !.i = ub.i + 1]
      <4>1. /\ ub'.i = ub.i + 1 /\ ub'.pc = "images"
            /\ \A j \in DOMAIN conf : j < ub.i => j < ub.i + 1
            /\ ub.i < ub.i + 1
        BY <1>2, <2>1, <3>2 DEF BootInv, TypeOK
      <4> SUFFICES ASSUME NEW c \in Cpu, run'[c] # "off", c # BootCpu
                   PROVE  /\ c \notin DispatcherCpus
                          /\ \E j \in DOMAIN conf :
                                OnCore(j) /\ j < ub.i + 1 /\ conf[j].cpu = c
        BY <1>1, <1>2, <4>1 DEF StartedByUBoot
      <4>2. CASE c = conf[ub.i].cpu
        BY <2>1, <4>1, <4>2
      <4>3. CASE c # conf[ub.i].cpu
        BY <1>3, <2>1, <2>3, <3>2, <4>1, <4>3 DEF StartedByUBoot
      <4> QED BY <4>2, <4>3
    <3> QED BY <2>3, <3>1, <3>2
  <2> QED BY <1>4, <2>4, <2>5, <2>6
<1>6. CASE BootCpuFinish
  <2>1. /\ UbDone' /\ refused' = refused
        /\ \A c \in Cpu : c # BootCpu => run'[c] = run[c]
    BY <1>1, <1>2, <1>6 DEF BootCpuFinish, UbTo, UbDone
  <2>2. BootCpu \in DispatcherCpus => run'[BootCpu] = "off" \/ ub'.pc # "gone"
    <3> SUFFICES ASSUME BootCpu \in DispatcherCpus
                 PROVE  run'[BootCpu] = "off" \/ ub'.pc # "gone"
      OBVIOUS
    <3>1. PICK j \in DOMAIN conf : OnCore(j) /\ conf[j].cpu = BootCpu
      BY DEF PlaceInv, WellPlaced
    <3>2. j < ub.i
      BY <1>2, <1>6, <3>1 DEF BootCpuFinish, BootInv, TypeOK
    <3>3. ~ub.boot.bootOn
      BY <1>6, <3>1, <3>2 DEF BootCpuFinish, PlaceInv, BootCpuGiven
    <3> QED BY <1>2, <1>6, <3>3 DEF BootCpuFinish, UbTo
  <2>3. NodesAhead'
    BY <1>1, <1>2, <1>3, <2>1, <2>2 DEF NodesAhead, StartedByUBoot
  <2> QED BY <1>3, <1>4, <2>1, <2>3 DEF StartedByUBoot, StartedOnce
<1>7. CASE ~BringUp /\ ~BootCpuFinish
  <2>1. /\ UNCHANGED <<run, refused>> /\ ub'.pc # "gone"
        /\ ub'.pc = "failed" \/ (ub'.i >= ub.i /\ ub'.i \in Nat
                                 /\ (ub.pc = "images" => ub'.pc = "images"))
    <3>1. CASE ReadPartition \/ LoadImages \/ PropertyMissing \/ LoadFails
      BY <1>2, <3>1
         DEF ReadPartition, LoadImages, PropertyMissing, LoadFails, AtImage, OtherCpu, UbTo
    <3>2. CASE ParseDispatcher
      BY <1>2, <3>2 DEF ParseDispatcher
    <3>3. CASE Standalone \/ LeaveOff
      BY <1>2, <3>3 DEF Standalone, LeaveOff, AtImage, OtherCpu, UbNext
    <3>4. CASE RecordBootCpu
      BY <1>2, <3>4 DEF RecordBootCpu, AtImage
    <3> QED BY <1>7, <3>1, <3>2, <3>3, <3>4 DEF UBoot
  <2>2. NodesAhead' /\ StartedOnce'
    BY <1>1, <1>3, <2>1 DEF NodesAhead, StartedOnce
  <2>3. StartedByUBoot'
    <3>1. CASE ub'.pc = "failed"
      BY <3>1 DEF StartedByUBoot, UbDone
    <3>2. CASE ub'.i >= ub.i /\ ub'.i \in Nat /\ (ub.pc = "images" => ub'.pc = "images")
      <4>1. \A j \in DOMAIN conf : j < ub.i => j < ub'.i
        BY <1>2, <3>2 DEF BootInv, TypeOK
      <4> SUFFICES ASSUME NEW c \in Cpu, run[c] # "off", c # BootCpu
                   PROVE  /\ c \notin DispatcherCpus
                          /\ ub'.pc = "images"
                          /\ \E j \in DOMAIN conf :
                                OnCore(j) /\ j < ub'.i /\ conf[j].cpu = c
        BY <1>1, <1>2, <2>1 DEF StartedByUBoot
      <4>2. /\ c \notin DispatcherCpus /\ ub.pc = "images"
            /\ \E j \in DOMAIN conf : OnCore(j) /\ j < ub.i /\ conf[j].cpu = c
        BY <1>3 DEF StartedByUBoot
      <4> QED BY <3>2, <4>1, <4>2
    <3> QED BY <2>1, <3>1, <3>2
  <2> QED BY <1>4, <2>2, <2>3
<1> QED BY <1>5, <1>6, <1>7

LEMMA StartLinux ==
  ASSUME LinuxSlow, BootInv, PlaceInv, StartInv, BootLinux \/ Probe \/ Sysfs \/ UNCHANGED vars
  PROVE  StartInv'
<1> USE DEF StartInv
<1>1. UNCHANGED <<conf, tree, ub>>
  BY DEF BootLinux, Probe, ProbeStart, SkipNode, BootCpus, ProbeEnd, Sysfs, StoreOn,
         StoreUnavailable, StoreOff, vars
<1>2. /\ DispatcherCpus' = DispatcherCpus /\ DispatcherCpus \subseteq Cpu
      /\ UbDone' <=> UbDone
      /\ \A j \in DOMAIN tree : tree[j].id \in DispatcherCpus
      /\ lx.i \in Nat /\ \A j \in DOMAIN tree : j \in Nat
      /\ lx \in [pc : {"down", "cpus", "ready", "failed"}, i : Nat \ {0}, idx : 0..NrCpus,
                 info : [0..NrCpus - 1 -> Slot], configured : SUBSET Cpu,
                 answer : [cpu : Nat, text : Answers]]
      /\ run \in [Cpu -> {"off", "uboot", "linux", "amp"}]
  BY <1>1, DispatcherType DEF DispatcherCpus, UbDone, BootInv, TypeOK
<1>3. CASE UNCHANGED vars
  BY <1>3, <1>2
     DEF vars, SlowLinux, StartedByUBoot, NodesAhead, StartedOnce, UbDone, OnCore
<1>4. ASSUME UbDone, refused' = refused, NodesAhead' PROVE StartInv'
  BY <1>1, <1>2, <1>4 DEF SlowLinux, StartedByUBoot, StartedOnce
<1>5. CASE BootLinux
  <2>1. /\ UbDone /\ ub.pc # "gone" /\ UNCHANGED <<lx, refused>>
        /\ \A c \in Cpu : c # BootCpu => run'[c] = run[c]
    BY <1>2, <1>5 DEF BootLinux, UbDone
  <2>2. NodesAhead'
    BY <1>1, <1>2, <2>1 DEF NodesAhead
  <2> QED BY <1>4, <2>1, <2>2
<1>6. CASE ProbeStart \/ SkipNode \/ ProbeEnd
  <2>1. /\ UbDone /\ UNCHANGED <<run, refused>> /\ lx'.i \in Nat /\ lx.i <= lx'.i
        /\ lx'.pc \in {"down", "cpus"} => lx.pc \in {"down", "cpus"}
    BY <1>2, <1>6 DEF ProbeStart, SkipNode, ProbeEnd, AtNode, SlowLinux
  <2>2. NodesAhead'
    BY <1>1, <1>2, <2>1 DEF NodesAhead
  <2> QED BY <1>4, <2>1, <2>2
<1>7. CASE Sysfs
  <2>1. lx.pc = "ready" /\ lx'.pc = "ready" /\ refused' = refused
    BY <1>2, <1>7 DEF Sysfs, StoreOn, StoreUnavailable, StoreOff, Answer
  <2>2. UbDone /\ NodesAhead'
    BY <2>1 DEF SlowLinux, NodesAhead
  <2> QED BY <1>4, <2>1, <2>2
<1>8. CASE BootCpus
  <2>1. /\ UbDone /\ lx.pc = "cpus" /\ lx.i \in DOMAIN tree /\ Nd.id \in DispatcherCpus
        /\ lx'.i = lx.i + 1 /\ lx'.pc = "cpus"
    <3>1. lx.pc = "cpus" /\ lx.i \in DOMAIN tree
      BY <1>2, <1>8 DEF BootCpus, AtNode, BootInv, TypeOK
    <3> QED BY <1>2, <1>8, <3>1 DEF BootCpus, Filled, Enabled, SlowLinux, Nd
  <2>2. /\ \A c \in Cpu : c # Nd.id => run'[c] = run[c]
        /\ refused' = refused \/ (run[Nd.id] # "off" /\ refused' = refused \cup {Nd.id})
    BY <1>2, <1>8, <2>1 DEF BootCpus, CpuOn, CpuOnRefused, CpuOnFails
  <2>3. NodesAhead'
    <3> SUFFICES ASSUME NEW j \in DOMAIN tree, lx.i + 1 <= j, run'[tree[j].id] # "off"
                 PROVE  tree[j].id = BootCpu /\ ub.pc # "gone"
      BY <1>1, <2>1 DEF NodesAhead
    <3>1. lx.i <= j /\ j # lx.i
      BY <1>2
    <3>2. tree[j].id # Nd.id
      BY <2>1, <3>1 DEF BootInv, DistinctNodes, Nd
    <3> QED BY <1>2, <2>1, <2>2, <3>1, <3>2 DEF NodesAhead
  <2>4. StartedOnce'
    <3>1. ASSUME run[Nd.id] # "off" PROVE Nd.id = BootCpu /\ ub.pc \in {"failed", "stuck"}
      <4>1. Nd.id = BootCpu /\ ub.pc # "gone"
        BY <1>2, <2>1, <3>1 DEF NodesAhead, Nd
      <4> QED BY <2>1, <4>1 DEF PlaceInv, BootCpuGiven, UbDone
    <3> QED BY <1>1, <2>2, <3>1 DEF StartedOnce
  <2>5. SlowLinux' /\ StartedByUBoot'
    BY <1>2, <2>1 DEF SlowLinux, StartedByUBoot
  <2> QED BY <2>3, <2>4, <2>5
<1> QED BY <1>3, <1>5, <1>6, <1>7, <1>8 DEF Probe

(* No core is started twice, by u-boot, by Linux's probe or by the two of  *)
(* them, whatever fails, if Linux reaches the probe after u-boot is done.  *)
(* The exception is the boot CPU after a failure of u-boot.                *)
THEOREM NobodyStartedTwice ==
  ASSUME LinuxSlow
  PROVE  Spec => []StartedOnce
<1>1. BootInv /\ PlaceInv /\ StartInv /\ [Next]_vars => StartInv'
  BY StartUBoot, StartLinux DEF Next
<1>2. StartInv => StartedOnce
  BY DEF StartInv
<1> QED BY Places, StartInit, <1>1, <1>2, PTL DEF Spec
=============================================================================
