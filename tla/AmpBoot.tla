------------------------------- MODULE AmpBoot -------------------------------
(***************************************************************************)
(* Who starts which core.  u-boot's amp_cpus_on() (u-boot                  *)
(* drivers/cpu/rockchip_amp.c) walks the images of amp.img on the boot CPU *)
(* and powers the other cores on; Linux's rockchip-amp driver (kernel      *)
(* drivers/soc/rockchip/rockchip_amp.c) starts the cores that the device   *)
(* tree lists under amp-cpus, which u-boot has to leave alone, and then    *)
(* offers "on" and "off" in sysfs.  Linux itself may be one of the images, *)
(* on a core of its own, and then runs while u-boot is still at work.      *)
(*                                                                         *)
(* The secure firmware behind the SMCs and the caller of amp_cpus_on() are *)
(* not in the repository: they are modelled from how this code uses them.  *)
(***************************************************************************)
EXTENDS Integers, Sequences, FiniteSets

CONSTANTS
  Configurations, \* the images of amp.img, as sequences, that are tried
  Trees,        \* the amp-cpus subnodes, as sequences, that are tried; an
                \* absent or disabled /rockchip-amp is <<>>, nobody's core
  Cpu,          \* the cores, by MPIDR
  BootCpu,      \* the core u-boot runs on
  NrCpus,       \* CONFIG_NR_CPUS: slots of cpu_boot_info
  Written,      \* the numbers a user writes to boot_cpu
  MaxFaults,    \* bound: SMCs, loads and allocations that fail
  LinuxSlow     \* Linux reaches the driver's probe after u-boot has finished

VARIABLES
  conf,      \* images of amp.img in the order brought_up_all_amp visits them
  tree,      \* the subnodes of /rockchip-amp/amp-cpus, in order
  ub,        \* u-boot: place, image, os_amp_dispatcher_cpu, g_bootcpu
  lx,        \* Linux: place, node, idx, cpu_boot_info, and its last answer
  run,       \* what each core runs
  refused,   \* cores a CPU_ON of the boot code found already running
  faults     \* failures so far

vars == <<conf, tree, ub, lx, run, refused, faults>>

Image == [cpu : Cpu, linux : BOOLEAN, standalone : BOOLEAN,
          complete : BOOLEAN, entry : BOOLEAN,  \* load is there; it is not 0
          bootOn : BOOLEAN]
Node  == [id : Cpu, complete : BOOLEAN, available : BOOLEAN, bootOn : BOOLEAN]
Slot  == [en : BOOLEAN, cpu_id : Nat]

ASSUME AmpBootAssumption ==
  /\ Cpu \subseteq Nat /\ BootCpu \in Cpu
  /\ NrCpus \in Nat \ {0} /\ Written \subseteq Nat /\ MaxFaults \in Nat
  /\ LinuxSlow \in BOOLEAN
  /\ Configurations \subseteq Seq(Image) /\ Trees \subseteq Seq(Node)

(* os_amp_dispatcher_cpu has room for so many ids and is filled without a  *)
(* look at its size: what a longer tree does is not defined.               *)
DispatcherSlots == 8
ASSUME DispatcherAssumption == \A nodes \in Trees : Len(nodes) <= DispatcherSlots

Answers  == {"none", "ok", "failed", "unavailable"}
NoAnswer == [cpu |-> 0, text |-> "none"]

(* "conf/linux" is visited before the loadables; a core has one image at   *)
(* most.  Linux must run somewhere: either the boot CPU keeps it (it is not*)
(* in amp.img, or is there as Linux), or it is given to another core and   *)
(* amp.img says what the boot CPU does instead.                            *)
Cores(images) == { images[i].cpu : i \in {j \in DOMAIN images : ~images[j].standalone} }

WellFormed(images, nodes) ==
  LET NodeIds == { nodes[i].id : i \in DOMAIN nodes }
      OnCore  == { i \in DOMAIN images : ~images[i].standalone }
      Linuxes == { images[i].cpu : i \in {j \in OnCore : images[j].linux} }
      OwnLinux == Linuxes \subseteq {BootCpu}
  IN /\ \A i, j \in OnCore : images[i].cpu = images[j].cpu => i = j
     /\ \A i \in DOMAIN images : images[i].linux => i = 1 /\ ~images[i].standalone
                                                      /\ images[i].bootOn
     /\ \A i, j \in DOMAIN nodes : nodes[i].id = nodes[j].id => i = j
     /\ Linuxes \cap NodeIds = {}
     /\ OwnLinux => BootCpu \notin NodeIds /\ (BootCpu \in Cores(images) => Linuxes # {})
     /\ ~OwnLinux => BootCpu \in Cores(images)

TypeOK ==
  /\ conf \in Seq(Image) /\ tree \in Seq(Node)
  /\ ub \in [pc : {"read", "parse", "load", "images", "returned", "failed",
                    "gone", "stuck"},
             i : Nat \ {0}, owned : SUBSET Cpu,
             boot : [linux : BOOLEAN, entry : BOOLEAN, bootOn : BOOLEAN]]
  /\ lx \in [pc : {"down", "cpus", "ready", "failed"},
             i : Nat \ {0}, idx : 0..NrCpus, info : [0..NrCpus - 1 -> Slot],
             configured : SUBSET Cpu, answer : [cpu : Nat, text : Answers]]
  /\ run \in [Cpu -> {"off", "uboot", "linux", "amp"}]
  /\ refused \subseteq Cpu /\ faults \in 0..MaxFaults

Init ==
  /\ conf \in Configurations /\ tree \in Trees /\ WellFormed(conf, tree)
  /\ ub = [pc |-> "read", i |-> 1, owned |-> {},
           boot |-> [linux |-> FALSE, entry |-> FALSE, bootOn |-> TRUE]]
  /\ lx = [pc |-> "down", i |-> 1, idx |-> 0,
           info |-> [s \in 0..NrCpus - 1 |-> [en |-> FALSE, cpu_id |-> 0]],
           configured |-> {}, answer |-> NoAnswer]
  /\ run = [c \in Cpu |-> IF c = BootCpu THEN "uboot" ELSE "off"]
  /\ refused = {} /\ faults = 0

-----------------------------------------------------------------------------
(* The firmware: CPU_ON is refused for a core that runs, and can fail.     *)

Fault == faults < MaxFaults /\ faults' = faults + 1

CpuOn(c, what) ==
  /\ run[c] = "off"
  /\ run' = [run EXCEPT ![c] = what]
  /\ UNCHANGED <<refused, faults>>

CpuOnRefused(c) ==
  /\ run[c] # "off"
  /\ refused' = refused \cup {c}
  /\ UNCHANGED <<run, faults>>

CpuOnFails(c) == run[c] = "off" /\ Fault /\ UNCHANGED <<run, refused>>

-----------------------------------------------------------------------------
(* u-boot                                                                  *)

UbTo(pc) == ub' = [ub EXCEPT !.pc = pc]
UbNext   == ub' = [ub EXCEPT !.i = @ + 1]

(* The amp partition: found, buffer allocated, read, header and size       *)
(* checked.  Any of it can fail.                                           *)
ReadPartition ==
  /\ ub.pc = "read"
  /\ \/ UbTo("parse") /\ UNCHANGED faults
     \/ UbTo("failed") /\ Fault
  /\ UNCHANGED <<conf, tree, lx, run, refused>>

(* Every subnode counts, the ones whose status is "disabled" too.          *)
DispatcherCpus == { tree[i].id : i \in DOMAIN tree }

ParseDispatcher ==
  /\ ub.pc = "parse"
  /\ ub' = [ub EXCEPT !.pc = "load", !.owned = DispatcherCpus]
  /\ UNCHANGED <<conf, tree, lx, run, refused, faults>>

(* The loadables are put in place; no core has been touched yet.           *)
LoadImages ==
  /\ ub.pc = "load"
  /\ \/ UbTo("images") /\ UNCHANGED faults
     \/ UbTo("failed") /\ Fault
  /\ UNCHANGED <<conf, tree, lx, run, refused>>

Img == conf[ub.i]
AtImage == ub.pc = "images" /\ ub.i <= Len(conf)

BootOnIgnoringOwner(im) == im.bootOn

(* "If os amp-dispatcher owns this cpu, don't boot it"                     *)
BootOn(im) == im.bootOn /\ im.cpu \notin ub.owned

(* A standalone image is allowed to fail: its handler's result is dropped. *)
Standalone ==
  /\ AtImage /\ Img.standalone
  /\ UbNext
  /\ UNCHANGED <<conf, tree, lx, run, refused, faults>>

PropertyMissing ==
  /\ AtImage /\ ~Img.standalone /\ ~Img.complete
  /\ UbTo("failed")
  /\ UNCHANGED <<conf, tree, lx, run, refused, faults>>

RecordBootCpu ==
  /\ AtImage /\ ~Img.standalone /\ Img.complete /\ Img.cpu = BootCpu
  /\ ub' = [ub EXCEPT !.i = @ + 1,
                      !.boot = [linux |-> Img.linux, entry |-> Img.entry,
                                bootOn |-> BootOn(Img)]]
  /\ UNCHANGED <<conf, tree, lx, run, refused, faults>>

(* Another core: Linux is loaded, or the firmware's memory is reserved,    *)
(* before it is known whether the core is to be started at all.            *)
OtherCpu == AtImage /\ ~Img.standalone /\ Img.complete /\ Img.cpu # BootCpu

LoadFails ==
  /\ OtherCpu /\ Fault /\ UbTo("failed")
  /\ UNCHANGED <<conf, tree, lx, run, refused>>

LeaveOff ==
  /\ OtherCpu /\ ~BootOn(Img)
  /\ UbNext
  /\ UNCHANGED <<conf, tree, lx, run, refused, faults>>

BringUp ==
  /\ OtherCpu /\ BootOn(Img)
  /\ \/ CpuOn(Img.cpu, IF Img.linux THEN "linux" ELSE "amp") /\ UbNext
     \/ (CpuOnRefused(Img.cpu) \/ CpuOnFails(Img.cpu)) /\ UbTo("failed")
  /\ UNCHANGED <<conf, tree, lx>>

FinishWithoutPowerDown ==
  /\ ub.pc = "images" /\ ub.i > Len(conf)
  /\ UbTo("returned") /\ UNCHANGED <<conf, tree, lx, run, refused, faults>>

(* All images done: the boot CPU powers itself off, or waits for ever if   *)
(* that fails; jumps to its own firmware; or returns to boot Linux.        *)
OwnFirmware == ~ub.boot.linux /\ ub.boot.entry

BootCpuFinish ==
  /\ ub.pc = "images" /\ ub.i > Len(conf)
  /\ \/ /\ ~ub.boot.bootOn
        /\ \/ UbTo("gone") /\ run' = [run EXCEPT ![BootCpu] = "off"] /\ UNCHANGED faults
           \/ UbTo("stuck") /\ Fault /\ UNCHANGED run
     \/ /\ ub.boot.bootOn /\ OwnFirmware
        /\ UbTo("gone") /\ run' = [run EXCEPT ![BootCpu] = "amp"] /\ UNCHANGED faults
     \/ /\ ub.boot.bootOn /\ ~OwnFirmware
        /\ UbTo("returned") /\ UNCHANGED <<run, faults>>
  /\ UNCHANGED <<conf, tree, lx, refused>>

(* External: the caller goes on to boot Linux on the boot CPU; after an    *)
(* error it may do so as well.                                             *)
BootLinux ==
  /\ ub.pc \in {"returned", "failed"} /\ run[BootCpu] = "uboot"
  /\ run' = [run EXCEPT ![BootCpu] = "linux"]
  /\ UNCHANGED <<conf, tree, ub, lx, refused, faults>>

-----------------------------------------------------------------------------
(* Linux: rockchip_amp_probe                                               *)

LinuxRuns == \E c \in Cpu : run[c] = "linux"
UbDone    == ub.pc \in {"returned", "failed", "gone", "stuck"}

(* Clocks, power domains and memory first: a failure ends the probe.       *)
ProbeStart ==
  /\ lx.pc = "down" /\ LinuxRuns /\ (LinuxSlow => UbDone)
  /\ \/ lx' = [lx EXCEPT !.pc = "cpus"] /\ UNCHANGED faults
     \/ lx' = [lx EXCEPT !.pc = "failed"] /\ Fault
  /\ UNCHANGED <<conf, tree, ub, run, refused>>

Nd == tree[lx.i]
AtNode == lx.pc = "cpus" /\ lx.i <= Len(tree)

RoomOffByOne == lx.idx <= NrCpus
Room == lx.idx < NrCpus

SkipStopsTheWalk ==
  /\ AtNode
  /\ ~Nd.available \/ ~Room \/ ~Nd.complete
  /\ lx' = [lx EXCEPT !.i = Len(tree) + 1]
  /\ UNCHANGED <<conf, tree, ub, run, refused, faults>>

(* rockchip_amp_boot_cpus before its first store: a disabled node, no room *)
(* or a property missing.                                                  *)
SkipNode ==
  /\ AtNode
  /\ ~Nd.available \/ ~Room \/ ~Nd.complete
  /\ lx' = [lx EXCEPT !.i = @ + 1]
  /\ UNCHANGED <<conf, tree, ub, run, refused, faults>>

(* The slot is filled before the SMCs; only success sets en, and only      *)
(* success moves idx on, so the next node takes over a slot that failed.   *)
Filled(l)  == [l EXCEPT !.i = @ + 1, !.info[l.idx].cpu_id = Nd.id]
EnabledInPlace(l) == [Filled(l) EXCEPT !.info[l.idx].en = TRUE,
                                       !.configured = @ \cup {Nd.id}]
Enabled(l) == [Filled(l) EXCEPT !.info[l.idx].en = TRUE, !.idx = @ + 1,
                                !.configured = @ \cup {Nd.id}]

BootCpus ==
  /\ AtNode /\ Nd.available /\ Room /\ Nd.complete
  /\ \/ Fault /\ lx' = Filled(lx) /\ UNCHANGED <<run, refused>>   \* CFG_MODE
     \/ /\ ~Nd.bootOn /\ lx' = Enabled(lx)
        /\ UNCHANGED <<run, refused, faults>>
     \/ Nd.bootOn /\ CpuOn(Nd.id, "amp") /\ lx' = Enabled(lx)
     \/ /\ Nd.bootOn /\ (CpuOnRefused(Nd.id) \/ CpuOnFails(Nd.id))
        /\ lx' = Filled(lx)
  /\ UNCHANGED <<conf, tree, ub>>

ProbeEnd ==
  /\ lx.pc = "cpus" /\ lx.i > Len(tree)
  /\ \/ lx' = [lx EXCEPT !.pc = "ready"] /\ UNCHANGED faults
     \/ lx' = [lx EXCEPT !.pc = "failed"] /\ Fault      \* kobject or file
  /\ UNCHANGED <<conf, tree, ub, run, refused>>

(* boot_cpu_store.  get_cpu_boot_info_idx takes the first slot with the id,*)
(* which for 0 can be a slot never filled.                                 *)
Matches(n) == { s \in 0..NrCpus - 1 : lx.info[s].cpu_id = n }
Available(n) ==
  \E s \in Matches(n) : lx.info[s].en /\ \A t \in Matches(n) : s <= t

Answer(n, text) == lx' = [lx EXCEPT !.answer = [cpu |-> n, text |-> text]]

StoreOn(n) ==
  /\ lx.pc = "ready" /\ Available(n)
  /\ \/ run[n] = "off" /\ run' = [run EXCEPT ![n] = "amp"] /\ Answer(n, "ok")
        /\ UNCHANGED faults
     \/ run[n] # "off" /\ Answer(n, "failed") /\ UNCHANGED <<run, faults>>
     \/ Fault /\ Answer(n, "failed") /\ UNCHANGED run
  /\ UNCHANGED <<conf, tree, ub, refused>>

StoreUnavailable(n) ==
  /\ lx.pc = "ready" /\ ~Available(n)
  /\ Answer(n, "unavailable")
  /\ UNCHANGED <<conf, tree, ub, run, refused, faults>>

(* REQ_CPU_OFF: the firmware stops the core, or reports an error.          *)
StoreOff(n) ==
  /\ lx.pc = "ready" /\ Available(n)
  /\ \/ run' = [run EXCEPT ![n] = "off"] /\ UNCHANGED faults
     \/ Fault /\ UNCHANGED run
  /\ UNCHANGED <<conf, tree, ub, lx, refused>>

-----------------------------------------------------------------------------
UBoot == \/ ReadPartition \/ ParseDispatcher \/ LoadImages \/ Standalone
         \/ PropertyMissing \/ RecordBootCpu \/ LoadFails \/ LeaveOff \/ BringUp \/ BootCpuFinish

Probe == ProbeStart \/ SkipNode \/ BootCpus \/ ProbeEnd

Sysfs == \E n \in Written : StoreOn(n) \/ StoreUnavailable(n) \/ StoreOff(n)

Next == UBoot \/ BootLinux \/ Probe \/ Sysfs

(* Each processor that runs goes on running; after an error nothing obliges*)
(* u-boot's caller to boot Linux, and nobody has to write to sysfs.        *)
Fairness == /\ WF_vars(UBoot)
            /\ WF_vars(ub.pc = "returned" /\ BootLinux)
            /\ WF_vars(Probe)

Spec == Init /\ [][Next]_vars

FairSpec == Spec /\ Fairness

-----------------------------------------------------------------------------
(* Nobody powers on a core that already runs: each core is started by      *)
(* u-boot or by Linux's probe, never by both.  The exception is the boot   *)
(* CPU given to the dispatcher when u-boot failed before it could power    *)
(* itself off, or failed in doing so: something still runs on the core that*)
(* the driver tries to start.                                              *)
StartedOnce == \A c \in refused : c = BootCpu /\ ub.pc \in {"failed", "stuck"}

(* sysfs reaches exactly the cores the probe set up, whichever slots other *)
(* nodes failed in: no success is overwritten, no failure is left enabled. *)
SysfsKnows ==
  lx.pc = "ready" => { c \in Cpu : Available(c) } = lx.configured

(* The core Linux runs on is not offered to sysfs, which could switch it   *)
(* off, except for a boot CPU that Linux was booted on after u-boot failed.*)
LinuxNotOffered ==
  \A c \in Cpu : lx.pc = "ready" /\ run[c] = "linux" /\ Available(c)
                   => c = BootCpu /\ ub.pc = "failed"

(* The cores the image and the tree ask for, between them.                 *)
Wanted ==
  { conf[i].cpu : i \in { j \in DOMAIN conf :
        ~conf[j].standalone /\ ~conf[j].linux /\ conf[j].bootOn
        /\ (conf[j].cpu = BootCpu => conf[j].entry)
        /\ conf[j].cpu \notin DispatcherCpus } }
  \cup { tree[i].id : i \in { j \in DOMAIN tree :
        tree[j].available /\ tree[j].complete /\ tree[j].bootOn /\ j <= NrCpus } }

(* Every core the image or the tree wants on is started by one of the two, *)
(* unless something failed: what u-boot leaves to Linux is not forgotten.  *)
EveryCoreStarted ==
  \A c \in Cpu :
    (ub.pc = "read" /\ c \in Wanted)
      ~> (run[c] = "amp" \/ faults > 0 \/ ub.pc = "failed")
=============================================================================
