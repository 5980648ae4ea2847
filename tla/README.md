# A TLA+ model of the RK3568 AMP system

The repository runs two operating systems on one RK3568: Linux on cores 0–2 and
FreeRTOS on core 3, which the sources call *core1*. They talk over rpmsg: two
virtqueues in shared memory, and a mailbox whose doorbells are interrupt 222 on
core1's side. This directory holds TLA+ modules of that system, TLC runs over
small instances, and TLAPS proofs for instances of every size.

Paths below are relative to `src/`. `core0/sdk_modifications/` is shortened to
`core0/…/`.

## 1. The system and its parts

| Part | Source | State it keeps | Operations | Talks to |
|---|---|---|---|---|
| vring | `core1/rpmsg_vring.c`, `.h` | avail and used rings with their 16-bit indices in shared memory; one consumer cursor per queue in core1 | `vring_get_avail`, `vring_put_used` | Linux's virtio ring code through shared memory; both tasks of core1 |
| mailbox, core1's side | `core1/rpmsg_mbox.c` | A2B_STATUS, A2B_INTEN, B2A_STATUS in the controller | `mbox_init`, `mbox_has_doorbell`, `mbox_kick` | the controller's registers |
| mailbox, Linux's side | `core0/…/rockchip-mailbox.c` | the same registers, and the framework's queue of messages | `send_data`, `last_tx_done`, the interrupt handler, probe, startup, shutdown | Linux's rpmsg driver (callbacks) |
| rpmsg protocol | `core1/rpmsg_core.c` | `rpmsg_ready`, Linux's endpoint, the two ring views | `rpmsg_init` (handshake, announcement), `rpmsg_send`, `rpmsg_handle_vq1`, `rpmsg_on_recv`, `rpmsg_poll` | vring, mailbox, the GIC |
| core1 application | `core1/main.c` | three tasks, one notification, `q` | `main`, `vRpmsgTask`, `vTask1`, `vTask2`, the interrupt handler | rpmsg, FreeRTOS |
| GIC setup | `core1/gic.c` | routes, groups, priorities and enables, in a distributor that Linux writes too | `gic_init` | the GIC |
| FreeRTOS scheduler | `core1/freertos-kernel/tasks.c`, `list.c`, the port | ready, delay and pending lists, priority bitmap, tick count, suspension count, notifications | the tick, delays, `vTaskPrioritySet`, `vTaskSuspendAll`/`xTaskResumeAll`, `ulTaskNotifyTake`, `vTaskNotifyGiveFromISR` | tasks, both interrupts |
| FreeRTOS queues | `core1/freertos-kernel/queue.c` | storage ring, count, two event lists, two lock counts | send, overwrite, receive, from tasks and from handlers | the scheduler; `vTask2` waits on one |
| u-boot AMP loader | `core0/…/u-boot/drivers/cpu/rockchip_amp.c` | `g_bootcpu`, `os_amp_dispatcher_cpu` | `amp_cpus_on` | secure firmware (SMC), the device tree, Linux |
| Linux AMP driver | `core0/…/soc/rockchip/rockchip_amp.c` | `cpu_boot_info`, `amp_ctrl` | probe, remove, sysfs `boot_cpu`, the interrupt configuration | secure firmware, the GIC driver |
| user-space loader | `core1/loader/` | none | copy an image to memory | — |
| startup, crash report, UART, timer, libc | `core1/startup.S`, `crash.c`, `uart.c`, `timer.c`, `libc_min.c` | none that outlives a call | — | hardware |
| device trees, images, tools, labs | `core1/amp.its`, `tools/`, `labs/` | build data and exercises | — | — |

### What is hard, and what makes each part correct

* **vring.** No lock anywhere. Linux and core1 interleave at single memory
  accesses, and so do core1's two tasks, because `vRpmsgTask` (priority 3)
  preempts `vTask1` (priority 2). The indices wrap at 2^16 while the slot is the
  index modulo 64. Correct means: a descriptor is in one hand at a time, a used
  entry is complete before its index is published, nothing is taken or returned
  twice.
* **Doorbells.** A doorbell is a level bit, a notification is a counter that is
  cleared, and both race with the last look at the ring. Linux clears
  B2A_STATUS *after* its callback has looked at the ring. Correct means: nobody
  sleeps on a message.
* **Handshake.** The two processors boot independently. Linux's boot resets the
  GIC core1 has configured, Linux rings its first doorbell only once
  (`first_notify`), and a doorbell that comes before A2B_INTEN is set is not
  latched. Correct means: the link comes up, and what is sent while it does is
  read.
* **rpmsg protocol.** `rpmsg_send` and `rpmsg_handle_vq1` call each other while
  they hold buffers. A kick gives up after a bounded wait, in the middle of a
  loop. Correct means: every message is echoed once, in order; buffers are not
  lost; the recursion fits the stack.
* **Starting the cores.** u-boot on one core and Linux's driver, perhaps on
  another, read the same device tree at different times and must agree on who
  starts each core. Any load, allocation or SMC may fail half-way. Correct
  means: every core is started exactly once.
* **Scheduler.** The tick counter wraps and two delay lists change places; while the
  scheduler is suspended interrupts only take notes (pending tasks, pended ticks,
  a yield owed) that `xTaskResumeAll` has to work off; the suspension count itself
  is not protected; ready lists, bitmap and priorities change apart. Correct
  means: a wait lasts exactly its ticks, a notification is not lost, the most
  urgent ready task runs.
* **Queues.** A task finds the queue empty, and only some steps later is on the list
  of those who wait; handlers that come in between may not touch the lists, and
  leave a count. Timeouts race answers and are re-armed from wrapped counters.
  Correct means: items come out in order, nobody sleeps on an item, a timeout is
  neither early nor late.

`PROJECT.json` lists each hazard at its line with the properties that watch it.

## 2. Modules

| Module | What it models | Composes |
|---|---|---|
| `Vring` | one virtqueue, one memory access per step, for a set of callers | — |
| `BufferExchange` | what a virtqueue promises (`rpmsg_vring.h:69-75`): an exchange of buffers, no rings | implemented by `Vring` |
| `Mailbox` | the four mailbox functions and the registers, with Linux's queue | instantiated by the next three |
| `Doorbell` | interrupt 222, notification, the loop of `vRpmsgTask`, both Linux handlers; rings reduced to counts | `Mailbox` |
| `Handshake` | both boots: `main`, `gic_init`, `rpmsg_init`; Linux's GIC reset, probe and first messages | `Mailbox` |
| `RpmsgLink` | the running link: two tasks, two queues, nested calls as stacks of frames | `Vring` twice, `Mailbox` |
| `AmpBoot` | `amp_cpus_on`, the probe of Linux's driver, `boot_cpu` in sysfs | — |
| `Kernel` | the scheduler of `tasks.c` on the Cortex-A53 port, with the tick and interrupt 222 | — |
| `Alarms` | what a delay or a timeout promises: a number of ticks, counted down | implemented by `Kernel` and `KernelQueue` |
| `KernelQueue` | a queue of `queue.c` on that scheduler | extends `Kernel` |
| `Fifo` | what a queue promises: the items in order | implemented by `KernelQueue` |
| `Vring_proofs`, `Doorbell_proofs`, `Handshake_proofs`, `RpmsgLink_proofs`, `AmpBoot_proofs`, `Kernel_proofs`, `KernelQueue_proofs` | theorems | extend the module they are about |
| `RpmsgLinkEcho_proofs` | theorems about `RpmsgLink` while core1 only echoes | extends `RpmsgLink_proofs` |
| `MC…` | values of the constants for TLC | extend a module |

### How state and actions correspond to the code

**Vring.** `avail_idx`, `avail_ring`, `used_idx`, `used_ring` are the fields of
`struct vring_avail` and `struct vring_used`; `last_avail` is the cursor in
`struct vring`. A call is a record with a program point and the C locals;
`GetAvailCheck`, `GetAvailRing`, `GetAvailLoad`, `GetAvailStore` and
`PutUsedRead`, `PutUsedId`, `PutUsedLen`, `PutUsedPublish` are the accesses of
the two functions in program order, which the `dmb` in each keeps. Linux's steps
(offer, reclaim) are external; its check of a used id sets `broken`.

**Mailbox.** A write to CMD sets the STATUS bit if the channel is enabled; the
reader's write-one clears it. Linux's side has the framework's bounded queue
(`tx_queue`, `tx_active`) because `last_tx_done` is polled once a millisecond.
`mbox_kick` waits for B2A_STATUS, then writes, or times out.

**Doorbell.** `unread` and `unseen` say how many messages wait in vq1 and whether
Linux has used entries it has not looked at. `IsrClear` and `IsrNotify` are the
two halves of the handler (`main.c:194`, `main.c:202`); the task's loop is
`take → poll → put → kick → poll …`. `kick_failed` and `missed` are history: the last
kick timed out, and it did so when Linux's callback was already past the ring.

**Handshake.** `core1` is the place in `main` and then in `rpmsg_init`; the GIC is
one bit for interrupt 222, set by `gic_init` and by `rpmsg_wait_handshake`
(`rpmsg_core.c:120-137`), cleared by Linux's reset. That
the announcement's buffer lies in Linux's pool (`rpmsg_core.c:177`) is assumed: Linux's
offers are external.

**RpmsgLink.** `stack[t]` holds one frame per active `rpmsg_send` or
`rpmsg_handle_vq1` of task `t`; a frame is the program point, the descriptor and
the message. Every access of a ring inside a frame is a step of the instantiated
`Vring`. `vTask1` runs only when `vRpmsgTask` is blocked. `claimed` and
`kick_failed` are history.

**AmpBoot.** `conf` and `tree` are the images and the nodes, chosen at the start;
`ub` is u-boot's place, image, list of dispatcher cores and `g_bootcpu`; `lx` is
the driver's place, node, `idx` and `cpu_boot_info`. The secure firmware
(external) starts a core that is off and refuses one that is on; any SMC, load
or allocation may fail, `MaxFaults` times. A boot CPU whose `psci_cpu_off` fails
stays where it is for ever ("stuck"); an image with a load address of 0 is not jumped
to. A disabled `/rockchip-amp` node is a tree without cores. `os_amp_dispatcher_cpu`
has 8 places and is filled without a check: `DispatcherAssumption` keeps the trees
within it, and nothing is claimed of longer ones. u-boot counts every subnode of
`amp-cpus`, Linux only the enabled and complete ones, as in the code. An image
is visited in one step: nothing outside u-boot sees the inside of one.

**Kernel.** An action is what runs uninterrupted: a critical section, an interrupt with
the context switch at its exit, or a stretch of code interrupts do not touch. `ready`
is `pxReadyTasksLists`, `top` the bits of `uxTopReadyPriority`, `delayed` and
`overflow` the two delay lists with the item values in `wake`, `pending` is
`xPendingReadyList`, `next` `xNextTaskUnblockTime`, `suspended`
`uxSchedulerSuspended`, `pc[t]` the place of task `t` in its call. The lists are sets:
which of several ready tasks of one priority comes next is left open, so what holds
here holds for the round robin of the code. `SuspendLoad` and `SuspendStore` are the two halves of
`++uxSchedulerSuspended`. `xTaskResumeAll` is one critical section in three parts
(`ResumePending`, `ResumeTick` once per pended tick, `ResumeEnd`), between which
interrupts are masked. Both interrupts have priority 0xE0 and do not nest. As
`INCLUDE_vTaskSuspend` is 0, `portMAX_DELAY` is a time like any other and every
sleep ends; `ulTaskNotifyTake` can return without a notification, which `vRpmsgTask`
takes for one and polls.

**KernelQueue.** It reuses the scheduler's actions and adds the queue: `slots`,
`writeTo`, `readFrom`, `count` are the storage ring, `rxLock` and `txLock` the lock
counts, `toReceive` and `toSend` the event lists as sequences, `op[t]` the locals of
a call. Receive and send have the same shape (`try → suspend → lock → check → test →
place → unlockTx → unlockRx → resume → ticks → yield → try`) and share their
actions; the few places where they differ are written out. `QTickIsr` and
`QResumeTick` add to the tick that a task whose time has come leaves its event list.

Abstracted everywhere: addresses and lengths of buffers, payloads (a message is
a name), printing, and the words of GIC registers.

## 3. Runs

| Run | Bounds | Shows |
|---|---|---|
| `vring` | 3 slots, indices mod 6, one caller, two lengths | each descriptor is in one hand, no ring is broken, and `Vring` implements `BufferExchange` |
| `doorbell` | 3 buffers, queue of 2 | no doorbell is lost unless a kick times out; a kick that times out is made good by the one before it, unless Linux had looked at the ring already; if Linux falls silent all is read |
| `handshake` | 4 messages, queue of 2, core1 first | the link comes up, `ready` means that doorbells are heard, early messages are read |
| `link_echo` | 2 slots, indices mod 4, 4 messages | every message is echoed, in the order of the messages, across a wrap of the indices |
| `link_timeout` | the same with 5 messages, the second empty; kicks may time out | no buffer is lost, nothing arrives twice, the recursion stays within 2·NUM+1 frames, no message is stranded unless a kick failed, and even then Linux can send the next one |
| `link_active` | 2 messages of Linux, the second for another endpoint; 2 of `vTask1`, whose kicks `vRpmsgTask`'s may preempt | what `rpmsg_send` reports as sent arrives, when `vRpmsgTask` has nothing to send meanwhile |
| `boot` | 4 cores, ≤ 3 images, ≤ 2 nodes (one tree of 3), 2 slots, one failure | each core is started once; sysfs is not offered the core Linux runs on and reaches exactly the cores set up; every wanted core starts |
| `kernel` | 4 tasks on 3 priorities, 4-tick counter, 2 pended ticks, 2 notifications; one task sleeps and sets priorities, one is periodic, one takes notifications | every wait lasts exactly its ticks (`ImplementsAlarms`) and a periodic task waits for exactly the rest of its period, also across a wrap (`PeriodicExact`); lists and bitmap agree; the most urgent ready task runs; no notification is lost; every sleep ends and the most urgent task gets every notification |
| `queue` | 3 tasks on 2 priorities (one shares the idle task's), 3-tick counter that wraps twice, 2 slots, 2 items, sends to the back and to the front, handlers that send and receive | `KernelQueue` implements `Fifo`; nobody sleeps on an item or on space; the lock is the running task's; the lists agree; a wait for the queue ends neither early nor late |

Runs that end in a counterexample, each against a sentence of the repository:

| Run | The code does | The repository says |
|---|---|---|
| `link_race` | `vTask1`, preempted between its read and its write of `used->idx`, publishes an older index; a message that was reported sent is lost | `rpmsg_core.h:54`: returns the bytes actually sent, or an error |
| `link_spin` | after kicks that timed out, `rpmsg_send` waits at the highest priority for a buffer Linux was never told to take back | `rpmsg_core.c:230`: Linux takes it back and offers it again |
| `handshake_wake` | the handler clears the bit the handshake polls, and the handshake never looks at its notification | `docs/m3_design.md:79-81`: the handler wakes the handshake |

Four more places where code and text disagree need no run. `rpmsg_handle_vq1` leaves
its loop when a kick times out, with messages left and no wake-up due, although
`main.c:126` says that `rpmsg_poll` drains vq1; `NoMessageStranded` names this as its
exception, and `NeverWedged` says what is left of the promise: the messages wait for Linux's next
doorbell, and Linux always has a buffer to ring it with. `boot_cpu_store` looks the number it is given up among MPIDRs, so the
`echo on 3` of `docs/m2_design.md:270` does not find the core `0x300`. In
FreeRTOS itself, `tasks.c:3237` says that the head of an event list is known to be the
most urgent, which `vTaskPrioritySet` (`tasks.c:1629`) does not keep for a task that is
on the list; nobody in core1 does this. And `task.h:2891` says that a timeout has occurred once
its ticks have passed, while `xTaskCheckForTimeOut` (`tasks.c:3402`) knows only whether the
counter has wrapped, not how often: a task kept from looking until the second wrap, at a
counter below the one it noted, is told that it has time left. The proof of `TimeoutExact` turned
this up, and a run in which the counter wraps twice within a wait shows it; with ticks of 64
bits no task waits so long.

### Why the bounds are enough

* *Ring size and index width.* The code uses 64 and 2^16. What matters is that the
  width is a multiple of the size and larger than it, and that a run wraps both:
  2 or 3 slots and a width of twice the size do; for `vring` the proofs remove
  the bound. With one slot (`link_spin`)
  there is no room between sender and receiver, which is the worst case for
  waiting.
* *Messages.* 4 messages with a payload on rings of 2 slots fill both rings, block `rpmsg_send`,
  nest to the largest depth (the bound in `RecursionBounded` is reached) and wrap
  every index. `StackBounded` removes the bound for the depth, `NoLeak` for the buffers.
* *Mailbox queue.* 1 or 2 places: full and not full both happen. The framework
  has 20; more only delays a refusal.
* *Boot.* Three cores give u-boot's, Linux's and a third, and the fourth is only in
  the tree with more nodes than slots; one failure can fall on
  any operation; 2 slots for up to 3 nodes reach the check of `CONFIG_NR_CPUS`.
  The proofs remove these bounds for everything but liveness.
* *Kernel.* A counter of 4 ticks with waits of 1 and 3: within the run waits end
  before the wrap, at it and after it, and two tasks with different waits are in different
  delay lists. Two pended ticks are enough for one that wakes a task and one that wraps. Four
  tasks give every pair of priorities: above, equal, below, and the idle task's own
  priority, which `vTaskPrioritySet` gives to others. `ValueLimit` = 2 tells a
  notification value that is cleared from one that is decremented. `overflows` plays no part here
  and is kept at one value. The proofs remove all these bounds.
* *Queue.* Two slots: empty, partly filled and full differ, and both pointers wrap in both
  directions. A wait of 2 in a 3-tick counter wraps in most places. `xNumOfOverflows`
  has three values and the run stops (`FewWraps`) before it comes
  round: TickType_t and BaseType_t have 64 bits on this port (`portmacro.h:58`, `:61`).
  Overwriting needs a queue of one slot; it is in the model and in the proofs, not in
  the run. That a wait for the queue is a wait of `Alarms`, and that the most urgent task
  runs also when a queue wakes it, is proved and not run. The proofs remove all these bounds.

A finite number of messages or of images ends, so most runs do not check for
deadlock; `vring`, `doorbell`, `kernel` and `queue` run for ever and do.

### Assumptions and fairness

* Linux's threads, timers and interrupts run; a pending interrupt of core1 is
  taken; the highest ready task runs. Hence weak fairness on each. Nothing obliges
  Linux to send, nor anyone to write to sysfs.
* `KickMayTimeOut = FALSE` stands for a Linux that answers within the bounded
  wait of `mbox_kick`. The runs with `TRUE` show what is left without it.
* `Core1First`: u-boot starts core1 (`amp.its`, `boot-on`) seconds before Linux
  resets the GIC (the rpmsg probe is at 6.6 s). This is timing, not
  synchronisation; `handshake_wake` shows the other order. The safety theorems of
  `Handshake_proofs` hold for both.
* `LinuxSlow`: Linux reaches the driver's probe after u-boot has finished. Again
  timing: u-boot starts a Linux that has another core first and powers its own core
  off last, and nothing makes that Linux wait ("make sure I am off before os
  amp-dispatcher probe", u-boot `rockchip_amp.c:398`). With `FALSE` the driver can
  be refused the boot CPU. Of the theorems of `AmpBoot_proofs` only `NobodyStartedTwice` needs it.
* `Kernel`: the running task goes on (weak fairness of the steps inside a call), and
  the timer's interrupt is taken again and again. The latter is strong fairness: the
  interrupt stays pending at the GIC while it is masked or the scheduler is suspended,
  and critical sections and suspensions are short, so the mask opens over and over.
  Nothing obliges a task to call anything or Linux to ring.
* u-boot's caller, not in the repository, may go on to boot Linux after an error.
  The properties of `AmpBoot` name this case as their exception, because it really
  breaks them: Linux then runs on the core its driver tries to start.

## 4. Proofs

| Theorem | For every | Argument |
|---|---|---|
| `Vring_proofs!TypeCorrect` | ring size, width, set of callers | inductive as stated; `IndexArithmetic` gives the two modular facts |
| `Vring_proofs!RingsSound` and with it `OneHandEach`, `NeverBroken` | ring size, width, lengths; one caller | `RingInv`, one lemma per action |
| `Vring_proofs!RingImplementsExchange` | the same | each access is a step of `BufferExchange` or leaves its queues as they were |
| `Doorbell_proofs!TypeCorrect`, `DoorbellNeverLost`, `ChannelExclusive`, `KickNeverLost` | number of buffers, queue length | one invariant: while a message waits, a wake-up is somewhere between Linux's queue and the task, or the task is still going to look; a kick is either in STATUS or already seen |
| `Handshake_proofs!TypeCorrect`, `ViewsFollowFill`, `ReadyListens`, `EarlyMessagesAwaited` | number of messages, queue length, order of the boots | `HandshakeInv` |
| `RpmsgLink_proofs!TypeCorrect` | ring size, width, messages, kicks that time out | `LinkTypes`; the queues' part is `TypeKept` of `Vring_proofs`, instantiated for each queue |
| `RpmsgLink_proofs!NoLeak` | the same, for both tasks | `LeakInv` |
| `RpmsgLink_proofs!StackBounded` | the same, while `vTask1` sends nothing | `AloneInv` |
| `RpmsgLink_proofs!NobodyStranded` | the same, any length of the mailbox queue | `StrandInv` on `AloneInv` |
| `RpmsgLink_proofs!NeverDead` | the same | `RoomInv` on `AloneInv` |
| `RpmsgLinkEcho_proofs!EachOnce` | the same | `OnceInv` on `AloneInv` and `Alone0` |
| `RpmsgLinkEcho_proofs!ReportsTrue` | the same | `ReportInv` on `AloneInv` and `Alone0` |
| `RpmsgLinkEcho_proofs!NeverPollsInside`, `EchoesOrdered` | ring size, width, messages, length of the mailbox queue, while `vTask1` sends nothing and no kick times out | `EchoInv`: `ServeInv` and `OrderInv` on the invariants above |
| `Kernel_proofs!Invariant` and with it `TypeCorrect`, `ListsAlwaysExact`, `NobodyOversleeps`, `RegionExclusive`, `HighestAlwaysRuns`, `NotificationNeverLost`, `PeriodicNeverDrifts` | set of tasks, priorities, width of the tick counter, waits, roles of the tasks | `KInv`, one lemma per action |
| `Kernel_proofs!KernelImplementsAlarms` | the same | each action is a step of `Alarms` or leaves every wait as it was |
| `KernelQueue_proofs!QInvariant` and with it `QTypeCorrect`, `EventListsAlwaysExact`, `LockHeldAlone`, `NobodyEverForgotten`, `QHighestAlwaysRuns` | the same, any length of the queue, its callers and their positions | `QInv`, one lemma per action |
| `KernelQueue_proofs!QueueImplementsFifo`, `QueueImplementsAlarms` | the same | each action is a step of `Fifo`, of `Alarms`, or leaves their variables as they were |
| `KernelQueue_proofs!WaitsEndOnTime` | the same, until `xNumOfOverflows` comes round | `NotesPast`, on top of `QInv` |
| `Kernel_proofs!DelayUntilExact`, `PeriodKeptExactly` | width of the tick counter | the comparisons of `xTaskDelayUntil` are modular arithmetic; in every step of the scheduler the wait that `ShouldDelay` leads to is the rest of the period |
| `AmpBoot_proofs!TypeCorrect`, `SysfsExact` | image, tree with distinct ids, number of slots and failures | `BootInv` |
| `AmpBoot_proofs!LinuxSafeFromSysfs` | the same, whichever of u-boot and the probe is first | `PlaceInv` |
| `AmpBoot_proofs!NobodyStartedTwice` | the same, with `LinuxSlow` | `StartInv` |

*Why `RingInv`.* `DescriptorExclusive` counts the places of a descriptor, and a step
keeps the count only if the slot it writes is not one that still counts. So the
invariant follows the windows between the cursors: `Bounded` (a window is no longer
than the ring), `Once` (its entries are distinct) and `OneHand` (free, offered, held
or used, and only one of these). That Linux's next offer fits is the pigeonhole principle:
the descriptors in the window are distinct and the offered one is not among them
(`Pigeons`). That it overwrites none of them is arithmetic: two indices less than
NUM apart are in different slots also across the wrap, because the width is a
multiple of NUM (`SlotsDiffer`). `CallInv` says that what a caller has read is still
so. This is where one caller is needed: two preempt each other between the read and the
write of an index, as the run `link_race` shows.

*Why `HandshakeInv`.* `ReadyMeansListening` and `ViewsAfterFill` talk about the end
of the boots and do not see how they got there. `Ordered` says that a doorbell can
only be pending once Linux is up and A2B_INTEN is set, and that core1 leaves its
poll only after one; this carries Linux's reset and the fill of vq0 past the poll.
`Announced` ties the announcement's buffer to the places of `rpmsg_init`. `Awaited`
is `NoEarlyMessageStranded` extended to every place of core1 except the middle of
reading, where the task is still looking.

*Why `LeakInv` and `AloneInv`.* `NoBufferLeak` speaks of tasks outside every call; while they
are inside, `LeakInv` says where each buffer is: a descriptor a task holds is that of one of
its frames between taking and giving, and a task inside `vring_put_used` is there for its
top frame. It holds for two tasks, although their rings then do not stay sound (`link_race`):
a descriptor taken twice is given back twice. The depth of the stack needs more. `Nested`
says that calls alternate, that each `rpmsg_handle_vq1` below the top waits with a buffer,
and that these buffers differ; as a ring of vq1 has `NUM` of them, there are at most `NUM`
such levels. That the next buffer taken is a new one is what `RingInv` knows of a queue with
one caller (`TakenIsNew`), so the proof carries `RingInv` of vq1, restricted to `vRpmsgTask`,
along with the stack. It is not claimed for two callers.

*Why `StrandInv`, `RoomInv`, `OnceInv` and `ReportInv`.* These four are about the echoing link,
where `vRpmsgTask` is the only caller. `NoMessageStranded` asks of a sleeping task what
`StrandInv` says of every state: if vq1 has a message, then a wake-up is on its way, the
task is inside `rpmsg_poll`, or a kick has failed. The delicate step is the last return from
`rpmsg_poll`. A nested poll also empties the ring, so it must be shown that the outermost
frame returns from its own look at vq1 (`LastReturn`, from `Nested`). `NeverWedged` takes up
where a kick has failed. `RoomInv` says that whenever `vRpmsgTask` sleeps, or its first frame is at its
kick, some buffer of vq1 is neither waiting for core1 nor in its hands, or a wake-up is on its
way. The first frame reaches its kick only by publishing a buffer (`FirstKick`,
`PublishMakesRoom`), and a return without a failed kick finds vq1 empty (`EmptyMakesRoom`).
Afterwards only Linux can fill vq1 up again, and with each message it rings (`RoomKept`); that doorbell
is used up only by waking the task (`AwaitedKept`). What is not at core1 is free or
used, so Linux can send with it. `EachMessageOnce` speaks of what
Linux has received; `OnceInv` also says where the rest is: a message that Linux has sent is in
one live buffer of vq1, in one live buffer of vq0, received, or gone. A buffer of vq1 lives from Linux's offer
until the frame that holds it calls `rpmsg_send` and that call has copied it, one of vq0 from
this copy until Linux reads it. The copy is the step that moves a message, from the buffer of the frame
below to that of the frame on top. That it overwrites nothing is `Alone0`: vq0 satisfies
`RingInv`, and `rpmsg_send` holds the descriptor in its frame from taking to giving.
`ReportedMeansSent` needs the time between publishing and kicking, when the message is in
the ring and not yet reported (`ReportTop`). `NActive = 0` is not for convenience: with
`vTask1` sending, `ReportedMeansSent` is false (`link_race`), and a kick of `vTask1` that
succeeds clears `kick_failed` while messages still wait in vq1.

*Why `ServeInv` and `OrderInv`.* Nothing in `rpmsg_core.c` is written to keep the order of the
echoes. A nested `rpmsg_poll` would handle later messages while the earlier one waits for a
buffer, and be answered first. `EchoInOrder` says that this does not happen, and the reason
is in the kicks: each message costs two, one for the echo and one for its vq1 buffer, and
`mbox_kick` writes only after Linux has left the interrupt of the kick before. `ServeInv` follows
this. Except from giving a buffer back to the end of the second kick, Linux has served all of vq0
(`AllBack`); between the two kicks either the first is still pending, or all is served; and
Linux clears it only when all is served. So `rpmsg_send` always
finds a buffer (`NeverEmpty`: the descriptors are neither free nor used nor held, hence offered) and
the stack is never deeper than two frames, which is `NeverPollsInside`. `OrderInv` then sorts
the messages by where they are: received, on their way in vq0 (at most one), about to be copied, and
waiting in vq1 in the order of the ring (`Queued`). Four kinds of step matter, and each is a
definition with a lemma: Linux adds to the end of vq1 (`Sends`), core1 takes the first (`MovesNone`, which
also covers all steps that move no message), the echo is copied (`Echoes`), Linux receives
(`Gets`); `OnceInv` is proved over the same four. Both hypotheses are needed. When one kick has timed
out, TLC finds the fourth message back before the third with the constants of `link_echo`; and messages of
`vTask1` have numbers of their own.

*Why `BootInv`.* `SysfsKnows` looks at the first slot with an id, so it needs more
than "configured cores have a slot". The invariant says that the slots below `idx`
are exactly the enabled ones, that they hold ids of nodes already visited, and that
no two hold the same id; then a new node's id differs from all of them, because the
ids in the tree differ. A failure's slot is at `idx`, above all successes, so it
cannot hide one.

*Why `PlaceInv` and `StartInv`.* Both start what is off and assume nobody else does, so
the invariants divide the cores. `PlaceInv`: Linux is never on a core of the dispatcher,
except on the boot CPU after u-boot failed; for this, an image on a core of the
dispatcher must not be Linux's, and a boot CPU that belongs to the dispatcher must be given
up at the end of the walk, not kept. `StartInv`: until u-boot is done, what runs beside
the boot CPU was started by an image already visited, each on a core of its own, and is
not the dispatcher's; after it, what the probe has still to visit is off. The second half
needs `LinuxSlow`.

*Why `KInv`.* `HighestRuns` speaks only of moments at which interrupts are open and the
scheduler runs, so it does not say what a masked or suspended stretch may leave behind.
`Urgent` does: while no yield is owed (`yieldPending`), no ready task is more urgent than
the running one, and a yield is owed only inside such a stretch, whose end performs it.
`CurrentReady` says where the running task may be off its ready list: between
`prvAddCurrentTaskToDelayedList` and the yield. `SuspendedAlone` needs the load of the
unprotected counter: what a task read there is 0, and still true when it stores, because
whoever runs in between resumes what it suspended before this task comes back
(`CallsSane`). `PendingOnlySuspended` says that the pending list is empty whenever the
scheduler runs, `Notifiable` that a task asleep in `ulTaskNotifyTake` is marked as
waiting with a count of 0 until a notification makes it pending or ready, and
`IdleReady` that `taskSELECT_HIGHEST_PRIORITY_TASK` always finds somebody. Times are
handled by lemmas on the counter's arithmetic: after the wrap exactly the overflow list
is ahead.

*Why `QInv`.* `NobodyForgotten` says that somebody awake will look when a task sleeps for an item
that is there. A step keeps this only if the others are counted: two items may have come, one of
two awake callers takes one and leaves, and the other item needs the other caller. So `Covered`
compares numbers. While somebody sleeps for an item, or is about to (`place`), the items are at
most as many as the callers that will look again (`Coming`) and the wake-ups the lock still owes.
A handler's item adds one on the left, and either a woken task or the lock's count on the right; a
receive takes one from both; `prvUnlockQueue` turns what the lock owes into woken tasks. A call
leaves those who will look again only at the top of its loop, where it has found nothing, so that
the left side is 0; it is among them again when the second look finds something ("again") or when
it sleeps ("blocked"), and a call that times out is not counted on. The lock's counts stop at the
number of tasks (`queue.c:270-293`), which is enough because then everybody is woken:
this is the other disjunct of `CoveredFor`. That a woken task does look again is
`SleepersLookAgain`: whoever sleeps comes back to the top of its loop.
`LocksHeld` and `QSuspendedAlone` tie each lock to the places of the running task; they say why a
handler never touches an event list that a task is about to join. `EventListsExact` needs the order
of things in `xTaskResumeAll`: pending tasks have left their event list already, and a tick may
take a task off both lists at any other time. Of the scheduler, `KCore` is the part of `KInv` that
both modules share; it was proved from that module's lemmas on the operators (`MakeReady`, `CountTick`,
`AddCurrentToDelayed`), not from its actions, which is why it carries over. `RingCoherent` is all
that `Fifo` needs beyond the types: the write end is `count` slots after the read end, so
an item that is written at either end hits none of those that wait.

*Why `NotesPast`.* What `xTaskCheckForTimeOut` computes from wrapped counters is the elapsed time
only if the time noted is not ahead of the counter, which is a fact about every step of every
other task in between. It holds until the count of wraps comes round, hence the hypothesis
`[][overflows <= overflows']_overflows`, and `LookIsExact` is then arithmetic.

Assumptions on constants are the named `ASSUME`s of the modules; TLC evaluates
them in the runs. Theorems about `Doorbell` and `Handshake` go through `Mailbox`
by instantiation.

Only model-checked: every liveness property (`AllReadOnceQuiet`, `LinkComesUp`,
`EveryMessageRead`, `EveryMessageEchoed`, `EveryActiveSent`, `EveryCoreStarted`,
`SleepEnds`, `NotifiedTaskTakes`), since fairness and ENABLED are outside the prover's
reach; and `ReportedMeansSent` with `vTask1` sending while `vRpmsgTask` has nothing to
send (`link_active`), which depends on when the messages of that run come.
Of a ring with two callers only the types and `NoBufferLeak` are proved. The type
invariants of `Vring`, `Doorbell`, `Handshake`, `RpmsgLink` and `Kernel`, `KickOwnsChannel` and
`PeriodicOnTime` are proved for every instance and take no place in the runs. What a recursive definition
computes for every input cannot be proved with the installed provers; the modules
with proofs use no recursive operator. The one recursive function, `Without` of `KernelQueue`, is
defined on the places of a list, and what is needed of it (`WithoutProperties`) follows from
a smallest counterexample.

## 5. Not modelled

* Of FreeRTOS: the pointers of `list.c` and the order of round robin; the notification
  calls nobody makes (`xTaskGenericNotify`, its interrupt form, `xTaskNotifyWait`), peek, semaphores and
  reset of a queue in use; event groups and stream buffers, which are linked and never
  called. Mutexes, timers, queue sets, task deletion and suspension, tick hooks and the heap
  are configured out, and the other ports are not built.
* The modules about the link do not compose with `Kernel`: they use what is proved of it
  (the most urgent ready task runs, a notification is not lost). `vTask2` waits on a
  queue nobody writes to.
* The probe, startup and shutdown of the Linux mailbox driver: they set up an
  enable bit before the link runs, and nothing here closes a channel.
* The interrupt and GPIO tables of the Linux AMP driver: the device tree of this system
  has no `amp-irqs` (`core1/rpmsg_mbox.h:16`), so they stay empty, and their reader, Linux's
  GIC driver, is not in the repository. Its remove dereferences driver data that
  probe never set. A probe repeated by hand after a
  failed one would meet its own `cpu_boot_info`: `en` is never cleared, so a slot
  can stay enabled for a core whose second start failed. The model has one probe
  per boot.
* Both processors' writes to shared words of the GIC distributor: Linux's side is not in
  the repository, and nothing there says what core1 owes its neighbours in a word.
* The user-space loader, assembly, UART, timer, libc, images, tools and labs:
  straight-line code without state that other parts depend on.

## 6. Plan

1. Done: `Vring`, `BufferExchange`, `Mailbox`, `Doorbell`, `Handshake`,
   `RpmsgLink`, `AmpBoot`, and the proofs above.
2. Done: `Kernel` with `Alarms` and its proofs, `KernelQueue` with `Fifo`.
3. Left to model, once Linux's GIC driver is at hand: the read-modify-writes of
   `gic.c` and `rpmsg_core.c:120-137` against Linux's on the same words. Then probe,
   startup and shutdown of the Linux mailbox driver, for links that close and open again.
4. Done: the steps of `Vring` as steps of `BufferExchange`, `StartedOnce` and
   `LinuxNotOffered`; types, buffers and stack depth of `RpmsgLink`; of its
   echoes, that none is stranded, doubled, wrongly reported or out of order. Left to prove:
   for which arrivals `ReportedMeansSent` holds with `vTask1` sending.
5. Done: `QInv` and what follows from it, the refinements of `Fifo` and `Alarms` by
   `KernelQueue`, and its timeouts.
