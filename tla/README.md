# A verification project for the Patmos neural-network accelerator and its platform

The repository adds to the Patmos processor an IO device that classifies 28x28
images with a network of one hidden layer, and a C program that loads the
network, submits images and compares the answers with labels and with a
software implementation. Around them it holds the platform: the pipeline, the
caches, the devices and message-passing libraries of builds with several cores,
and the boot loader that brings a program to the board.

This directory holds TLA+ modules of these parts, the instances TLC checks, and
machine-checked proofs about the device with its program, the software classifier,
the pipeline, the caches, the message passing and the shared devices.

## 1. Inventory

### The device and its program

| part | source | state | operations |
|---|---|---|---|
| accelerator | `hardware/.../io/Accelerator.scala`, `util/MemorySInt.scala` | controller state, 4 address registers, 2 indices, operand and accumulator, 10 output registers, 2^18-word memory with a registered read port, registered bus signals | 16 controller states, debug address write, debug read, status read, result read |
| driver and test program | `c/accelerator/neuralNetwork.h`, `c/accelerator_main.c` | loop positions, `result` | `fillNeuralNetwork`, `readFromMem`, `loadNetworkCheck`, `loadImg`, polling loop |
| software classifier | `calculateNNCPU` in `neuralNetwork.h` | two uninitialised local arrays | one call per image |
| network export | `python/gen_c_arrs.py` | none | the order of the words of the C arrays, and the computation they are meant for |

### A core

`hardware/config/altde2-115.xml` says what is built: one core with two issue
slots, method cache, data cache, stack cache, no MMU, SRAM behind a burst bus,
and the devices Leds, Keys (interrupts 2-5), Counter, Accelerator, Timer
(interrupts 0-1), Uart and Deadline.

| part | source (`hardware/.../`) | state that matters | what is hard about it |
|---|---|---|---|
| pipeline | `patmos/Fetch`, `Decode`, `Execute`, `Memory`, `Patmos.scala` | three stage registers, delay-slot counter, `mayStallReg`, `illMemReg`, `errRespReg` | stalls, three flushes, delay slots, a command issued once and waited for |
| exception unit | `patmos/Exceptions.scala` | pending flags, status, `excReg`, `intrReg`, sleep | an interrupt replaces an instruction in decode; acknowledgement, latching and clearing meet in a cycle |
| stack cache | `stackcache/StackCache.scala` | two tops, the transfer machine, its address and target, memory with a registered read port | aligned bursts over an unaligned range, read-ahead, refused bursts |
| method cache | `icache/MCache.scala` | tags, sizes and positions of a FIFO of methods, free space, refill machine | one method is evicted a cycle while code of the next is written |
| data cache | `datacache/DirectMappedCache`, `NullCache`, `WriteNoBuffer`, `DataCache.scala` | tags, valid bits, miss machine, write machine | registered reads of tags beside invalidation, three masters on one bus |
| burst join, SRAM controller | `ocp/OcpBurst.scala`, `io/SRamCtrl.scala` | `selRightReg`; command and counter of the memory | no buffer and no arbitration: requests are said never to collide |
| serial line | `io/Uart.scala` | transmitter, receiver, two queues | the two ends have clocks of their own |

### Several cores

| part | source | state | what is hard about it |
|---|---|---|---|
| queuing ports | `c/libmp/queuing.c` | rings in the sink's scratchpad, wrapping counters, two write buffers | words of a message and the acknowledgement travel by DMA while both programs go on; time-outs |
| port set-up | `c/libmp/mp.c`, `queuing.c` | the table `chan_info`, flags and counts | the ends publish themselves while the other polls |
| lock of two cores | `c/libmp/lock.c` | number and entering flag, and copies of the other's | bakery on copies that lag behind |
| sampling ports | `c/libmp/sampling.c` | 2 or 3 buffers, newest and reading index | the reader copies while the writer goes on |
| locking unit | `hardware/.../cmp/Hardlock.scala`, `c/apps/hardlock/hardlock.h` | queue and turn per lock, request registers | a core is stalled until the encoder gets to it |
| compare-and-swap scratchpad | `cmp/CASPM.scala`, `c/apps/hardlock/caspm.h` | slots, states and registers per core | read, compare, write in three cycles of a slot |
| transactional memory | `cmp/TransactionalMemory.scala` | a buffer per core, whose turn, marks | reads, stores and marks are in different cycles |
| boot loader | `c/bootloader/bootloader.c` | `boot_info`: one status word per core | one word with many meanings, only polled |
| core threads | `c/libcorethread/corethread.c`, `noc_sync` of `c/libnoc/noc.c` | the same words, function pointer and result | creation, end and release of a thread by two cores |
| download | `c/bootloader/download.c`, `tools/java/src/patserdow/Main.java`, `Transmitter.java` | position in the executable, expected replies; registers of `download`, memory | written to memory before it is checked; retries |
| compression | `patserdow/CompressionOutputStream.java`, `c/bootloader/decompress.c` | ring buffer with search trees; ring buffer | indices of rings and ends of the text |

### How they interact

The processor and the accelerator share only the OCP port. The memory stage puts
a command on the bus for one cycle and takes no step until the device answers.
The device registers the command (`masterReg`) and acts on it one cycle later.
It answers reads and debug writes in any state but ordinary writes only in
`noNN`, `loadNN`, `idle` and `infLoad`; the program has to know when it may
write, and its only knowledge is the status.

The stages of the pipeline move together, when `enable` says so; every part can
stall all others. Method cache and data cache reach the memory through one port
and a join. The stack cache takes its operations from the execute stage and
loads and stores from the memory stage, and stalls the pipeline while it
transfers.

Cores of a multicore build share memory, a network on chip that copies words
from one scratchpad to another, and devices with one port per core. The message
passing library uses the network, and the uncached table to set it up. Host and
boot loader share a line of bytes in either direction; boot loader and program
share `boot_info`.

### What is hard, and the properties

`PROJECT.json` lists the hazards at their lines with the properties that would
catch them. In short:

| behaviour | property |
|---|---|
| result and status are two reads, with the device running in between; leftovers of an inference or a reload | the class reported is that of the image submitted, by the network loaded last (`ServesAsBuilt`) |
| a write the device does not listen to stops the core | no command goes unanswered (`NeverHung`), the program ends (`Returns`) |
| one memory port, data a cycle after the address, addresses counted by many states | operands of one product meet (`OperandsMatch`), the counters agree (`AddressesFollow`, `AddressesBounded`), the debug read returns the word (`CheckReads`), parameters survive any master (`ParamsKept`) |
| literal addresses | each output gets its bias (`BiasAdded`, violated) |
| loops of the C classifier | the first maximum of the exact sums, with what the uninitialised arrays held as part of the biases (`RightFromStack`); on the exported layout (`RightAsExported`, violated) |
| interrupts, traps, faults, stalls, flushes and delay slots at once | the pipeline executes programs instruction by instruction, handlers in between (`IsProcessor`); no pulse is lost (`NothingLost`), none answered twice (`AnsweredOnce`), the first is answered (`Served`); a fault's handler starts (`FaultHandled`, violated) |
| the stack cache moves words in bursts that are larger than the range | it is a stack (`IsStack`), keeps to its words (`OwnWordsOnly`), keeps its tops in order (`TopsOrdered`), every operation ends (`Resumes`) |
| caches that share a port without arbitration | fetched words are those of the method (`FetchesCode`; violated with many tags), loads see the memory (`IsMemory`), stalls end (`StallsEnd`) |
| messages under way, late acknowledgements, time-outs | the channel is a bounded queue (`IsQueue`, `HeldIntact`, `SourceStable`) that serves (`Delivers`) |
| two ends that find each other by polling | they are connected when told so, acknowledgements are kept, and all return (`Connects`); no message is cleared (`MessageKept`, violated) |
| locks: lagging copies, rotating turns, swaps in slots | each is a lock, fair as far as the code is (`IsLock`, `IsUnitLock`, `IsCasLock`, `NoOvertaking`, `Grants`) |
| samples copied outside of the lock | whole and newest (`ReadsNewest`, `ApartFromReader`), and calls return (`CallsReturn`) |
| transactions | atomic as built (`AtomicAsBuilt`), answered (`Answered`); current when committed (`CommitsCurrent`, violated) |
| status words with several meanings | one program at a time on all cores, results of threads, and always back to the next download (`Boots`) |
| a download that fails half way, line noise | a download that begins with the first byte of an executable starts it whole or not at all, no error is found where the line changes nothing, and the host ends (`Downloads`) |
| rings and search trees | what comes out is what went in (`Lossless`) |
| two clocks | bytes arrive as sent (`IsLine`) |

## 2. The modules

| module | models | role |
|---|---|---|
| `Accelerator` | the device, one step per clock cycle, under any master (`Spec`) | component |
| `AccelSystem` | device and program in lock step (`SysSpec`) | composition |
| `NNReference` | what the network computes, exactly, and the same with the last bias as the device has it | reference definition |
| `InferenceService` | what the program gets: load, submit, report | abstract specification |
| `SoftwareInference` | `calculateNNCPU` | algorithm, against `NNReference` |
| `StackCache` / `Stack` | the stack cache with the program and the bus / a stack of words | component / abstract |
| `Pipeline` / `Processor` | control of the pipeline with the exception unit / instructions one after another, handlers in between | component / abstract |
| `MethodCache` | the method cache, one step per cycle | component |
| `CoreMemory` / `ProgramMemory` | method cache, data cache, bridges, join and memory under a program / a memory as a program may see it | composition / abstract |
| `QueuingPort` / `MessageQueue` | a channel with its network / a bounded queue of messages | component / abstract |
| `PortSetup` | creation and connection of the ports by several cores | component |
| `BakeryLock`, `Hardlock`, `CasMemory` / `Lock` | three locks / at most one holder | components / abstract |
| `SamplingPort` | a sampling channel in three builds | component |
| `TransactionalMemory` | the device with its cores | component |
| `BootLoader` | boot loader, start of the network, core threads | component |
| `Download`, `Compression`, `Uart` | host and board; encoder and decoder; two ends of a line | components |
| `AccelSystemProofs`, `ProgramProofs` (the software classifier, the boot loader and the serial line), `StackCacheProofs`, `PipelineProofs`, `CoreMemoryProofs`, `QueuingPortProofs` (the queuing ports and the set-up of ports), `LockProofs` (the three locks and the sampling ports), `TransactionalMemoryProofs` | - | invariants and theorems |
| `MC...` | constants of the runs; `MCAccelBuilds`, `MCCore`, `MCMulticore` and `MCPrograms` run several parts, one in a behaviour | instances |

A mutant operator stands in front of the definition it varies: a plausible slip
of the code for which the properties fail.

### Accelerator

Variables have the names of the Chisel registers. An action of the controller
is a `when (stateReg === ...)` block; the memory part of all blocks is gathered
in `WriteEnable`, `WriteAddress`, `WriteData`, `FsmReadAddress` and applied by
`MemoryCycle`, because the memory acts in every cycle. `Tick(m)` is one clock
edge: the bus carries `m`, the device acts on what the bus carried before.
A debug write (`SetAddress`) takes the cycle from the controller, as the
`when`/`.otherwise` around the state machine does.

* Sizes are parameters (`NPix`, `NHid`; ten outputs are wired into the
  comparators). The addresses are the code's sums; `AddressLiterals` checks that
  784 and 100 give the literals 80184 and 80293.
* A word has `2*Half` values; `Wrap` cuts a sum to it, as 32-bit registers do.
* The memory ports have no default assignment. Where no state drives the write
  enable, its value is the choice of the build: `FloatWrEna` is the set of
  choices. The compiler of the hardware (FIRRTL) replaces an invalid branch of a
  multiplexer by the other one; by that rule the enable is true and address and
  data are those of the load states, `writeAddr` and the bus data.
  Undriven address and data follow the same rule in all runs.
* A read of the word being written returns either content (the memory of the
  target does not define it).
* Power-up contents of memory and output registers are any of `PowerUp`; what
  the bus carries when it carries no command is any of `BusData`.

### AccelSystem

The program is a sequence of bus commands, `pc` names the next one. Between two
commands it may spend up to `MaxGap` cycles (`Pause`) on other instructions,
cache misses included. `waiting` is `mayStallReg` of the memory stage: until
the device answers, no action of the program is enabled. `loadNetworkCheck`
runs after each load; `Refill` loads another network between images, which
`fillNeuralNetwork` allows and `main` does not do. `i`, `result` and the labels
follow the C code; the comparison with a label and the printing are left out,
and `verdict` is the value compared. The variable `result` is not initialised
in C; it starts as `NoResult`, which no property lets through as a verdict.

`ServesAsBuilt` is the refinement: under the mapping given with `Built`, every
step of the system is a step of `InferenceService` with the classification
`BuiltAnswer`, or a stutter. `BuiltAnswer` differs from the trained network in
one point only, the first disagreement of section 5. The service never withdraws
a network with an image in work and reports on each image once.

### SoftwareInference

One action per call, a word cut after each addition. `layer1` and `layer2` are
local arrays that nothing initialises: a call adds to whatever its stack frame
holds, be it an earlier call's sums or anything else. Each call chooses these
contents from `Stack`, and `held` remembers them. `RightFromStack` says what the
loops compute then: the network with the contents added to its biases, which is
the network itself exactly when the frame holds zeros (or what vanishes in the
comparisons). The reference takes exact sums and cuts them once.
`Exported` re-lays a network from rows per node to rows per input, the order in
which the exporting script writes it.

### StackCache

The states are those of `stateReg`. An operation of the program is the `is`
block of its opcode in `idleState`; `HoldSpill`, `SpillWord`, `WaitSpill`,
`Fill`, `FillWord`, `FillError` and `AwaitEnd` are one cycle of the other states
in which the bus takes or answers something. `SendWord` is what both sending
states do with the word on the port and the next address; `Target` is the
address down to which a spill goes, for either kind of it.

* Addresses count words, and loads and stores are of whole words. `Minus` keeps
  the width of the registers, because two conditions compare differences.
  `Index` cuts an address to the width of the memory of the cache.
* The read port is registered (`rdAddrReg`): the word on the bus is that of
  the address sent a cycle before. A load is answered in the step that issues
  it; the code answers a cycle later from the same registered address, and a
  write that falls in between could only come from the next operation, whose
  effect is another cycle later.
* Nothing changes in cycles in which the bus does not accept or answer or in
  which another part of the processor stalls (`ena_in`), but `memTopReg` in
  `waitSpillState`, which is `WaitSpill(FALSE)`. The rest are stuttering steps.
* The bus, which is not part of the cache, writes the words that are not masked
  and answers a burst with data or, for each word, with an error (`refused`).
  `lost` records that a spill was refused. The controller of this build never
  refuses; the ports with an MMU do, and the cache has states for it.
* The program sets both tops to the end of its stack before anything else, keeps
  its top between `Floor` and `Base`, spills only what is cached and loads and
  stores only what is cached: this is what the compiler and the start-up code
  do, and the cache does not check any of it.
* `stackTopReg` and `memTopReg` have no reset value; they start anywhere in
  `0 .. Base`.

`IsStack` is the refinement: the contents of the stack are the words of the
cache below `memTopReg` and those of the memory above it. Every spill, fill and
error is a stutter of `Stack`; a reservation keeps the old words and brings new
ones of any contents. Once words are lost `Stack` promises nothing more.

### Pipeline and Processor

A step is a cycle. `dec`, `ex` and `mem` are the registers in front of the
decode, execute and memory stage, an instruction in them its kind, its address
and its target. The wires of a cycle are operators: `Ena` (the memory stage has
its answer and the method cache hits), `Flush` (a call, a trap, an exception
call or an illegal access leaves the memory stage), `BrFlush` (a branch without
delay slots leaves the execute stage). What the bus answers and whether the
method cache misses are inputs of a step. An interrupt or exception replaces the
instruction in decode by a call when decode is not in a delay slot.

The exception unit is in the same step, in the order of the code: software
clears a flag, an acknowledged request loses its flag, pins set theirs, so that
the later wins. `master` is the command at the unit, answered a cycle later;
sleep is a command without an answer until something wakes the core.

`ip`, `slots`, `target`, `saved` and `window` are history: what has left the
memory stage. They are the variables of `Processor`, whose steps are one
instruction, one delayed branch, one handler entered with the address of the
instruction it interrupts. `IsProcessor` is the refinement. `window` is the one
instruction that may still be interrupted after interrupts were disabled: the
command reaches the unit while the next instruction is in decode. `owed` is
history as well: pulses on the pins that were not answered yet.

The fetch goes on with the first address behind `LastPc`. `PipelineAssumption`
says what the compiler leaves: no branch, trap or access that may fault in a
delay slot. There is one register for the address a handler returns to
(`excOff`); a handler that is interrupted itself saves it in software, which is
not modelled.

### MethodCache, CoreMemory and ProgramMemory

A step of `CoreMemory` is a cycle of all parts: the execute and memory stages
and the fetch of the pipeline with its stall; the method cache, whose operators
(`MethodCache`) take the wires of the cycle; the data cache with its registered
tags; the bridge for uncached loads and the write path; the join; and the
memory. A word of code is its own address and the word in front of a method its
size, so that `FetchesCode` can tell whether the pipeline got the instruction it
stands at. The join remembers the side that gave the last command
(`selRightReg`) and has no buffer: a command given while another one is under
way is lost, which `StallsEnd` and `IsMemory` would show. The memory takes a
command in one state of its machine and answers in another, as `SRamCtrl` does
towards the core.

`ProgramMemory` is a memory as a program may see it. A cached load may get
anything the word held since the core's own last store to it or its last
invalidation, because another core may store in between (`OtherStore`) and the
data cache is not told. `recent` and `since` are these sets, history in
`CoreMemory`. A load right behind an invalidation is not bound by it, see
section 5.

### QueuingPort and MessageQueue

One channel with its two programs and the network. A message is the number of
sends up to it, in every one of its words; a slot whose words differ is torn.
`mp_nbsend` is one round of the loop of a send: it reads the count of the sink
once, starts the DMA and swaps the two write buffers. `Transmit` and `Deliver`
move a word: the sender's DMA reads it from the write buffer when it is sent,
not when the send is called, and words arrive in order some time later.
`mp_nbrecv` takes a slot whose flag is set and clears the flag; the program
holds the message until `mp_ack_n`, which writes the new count, `start_ack` its
transfer, `TransmitAck` and `DeliverAck` its way back. Calls with a time-out may
give up at any time and are repeated. `MessageQueue` is a bounded queue from
which the sink takes messages and gives back their places.

### PortSetup

Three cores, channels in a ring and one back. A core runs `mp_create_qport` for
its ends and `mp_init_ports`, which waits for the other end of one channel after
the other; each assignment to the table `chan_info` that another core reads is a
step, as is each turn of the waiting loop. Allocation may fail: without a
descriptor a call fails before anything is published; a sink that finds no room
for its buffers has published its number by then.

### Locks

`Lock` promises at most one holder and no release by another. It is implemented by

* `BakeryLock`: a core writes its number and flag, then the copies in the other
  core's scratchpad (`Arrive` is the DMA), and waits for the transfer where the
  code does. The comparison is with the core's own copies.
* `Hardlock` (and `CasMemory`; each has its own number of cores, `coreCnt` in the code): a step is a cycle. `reqReg` per core, `queueReg` and `curReg` per
  lock, the encoder; `hardlock.h` writes to lock, writes to unlock and stalls
  until the answer.
* `CasMemory`: a step is a cycle; the counter `cnt` gives every core a slot of
  three cycles in which its word is read, compared and overwritten. A core gets its
  answer in a cycle and may issue its next access in the same cycle. The programs
  are `lock` and `unlock` of `caspm.h`. It promises no order, only that one of the
  cores that want the lock gets it: another one may take it again and again.

### SamplingPort

Three of the builds of `sampling.c`, chosen in the first state. The writer sends
a sample word by word and then the index of its buffer; the reader looks up the
index and copies word by word. Which of these are under the lock is what the
builds differ in. The lock is `Lock`, and that it is granted is what
`BakeryLock` shows. An early read, before the first sample, is allowed in the
builds that can stand it, see section 5.

### TransactionalMemory

A step is a cycle of the whole device: a memory with a registered read port, and
per core a command register, a buffer of the words read and written and the
states of the code. `May` restricts the program to what it can do: it does not touch more words than
fit the buffer and then read a new one, and commits fewer than the pointer can
tell apart (`Fits`, see section 5 for what happens otherwise). `late` is
history: words read in the very cycle in which another core overwrote them, the
exception `AtomicAsBuilt` makes.

### BootLoader

One action per statement that reads or writes a status another core looks at:
`boot_info->master.status` and that of each slave. `Each(from, awaited, to)` is a
loop of the master over the slaves until all have the status; in `noc_sync` a
slave that is not ready ends the round and the next one starts at the first slave.
After the program the master looks once whether a slave is there, and if so waits
for its RETURN and nothing else (`wait_return`, "wait_slave"). Programs are
records: whether they set up the network, and the creations and joins of main.
Four places rest on time rather than on a status, and the model says so:
`Delayed` (the delay before the leftovers are cleared is longer than the others
need to come to their waiting places), `LastBoot` (the status BOOT is written
often enough for every slave to see it), `download` (the line is slow, so the
slaves have looked by the time it ends), and `Timely` with its
two operators `Seen` and `Reused` (a core that polls sees a status before it is replaced).
Where the code breaks these in particular programs, section 5 says so.

### Download, Compression, Uart

`Download` has the host with its frames and expected replies, a line, and the
boot loader's registers and memory. A check sum is one item that is right or
not (`CRC_LENGTH`), a reply is its low byte (`Low`), as in the code, so that
different sums may have the same reply. `Window` bounds the frames without a
reply; the line may change one byte of one frame in the first try.

The way back is the code's. After a wrong check sum `download` returns NULL, and
after a program returns `main` ends: either way the boot loader writes `\0 x` and
the value returned to the serial line (`Exit`) and starts again by itself, with
fresh registers (`failed_back`, `returned_back`). It then takes whatever is on the
line for a new executable and replies to it. On the way it may lose what comes in
meanwhile (the driver of the network drops it, the queue of the UART has place for
some). A host that ended is started again, with the board reset or as it is.
The memory keeps what it has, and half-written segments with it.

What follows from this is less than one might wish, and `LoadedWhole` says no more.
It is about a download that began with the first byte of an executable (`fresh`)
and up to the first error: what starts then, and what the host takes for loaded, is
the executable, whole and with its zeros. After an error no such thing holds. Over
the network the frames that follow may be answered with the replies the host waits
for, so that it finishes on an incomplete memory. On the serial line the
exit magic is among the replies and stops the host, unless its bytes happen to be the
replies expected. What a board starts that took the middle of an executable for its
beginning can be anything.

`Compression` has the encoder with its ring and search trees and the decoder,
the four sizes of the code (8, 10, 6, 2) as parameters. The encoder takes a byte
in a step, the decoder one of the line.

`Uart` has a transmitter, a line, a receiver with the three registers in front
of it, and the programs at both ends, which poll before each access. A step is a cycle of
the receiver; the clock of the transmitter slips by up to `MaxSlips` cycles a
frame in either direction, and is in step again when the next frame is taken from
the queue. `UartAssumption` names what the line needs: slips and two cycles fit into half
a bit (with `clk_freq / baud_rate` of 694 at 80 MHz that leaves 345 slips in a frame),
the bits of a byte are enough for its value, and the counter of the divider has
the bits to reach it (`CounterHolds`): its width is `log2Up(clk_freq / baud_rate)`,
one bit too few for a power of two.

## 3. The runs

| run | question | bounds | distinct states |
|---|---|---|---|
| `system` | are answers right, operands matched, commands answered; does the program end? | 3 pixels, 2 nodes, 7-bit words, 2 networks, 2 images, 2 rounds; a build whose undriven enables write or not with a black corner, and one whose do not with any image | 677 864 |
| `open` | what survives a master that issues anything at any time? | 1 pixel, 1 node, 1-bit words | 3 359 892 |
| `stack` | is the cache a stack, on a bus that may refuse, and does it keep to its own words? | 4 words, bursts of 2, a stack of 5 words that ends at odd address 7, 2 values | 4 112 546 |
| `core` | does the pipeline execute its program, whatever interrupts, traps, faults and stalls meet; does every operation of the stack cache end; do fetches and loads get the right words through one port, and does every stall of the memory end? | 9 programs of up to 24 addresses, 2 interrupts, 3 levels; stack cache of 8 words, bursts of 4, a stack of 17 words; method cache of 8 words and 3 tags, bursts of 4, 1 line of data, 2 values, 6 programs | 339 694 |
| `multicore` | do the libraries and devices of several cores keep their promises? | see below | 73 966 |
| `software` | do classifier, compression, download, serial line, boot loader and core threads what they are for? | see below | 1 528 204 |
| `bias`, `software_layout`, `setup_race`, `errresp`, `conflict`, `method_tags` | the disagreements of section 5 | as the passing runs, as small as the case needs | - |

Three runs have one part in each behaviour, chosen in the first state, so that a
property of one part is not multiplied with the states of another.

Bounds, and why they are enough:

* *Accelerator.* Three pixels and two nodes give each loop a first, a last and (for
  pixels) a middle iteration and make the two strides (`NHid` and `NOut`)
  different, so that `OperandsMatch` has different dimensions to mix up. Words of
  seven bits make the sums of the chosen networks wrap around. Two rounds are two
  images, or an image and a reload in either order.
* *MaxGap = NHid.* The polling loop is right only if less than the clearing
  passes between its two reads. The device sets `outputReg` and then clears
  for `NHid` cycles (100 in the code; the loop takes fewer than ten
  instructions). The bound is tight: with a longer gap the program reports an
  old answer.
* *Black corner.* In the build with undriven writes the images have pixel 0 = 0,
  as all images of the data set do: the first weight, which may be overwritten,
  is multiplied with it. Without that assumption `ServesAsBuilt` fails.
* *Words of one bit* in `open` keep -1 and 0, enough for any stray write of a 0
  over a parameter, or a changed command, to show. The instance restricts the
  words of a load to -1 for that purpose.
* *Stack.* With bursts of two and a base at an odd address, ranges start and end
  within a burst and at its ends; a stack longer than the cache makes words
  share places and spills take one burst or several. A memory word on either
  side of the stack shows a write outside of it. Bursts of four, those of the
  code, give the error state answers to count.
* *Core.* The programs hold every kind of instruction in the places where they
  interact: in and behind delay slots, behind a branch, before and behind the
  commands that enable, disable, clear and sleep. Two interrupts can come in any
  cycle, one within the handler of the other; three levels of status are one
  more than that nesting.
* *Memory.* Three methods of sizes that do not fit together make the ring evict,
  one of more than half the cache with invalidations makes it wrap; calls,
  returns and branches go to the first or second word of a method (`Offsets`);
  one line of data makes every access of another burst a miss; another core
  stores in between. Three tags are as many as the methods; with more of them
  than words in a method `FetchesCode` fails, see section 5. The run evaluates
  `MethodsFit`, the hypothesis of the theorem about fetches, for its programs.
* *Multicore.* A ring of three slots, messages of two words, counters modulo 4
  and nine messages: every pointer wraps three times, every counter twice, and
  all slots can be in use. Four acquisitions a core for the bakery. Two buffers
  or three, samples of two words, four samples, for the three builds. Three
  cores for the set-up, with channels in a ring (where waiting in order could
  deadlock) and one back. Three cores and two locks for the locking unit, two and
  two for compare-and-swap. Two cores, a buffer of four words and five addresses
  for the transactions, so that a buffer can overflow.
* *Software.* Classifier: 2 pixels, 2 nodes, 2 outputs, all weights of two
  values, one bias of two for all, two images, and stack contents of two values in
  every element of both arrays; sums wrap around. Compression: bytes of 2 bits, a ring of 8, lookahead 4, all texts of two
  symbols, of any length, so that the ring wraps. Download: two executables
  (a segment shorter in the file than in memory, one empty in the file, one of
  odd length), frames of 3 and 6 bytes so that headers and segments cross
  frames, replies of two bits so that sums collide, a window of 2, two tries. Boot loader: three cores, the least for
  which slaves can be at different places, six programs with or without the
  network and with two threads at a time or one after the other, and a download
  that fails. Line: a divider of 6 and one slip per frame, the smallest with which
  the slips can matter: they and two cycles for the registers take all of half a bit
  (`UartAssumption`). With 5 and one slip, or 6 and two, TLC finds a byte that changes.
* *Symmetry* is used in `stack` for the two values: the cache copies them and never
  looks at them, and the run checks no liveness. Elsewhere pixels, nodes, cores and
  words are ordered and there is none.

*Fairness.* Nothing is assumed of a program but what its own code does.

| part | assumed | because |
|---|---|---|
| accelerator, pipeline, core memory, locking unit, compare-and-swap, transactions | weak fairness of the cycle | the clock goes on |
| pipeline | weak fairness of `Moves`: stalls end | bus and method cache answer (`StallsEnd`) |
| stack cache | weak fairness of `Transfer` | the memory takes a command and answers a burst after a fixed number of cycles |
| queuing ports | weak fairness per action of the network, of repeated calls and of the sink; `Delivers` assumes besides that acknowledgements do not time out (`acking # "timed"`) | schedules of the network are static; the program of the sink goes on |
| bakery lock, set-up, boot loader | weak fairness per core | cores run independently |
| sampling ports | weak fairness per end, strong of taking the lock | `Granted` of `BakeryLock` |
| locking unit, compare-and-swap | weak fairness of releasing (`CoreLeaves`, `CoreGoes`) | programs leave their critical sections |
| boot loader | strong fairness of `LastBoot` | a fixed number of writes |
| download | weak fairness of `Moves` | host and boot loader run, and the boot loader starts again after an error; that a program returns is not assumed |

The serial line and the compression have safety properties only. The proofs need no fairness.

*Deadlock* is checked in all runs but `multicore`, `software` and `setup_race`;
for the accelerator a core that waits for ever for an
answer is a deadlock of the model as well as a violation of `NeverHung`. It is
not checked where a system really stops: when its bounded number of messages
has been sent, a text or a download is complete, or every core of a set-up has
returned. There the liveness
properties say that it stops where it should.

## 4. What is proved

Each module proves its theorems for all values of the constants that satisfy
the named assumption. Most are of the form: an invariant that is inductive, a
step per action, the property from it.

### The accelerator (`AccelSystemProofs`)

For all sizes that satisfy `SizeAssumption` (the network fits the memory; sizes
are positive), all power-up contents, all choices of undriven enables and every
master:

| theorem | statement |
|---|---|
| `TypeCorrect` | `Spec => []TypeOK` |
| `AddressesAgree` | `Spec => []AddressesFollow` |
| `MemoryBounded` | `Spec => []AddressesBounded`: no 18-bit register wraps around |
| `ParametersKept` | `Spec => ParamsKept`: only `loadNN` changes a parameter between the first weight and the last bias |

The inductive invariant is `IInv == TypeOK /\ AddressesFollow`. `TypeOK` alone
is not inductive: that `readAddrW` stays an address needs the equation
`readAddrW = WeightAddrZero + nodeIdx + NHid * readAddrP` and the bounds of the
two indices, which `WeightFollows` and `NodeFollows` give for each state.
`AddressesFollow` alone is not inductive either, its arithmetic needs the types.
`Products` and `Weights` collect the few facts on products the linear solver is
not asked to find.

For the device under its program, for every set of networks, images and checked
addresses that satisfies `DriverAssumption`:

| theorem | hypotheses | statement |
|---|---|---|
| `CoreNeverHung` | - | `SysSpec => []NeverHung`: every command is answered |
| `DebugReadsTrue` | - | `SysSpec => []CheckReads` |
| `OperandsMeet` | `BlackCorner` | `SysSpec => []OperandsMatch` |
| `ServesTheReference` | `BlackCorner`, `MaxGap <= NHid` | `SysSpec => ServesAsBuilt`, the refinement |

`BlackCorner` says that no undriven enable writes, or that pixel 0 of every image
is 0; `MaxGap <= NHid` that the program polls fast enough. Both are needed: TLC
finds counterexamples without them (section 3). The invariants are `SysInv`
(which states the device may be in at each place of the program, and what the
memory holds of network and image), `Computed` (what an inference has computed
so far: the partial sums as functions of the indices, words fetched one cycle
after their address) and `Timely` (the cycles left until the device is idle,
against the cycles a stale answer may take). That the sums come out as
`NNReference` defines them is an induction over the indices, done with a least
counterexample in a set (`NatLessThanWellFounded`, `WFMin`).

### The software classifier (`ProgramProofs`)

`LoopsAreTheNetwork`: for all sizes, networks, images and contents of the stack
frame, the loops of `calculateNNCPU` compute the first maximum of the exact sums of
the network that has the weights of the arrays row by row and as biases those of
the arrays plus the contents. `SoftwareRight`: `Spec => []RightFromStack`, with no
hypothesis on the contents. The lemma `AccumulateIsDot` is the induction: a sum cut
after each addition, from any start, agrees with the exact one as a word;
`Layer1IsHidden` and `Layer2IsLogits` are the two layers.

### The stack cache (`StackCacheProofs`)

For every size of cache, burst, stack and memory that
satisfies `StackAssumption` (a burst has two words at least; no sum of an address,
two caches and two bursts wraps around), every set of values and every answer of
the bus:

| theorem | statement |
|---|---|
| `OrderedTops` | `Spec => []TopsOrdered` |
| `SpillsOwnWords` | `Spec => OwnWordsOnly` |
| `CacheIsStack` | `Spec => IsStack`, the refinement |

The inductive invariant is the type invariant with four parts. `OrderInv`: the
tops are in order and keep to the stack in every state, not only between
operations. `RoomInv`: between operations what is cached fits into the cache,
and while a transfer runs its target lies between the top and the end the
operation left it; what a fill brings in fits as well. `BurstInv`: a burst starts
at an aligned address not beyond the stack, which keeps every address a register
and the end of a burst recognisable. `CopyInv`: the address in the read port is
that of the word on the bus, and the words a transfer has passed are in the
memory and in the cache at once, so that moving `memTopReg` over them at the end
changes no contents. It is the part `IsStack` is about; for spills it holds
until one is refused.

### The pipeline (`PipelineProofs`)

For every program, depth of the status register and set of interrupts that
satisfies `PipelineAssumption` (0 and 1 are faults, traps do not use the numbers
of pins, delay slots hold what the compiler puts there), and any stalls, faults
and flushes:

| theorem | statement |
|---|---|
| `PipelineTyped` | the type invariant |
| `PulsesKept` | `Spec => []NothingLost` |
| `PulsesAnsweredOnce` | `Spec => AnsweredOnce` |
| `PipelineIsProcessor` | `Spec /\ []ReturnsOnce => IsProcessor`, the refinement |

`NothingLost` is inductive as it stands; what the proof shows is that the order of
clearing, acknowledgement and latching, and a stall in any of these cycles, drops
no pulse. `AnswerInv` for the second has `Program` (what is in the stages comes
from the program), `Source` (the source register names a request that is
pending) and `Owed` (a pending flag, and a call in the execute or memory stage,
is for a pulse not answered yet). That the call in the memory stage flushes the
ones behind it is what makes `Owed` inductive; the delay-slot counter is not
needed for it.

`OrderInv` for the refinement lists, from the memory stage back to the fetch, what
each stage holds as a point of the program: each is `Then` of the one before it,
what a flush will remove does not count, and `slots` and `target` of the
processor are those of the instruction that has left the memory stage last. After
an error answer (section 5) nothing completes any more, and the second case of
the invariant says only that. `ReturnsOnce`, that a handler returns with one
saved address, excludes handlers that are interrupted before they return: the
address they save in software is not modelled.

### The memory below a core (`CoreMemoryProofs`)

`MemoryIsPlain`: `MemorySpec => IsMemory`, for every length of bursts, number of
lines, set of data words and set of programs that satisfies `MemoryAssumption`
(bursts of data are whole, code and data are apart; there is a tag, and an even
number of words for the two banks of the method cache). The invariant `MemInv`
(theorem `MemoryKept`) says in which phase the access under way is (at rest, a
method being fetched, asked, filling, answering, storing, committing, stored)
and for each where the controllers, the join and the memory stand; hence a
command meets a memory that takes it, and an answer the side that asked. The
rest of it is about contents: a valid line holds for each word something the
word has held since the core's last store or invalidation (`LineKept`), and what
was looked up a cycle ago still stands (`LookedUp`).

`CodeFetched`: `MemorySpec => []FetchesCode` under `MethodsFit`: each method is
smaller than the cache and has, with `MethodCount` tags, at least
`MethodCount - 3` words. Both are limits of the code: a method of the full size
breaks the account of the free space, and with shorter methods the property is
false (run `method_tags`). Its invariant `FetchInv` rests on `MemInv` and says:

* `Ring`: every tag has a place `start` in an unwrapped row of words, the row ends at
  `end`, and the positions of the code are the remainders of both. In the order of
  age each method begins where the next older one ends, the tags that were never
  used are empty, and the stretch from the oldest method to `end` is what
  `freeSpace` says: while that is not negative, no two methods share a word,
  wherever they wrap;
* `Tagged`: a valid tag has those of its words in the two banks that lie no more
  than the size of the cache before `end`, hence all of them when no space is owed;
  the method on its way has its space and its tag;
* `Timed`: while space is owed no call is looked up, and the walk over the tags ends
  before one can come: the tags that are left to visit are no more than the words
  that are still to come for the new method, and two. This is where `MethodsFit`
  enters;
* `Calling`, `AtPlace`, `Whole`, `Loading`: where the call, the fetch and the
  transfer stand;
* `Shown`: the selected position, or the held instruction of a stall, and the
  address belong together.

### Message passing and shared devices

`QueuingPortProofs`, for every number of slots, words and modulus that satisfy
`PortAssumption` (the modulus is larger than the ring), any delays and any
time-outs:

| theorem | statement |
|---|---|
| `PortTypes` | the type invariant |
| `ReceivedStaysIntact` | `Spec => []HeldIntact` |
| `DmaSourceIsStable` | `Spec => []SourceStable` |
| `PortIsQueue` | `Spec => IsQueue`, the refinement |

The invariant is in parts for each place a message or a count can be in.
`Counts`: the numbers sent, arrived, received and acknowledged are in order, and
what each end knows of the other lags by what is on its way. `Window`: no more
than `NumBuf` messages are between acknowledgement and sending, hence a
difference of the wrapping counters is the real one. `Sender`: what the two write
buffers hold. `Wire`: each packet is for the slot of its message. `Ring`: slots of
received messages are whole, those of messages under way as far as their words
have come, and the rest have no flag.

`QueuingPortProofs`, for the set-up of the ports, under `SetupAssumption` (every core
has a channel, and a channel leads from a core to another): `ReadyConnected`,
`Setup!Spec => []Setup!ReadyIsConnected`, and `AcksKept`, `Setup!Spec =>
Setup!AckKept`, for any number of cores, any table of channels and any outcome of the
allocations. `AddressFirst`: the address of a port is there before its id, also while the
core is between the two, unless its allocation failed. `Messages`: a flag the sink has
cleared is set again by a message only, and messages and acknowledgements come from ends
that are done. `Connected`: what a core has come past in `mp_init_ports` is connected.

`LockProofs`, for the bakery lock, for every bound on acquisitions with numbers that do not come
round (`LockAssumption`):

| theorem | statement |
|---|---|
| `LockTypes`, `NumbersStayBounded` | types, and no number exceeds the acquisitions so far |
| `QueueIsFair` | `LockSpec => NoOvertaking` |
| `BakeryIsLock` | `LockSpec => IsLock`, the refinement |

`LockInv` has `Counted` (numbers are bounded by the acquisitions), `Copies` (a copy is
the original or the value written next, and which of them is a matter of where the
core is in its wait for the transfer) and `Order` (who is behind whom, for every
pair of places in the two programs).

`LockProofs`, for the sampling ports: `ReadsWholeNewest` (`[]ReadsNewest`) and `NeverInOneBuffer`
(`[]ApartFromReader`), for any size of samples, any number of them, and
every subset of the three builds. The invariant has `Exclusive` (the lock), `NewestWhole` (the
buffer the index names is whole), `NextApart` (the buffer the writer is at is not
the newest and not the one being read), `Sent` and `Copied` (how far each end has
come).

`LockProofs`, for the locking unit: `HardlockIsLock`, `HlSpec => IsUnitLock`, for any
number of cores and locks and any one lock. It needs `KeepsTurn` (the encoder
stays with the core that holds the lock) and `InQueue` (who holds it is queued).
For compare-and-swap: `CasIsLock`, `CasSpec => IsCasLock`, for any number of cores
and words and any one word. Its invariant `CasInv` has, per core, where it is in its
slot (`Stage`) and what its registers hold (`Operands`), and `WordsTell`: the word is
0 exactly when no core holds the lock, and 1 when one does, counting the core
whose swap is in its slot. That each core is granted the lock is model-checked.

`TransactionalMemoryProofs`: `TransactionsAtomic`, `TmSpec => []AtomicAsBuilt`, for
any number of cores, buffers, addresses and programs. The invariant says where a
core's command is (`Rests`), how long a buffer is (`Short`), that a commit stores
in its turn only (`InTurn`), that what is read was addressed a cycle ago
(`Addressed`), and the part the property is about: a transaction that is not
marked has read what the memory holds (`Unmarked`).

### The boot loader and core threads (`ProgramProofs`)

`OneProgramRuns`, `BootSpec => []OneProgram`, for any number of slaves, any programs and
both values of `Timely`: what a core calls is what was downloaded last, no slave is in a
program while the master boots, and a join returns the result of the thread that was
created. It needs that programs create threads on slaves and join a core only after
they have created a thread on it (`BootAssumption`); `MCPrograms` has TLC evaluate that
for the programs of the run. A join without a creation would return the result of the
program before.

That the master comes round to the next download rests on how fast cores poll
(`Timely`); that it calls the right program does not, which is what the theorem says
beyond the run. What it does rest on is `Delayed` and the conditions of `boot_master` and
`download`, which stand for delays of the code. `BootInv` has `MasterAt` (its status and the loaded program, for each place
of the master), `BootPlace` (a slave while the master boots), and from then on, for each
place of a slave, `StatusAt` (its status), `Together` (where the master can be: it has not
passed the slave in the loop that waits for it) and `ThreadAt` (the function pointer is
set only between the offer of a thread and its release). `Todo` is about threads: for
every join that is left, the thread of its core runs or has left its result (`Fresh`), or
a creation comes before it.

### The serial line (`ProgramProofs`)

`LineHandsOver`, `UartSpec => []IsLine` under `UartAssumption`, for any divider, width of a
byte, depth of the queues, bytes and bound on slips, from any start of the baud counter: what is read is what
was written, in its order, but for bytes that find the queue full, and no more than two
bytes are between the two queues. That the bits of a byte have its value
(`Value(Bit(b)) = b`, a fold) is an assumption of it; TLC evaluates it for the bytes of the run.

`LineInv` has `LineTyped` (the registers), `Programs` (the places of the queues the polling
has promised) and `Kept`: the bytes written and not read are those in the queue
of the receiver, then those on the line, then those in the queue of the transmitter. Which
bytes are on the line is `OnLine`, with a case for each time in a frame:

* `Idle` and `Soon`: the line is silent, and a byte has been taken or not;
* `Edge`: the start bit is out and has not come through the three registers (`Filtered`
  says what they hold);
* `InFrame`: transmitter at bit `n`, receiver waiting for the sample of bit `m`;
* `Closing`: the receiver is through with the stop bit and the transmitter is not.

In the first three the stop bit of the byte before may still wait for its sample (`Earlier`).

`Aligned` is the heart of it: how old the bit on the line is (`Age`), and how far the
next sample is (`Ahead`), differ by what the bits between `n` and `m` take and a constant
(`Delay`), give or take the slips of this frame. With that, a sample falls within
its bit (`SampledBit`), and the stop bit is sampled before an edge that
follows it can come through (`FrameOver`). The bound on the slips is what these two need, and it is tight (section 3).

### Only model-checked

- `Lossless` (compression): the search of the sender is recursive in trees.
- `LoadedWhole` and `IsLoaded` (download): the contents of memory are folds over
  segments and bytes.
- `FetchesCode` of programs outside `MethodsFit` fails (section 5).
- All liveness under fairness (`Delivers`, `Grants`, `LoopsBack`, `Answered` and the
  others of section 3), which the prover does not support.

## 5. Where code and text disagree

Each with a run whose counterexample shows it; `PROJECT.json` quotes the lines.

1. `bias`. The nodes start at the address of the last bias: output 9 gets node 0
   as its bias in the first inference of a load, and the clearing leaves 0 there.
   `BuiltAnswer` uses node 0, which is what is stored when the bias is read in
   every inference.
2. `software_layout`. The C classifier reads the weights in the wrong order; its
   result is not looked at.
3. `setup_race`. `mp_init_ports` returns at the source when the sink has published
   itself, before the sink clears the flags of its buffers: the first message can
   be lost. Properties of the ports start behind the set-up.
4. `errresp`. An access to an address without a device is answered by an error
   that is never taken back; the handler of the exception is flushed with
   everything else.
5. `conflict`. A word read in the cycle in which another core stores it is not
   compared: both transactions commit. `AtomicAsBuilt` excepts these words.

6. `method_tags`. The method cache frees space one tag in a cycle, also over tags
   that have never been used. When it is full for the first time, up to
   `METHOD_COUNT - 2` cycles (14 of the 16 tags of `default.xml`) pass before the
   oldest method gives way, while the new one is written over it. A method of few
   words is complete before, and a return to the overwritten method hits. The
   memory of the model answers without wait cycles, as `OCRamCtrl` does (the
   external memory of several boards); the SRAM of the DE2-115 needs 16 cycles for a
   burst, and only a method that ends in the burst of its size word is fast enough.

Further observations, from reading the code for the models and without a run of
their own:

* `neuralNetwork.h:136`: the C classifier sums onto uninitialised arrays.
* `Accelerator.scala:200`: the hidden layer is computed once more for a node 100
  that does not exist; nobody reads it. Several states that only read leave the
  write enable undriven.
* `DirectMappedCache.scala:49` and `156`: a load right behind an invalidation is
  answered by the tag read before it, and may hit an old line.
* `Exceptions.scala`: an interrupt may be taken up to one instruction after the
  one that disables interrupts.
* `MCache.scala`: a method of the full size of the cache breaks the account of the
  free space; the transfer leaves its last branch at the third word without a wait
  for an answer. Builds with an MMU: a refused fetch clears `mayStallReg`.
* `TransactionalMemory.scala:166`: a read that does not fit the buffer is never
  answered, and a commit of exactly as many words as the pointer can count never
  ends.
* `sampling.c:318`: an early read, before the first sample, sets the reading index
  to -1. `libnoc` clears pending interrupts in a way that can drop a second one.
* `bootloader.c:112-115`: after a download that failed, or one whose program sets
  up the network, a slave can miss BOOT or an old status with three cores or more.
  `corethread.c`: the creator can miss the status of a short thread; a join with a
  creation behind it races the release loop of the worker. A program that never
  joins a thread never comes back to the boot loader.
* `download.c` replies with the low byte of its own check sum, so a changed
  check-sum field is not noticed by the host. After an error the boot loader starts
  again, and frames that follow are taken for a new executable and answered: over
  the network the host may finish although nothing was loaded; on the serial line
  the exit magic (`bootloader.c:161-164`) usually stops it. Nothing marks the session
  of a host that was restarted without a reset. `LoadedWhole` leaves these out.
* `Uart.scala`: a glitch taken for a start bit leaves `rx_enable` on. A divider that
  is a power of two is never reached by the counters.
* `Timer.scala:68-83`: an interrupt armed for a time that has passed never comes;
  the latched half of the time is shared by the program and its handlers.

## 6. Not modelled, and why

Of the modelled parts:

* accelerator and program: printing, the cycle counter, the labels, `loadInfCheck`
  (reads only), the registers `wReg` and `bReg`, which nothing uses;
* pipeline and exception unit: data, the mask (constant), supervisor mode and its
  error answers, traps on the numbers of interrupts, faults in delay slots;
* caches: byte enables and sub-word accesses, performance counters, answers of
  error to the method cache, the instruction scratchpad; wait cycles of the SRAM
  are one step each and it always takes a command;
* message passing: branches of `mp_nback` and `mp_ack_n` that take a count back
  although nothing can fail there; builds of the sampling ports for shared memory;
  `collective.c`, which is commented out. `noc_dma_done` is delivery in
  `BakeryLock` and the last word's departure in `QueuingPort`, the weaker
  reading each of them stands;
* `CasMemory`: the scratchpad starts with zeros, as its users assume;
* core threads: the worker of the C library is external;
* download: the Ethernet variant below its frames, and noise under compression.

Of the platform, `PROJECT.json` gives the reason for each component. The bulk of
the repository's lines, `parameters.h` and `images.h`, is tables of numbers
without behaviour. Libraries for disk, audio, ELF files and Ethernet are
vendored and serve devices this build does not have. Networks on chip are static
schedules; other IO devices wrap pins or external cores. `AsyncLock` has registers
in several clock domains and cannot be stepped by one clock.

## 7. Plan

What is left, in this order:

1. **Scratchpads** of several cores (`cmp/SPMPool`, the arbiters that divide time):
   against a plain memory per owner.
2. **TCP of `libeth`**, the only protocol of the repository that is not modelled:
   connection, sequence numbers, repetition.
3. **IO devices** of a few registers: timer, keys, deadline.
4. **Proofs**: that the positions of a download stay within its segments.
