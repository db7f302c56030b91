# A TLA+ verification of x86emu

`x86emu` (`src/`, Rust) interprets x86 in 16-, 32- and 64-bit modes and emulates
enough of a PC to boot Linux: interrupt controllers, timer, keyboard controller,
clock, DMA, PCI, an IDE disk, a virtio disk, VGA, a BIOS, and VMX for guests of its own
guest. It is single-threaded. What interleaves is the guest's program, its interrupt
handlers, the devices, which advance by batches between instructions, and the CPU's
own pending exceptions, caches and flags. These modules model the devices and what
joins them to the CPU, the CPU's loop, its paging and its virtualisation, and the
integer instructions with what a fault in the middle of one leaves behind.

## Inventory

| component (src/) | state | operations | interacts with | hard behaviour | what makes it correct | module |
|---|---|---|---|---|---|---|
| `pic.rs` | two chips: IRR, ISR, IMR, base, read selector; one `icw2_pending` | raise, acknowledge, ICW1-4, OCW1-3, reads | CPU loop, every device | cascade, masks and nested services in any order | best request first, services nest, no request lost | `Pic`, `NestedPriority` |
| `kbd.rs` | output queue, command byte, pending controller and device argument, `irq1`, `driver_attached` | scancode, command 0x64, data 0x60, status, read | CPU loop, key script | one queue and one line for keys, answers and mouse answers | the line follows the head of the queue; order; arguments go to the right device | `Kbd` |
| `pit.rs` | three channels (count, reload, access, flip-flop, latch of the low byte), active channel, gate, OUT, `irq0` | control, data write, read, port 0x61, tick | CPU loop | ticks come in batches; half-written counts | exact countdown, edges on time, OUT holds, calibration ends | `Pit` |
| `cpu.rs`: `run`, `step`, `deliver_hardware_interrupt` | instruction count, IF, halted, pending exception, key script | step, park, poll, deliver | all of the above | batched polls, HLT, faults against interrupts | handlers nest; wake-ups and keys not lost; devices served | `Machine` |
| `virtio.rs` | queue page, `last_avail`, ISR, line; rings in guest memory | notify, ISR read, queue set, reset | PCI window, CPU loop, memory | free-running indices wrap; a batch has one interrupt; chains fail half way | a queue: once each, in order, announced; right blocks moved | `BlockRequest`, `BlockQueue`, `Virtio` |
| `cpu.rs` TLB, `paging.rs` | 256 direct-mapped entries; CR0, CR3, CR4, EFER | translate, fill, INVLPG, flush, accessed and dirty bits | every memory access | cached permissions and dirty state against changed tables | what is used is what a walk would give, when the guest flushes as told; dirty bits not lost | `Paging`, `Mmu`, `Tlb` |
| `cpu.rs` `port_in`, `port_out`, ... | - | dispatch of 8, 16 and 32 bits | all devices | wide accesses fall apart into narrow ones; the disk's window can be moved over other ports | an access reaches the device it names | `Board` |
| `ide.rs` | task file, buffer, position, busy, error | registers, commands, data port, flush | ports, BIOS, image | a transfer over many port accesses | the sectors named move, in order | `Ide`, `Board` |
| `pci.rs` | address latch, configuration space of the functions, BAR masks | address, data accesses of 1, 2, 4 bytes | port dispatch | BAR sizing by parts | sizing works; identity is fixed | `Pci`, `Board` |
| `dma.rs` | four channels, one flip-flop, mask | ports, transfer | memory | shared flip-flop | halves pair | `Dma`, `Board` |
| `cmos.rs` | epoch, seconds, index, RAM | index, data, second | CPU loop | roll-over of the calendar | the calendar | `Cmos`, `Board` |
| `memory.rs` | RAM, its split around the PCI hole, the text window | read, write of widths 8 to 128, memory map | everything | accesses at the split, a fast path for each width | one address space; a map that describes it | `Memory`, `Board` |
| `vga.rs`, `bios.rs` | mode, cursor, CRTC, retrace; text cells | ports; INT 10h, 13h, 15h | memory, disk | wrapping and scrolling; a map read entry by entry | the screen shows the end of what was printed | `Vga`, `Board` |
| `cpu.rs` `dispatch_exception*` | pending exception, IDT, stack | raise, dispatch, escalate, triple fault | stack, IDT, VMX | a fault while a fault is delivered | a handler runs with its frame or not at all | `VmExit`, `Hypervisor` |
| `vmx.rs` | VMCS (a region of memory and a working copy), in-guest flag, host and guest state | the VMX instructions, entries, exits, injection | exceptions, loop | exits between and within instructions, windows, events; stale regions | guest and host keep their places; an event happens once; VMCSs are a store | `Vmcs`, `VmExit`, `VmcsStore`, `Hypervisor` |
| `instructions.rs`, `modrm.rs`, the accessors of `cpu.rs` | registers, flags, segments, prefixes, fetch cursor | decode, execute | memory, paging | effects before a fault; widths; carries | a fault is invisible after its restart; numbers add up; opposites undo | `Arithmetic`, `Operands`, `Decode`, `Execute`, `Guest` |
| `protected.rs` | none | descriptor parsing | segment loads | field extraction | - | in `Operands` as three fields of a descriptor |
| `sse.rs`, `fpu.rs` | XMM and x87 registers | arithmetic | - | floating point | - | not modelled: data |
| `boot.rs`, `main.rs`, `lib.rs` | - | loading a kernel, command line | - | - | - | not modelled: pure I/O |
| `tools/`, `gen_boot.py`, `examples/` | - | scripts, sample images | - | - | - | not part of the emulator |

`PROJECT.json` lists, under "hazards", where each hard behaviour bites and which
properties are there for it.

## Style of the modules

The code is one thread in which every device is a plain structure with methods. So
each device module defines its state as one record (`Pics`, `Kbds`, `Pits`, ...) and
each method as an operator from a record to a record (`RaiseIrq(p, irq)`,
`WriteData(k, b)`, `Tick(t, n)`); its actions apply them to the module's variable for
every input the guest or the loop can give. `Machine` and `Board` instantiate the device
modules on the fields of their own records and compose the same operators in the order
in which the CPU calls the methods, so that one iteration of the code's loop is one step
of the model, however many devices it touches. The CPU itself is a record too, in
`VmExit` (what entries, exits and deliveries touch) and in `Operands` (what instructions
touch); an instruction is an operator from a CPU to a CPU.

Operators named `Slip...` are no part of the model: each is a plausible mistake in the
definition that follows it, and stands there to show that the properties would notice.

## The modules

**`Pic`** (`pic.rs`). The registers of a chip are sets of lines; a chip has `Width`
lines (8) and the slave hangs on line `Cascade` (2). `NextIrq` is the code's walk over
the bits (`MasterStops`, `SlaveStops` say where it breaks off), `Acknowledged` the
bookkeeping of `acknowledge` with the cascade bit, `Ocw2`, `Icw1` and `DataWritten` the
ports. The guest may write anything at any time. A byte written to a data port is a
member of `Bytes`; `MaskOf` and `BaseOf` say what it is as a mask or as a vector base,
because the single `icw2_pending` decides that for both chips. `Eligible` and `Rank`
define, apart from the walk, what the best request is. `NestedPriority` is the abstract
controller: one set of requests, one of services, fixed priorities; with the cascade
line never masked the pair implements it.

**`Kbd`** (`kbd.rs`). Bytes of the queue are tagged with their source (keyboard, mouse
or controller), which is what the code keeps in its two flags per byte. `RefreshIrq`,
`Replies` and the handlers for commands and data are translated one by one; the bytes
for which the code has a case of its own are in the sets `DeviceCommand`,
`FixedAnswer` and `TakesArgument`. The queue is unbounded in the code: `MaxOut` bounds
it in the guards of the model's actions only.

**`Pit`** (`pit.rs`). A count has two digits to the base `Radix` (256). `since` is a
history variable: clocks since channel 0 was loaded or wrapped. `Tick(t, n)` counts `n`
clocks at once, as the code does (`Clocks` = 4).

**`Machine`** (`cpu.rs`). `Dispatched` is the beginning of `step`, `Polled` the devices
in the order of the code, `Interrupted` the delivery, `Park` the iteration of a halted
CPU. The guest is a constant: `Program` is a set of (location, instruction, next
location) triples, so a guest may be nondeterministic; the handlers are part of it. The
stack holds the frames interrupts push. **`Discipline`** says what a guest owes for its
interrupts to be served: an outline of its text (`Closed`, `Serving`, `Drained`, `Ready`,
`Awaits`) and what each instruction must keep of it (`Keeps`), so that a controller is set up
before IF is, and a handler reads its device, ends its service on its own chip, once, and
returns. It is a predicate on the constants alone; `MCMachine`'s guest keeps it
(`MCDiscipline`), which TLC evaluates with the run.

**`BlockRequest`**, **`Virtio`**, **`BlockQueue`** (`virtio.rs`). `BlockRequest` is what
one chain of descriptors does to image and memory, in sectors, with a reference
definition beside it. `Virtio` has the rings, with indices modulo `Wrap` (65536) and
slots modulo `Size` (128), the registers, and a driver that keeps the rules of the
specification (a chain is reused when its answer was taken; a new ring is zeroed).
`BlockQueue` is what they implement together: a queue served in order, once.

**`Paging`**, **`Mmu`**, **`Tlb`** (`paging.rs`, `cpu.rs`). `Paging` has the walks: a walk
goes down levels (`Down`), and the three structures of `translate_mode` differ in how
many there are, which of them has large pages and which has permissions (`Walk`,
`Neutral`). Addresses are page numbers; a table is a page of `Fan` entries; accessed
and dirty bits are kept beside the entries, as no walk depends on them. `Mmu` is the
abstract unit, which walks at every access and which no instruction needs to
invalidate. `Tlb` is `apply_paging_inner` with its entries, `flush_tlb`, `invlpg` and
the writes of CR0, CR3, CR4 and EFER, and a guest that changes tables and registers.
`owed` is a history variable: the pages whose translation the guest has taken back, or
whose accessed or dirty bits it has cleared, and which it has not invalidated since.
The guest uses no page it owes, which is what an operating system does; everything else
it may do in any order. One action is one access, one write or one instruction.

**`Ide`**, **`Pci`**, **`Dma`**, **`Cmos`**, **`Vga`**, **`Memory`** are records and operators
only; **`Board`** composes them. Its `Out8` to `In32` are the dispatch of the CPU, with
the disk's window in front of it and wide accesses that fall apart as the code lets them
(`Out16` calls `Out8` twice where no device has a 16-bit port). The devices that have a
module of their own appear as what they are handed, in the sequence `seen`. The actions
are the guest's port accesses (`GuestOut`, `GuestIn`), the BIOS services (`DiskService`,
`SetMode`, `SetCursor`, `WriteString`, `Teletype`, `AskMap`), stores, the clock's second and the parts of
the code that nothing calls yet (`Flush` for `flush_write`, `ChannelByte` and
`RunTransfer` for the DMA channels, whose ports the dispatch does not have). As the devices
share nothing but the dispatch, a behaviour is about one `subject`; `pci` is the one that
moves the window over the others' ports. Sectors, pages of RAM, calendar units and the
screen have parameters for sizes; `Memory` has each width's own path, as the code does.

**`Vmcs`**, **`VmExit`** (`vmx.rs`, `cpu.rs`). A VMCS is a map from slots to values; the
current one is the working copy `work`, the others lie in `mem`, and `Flush` writes back.
Where the code keeps bits, a field that the CPU looks at holds what the bits say (a set
of control names, a place in a program). `ExecuteVmx` is `execute_vmx`, with VMfailValid,
VMfailInvalid and their numbers. `VmExit` has the entry with its checks, the
exit, what is saved and loaded, `PreStep` (timer and window), `Exits` (which
instruction leaves the guest), and `Dispatch` and `Delivered`: the push of a frame, the
escalation of a fault in it, the triple fault. As in the code, the pushes of any event may fault,
but only certain pairs of vectors escalate (`Escalates`): after a page fault in the pushes of
another event its handler starts on half a frame (`whole` is false) with that fault pending. All registers that entries and exits load
and the code moves together are one value, `env`. **`Hypervisor`** is the CPU's step, split
where the code sets `rip_start` into events and an instruction, with programs: a guest of
`End` instructions, each any of those the subject allows, handlers that return, and a
hypervisor that does what its manual says with each exit (skip, retry, hand on, inject) and keeps
its own stack in memory (`Plans`; the stacks of a guest and of an operating system alone may be missing at any push).
`Defers` is the step that fetches with a fault pending and executes nothing; a return by half a frame leads to the place
`lost`. `hist.torn` remembers that a page fault has torn the delivery of another event. Its
`subject` is `regions` (a hypervisor that tries its instructions on any region), `guest` (exits,
events, deliveries), `shadow` (intercepted instructions and CR0) or `native` (no hypervisor).
**`VmcsStore`** is the abstract store of control structures that it implements.

**`Arithmetic`**, **`Operands`**, **`Decode`**, **`Execute`** (`instructions.rs`, `modrm.rs`,
`cpu.rs`). `Arithmetic` has results and flags at each width, with the code's formulas for
each; a byte has `ByteBits` bits. `Operands` has the registers with their rules of
width, segments, addressing (16, 32 and 64 bits, SIB, RIP-relative), accesses split across pages, the
stack. `Decode` reads opcodes, prefixes, ModR/M and operands through the fetch cursor
(`EnsurePhysIp`, `AdvanceIp`); a faulted CPU still fetches and executes, as in the code,
where `Faulted` drops its results. What may fault gives its value and the CPU after it, and
`Then` hands both to what follows. `Execute` has the instructions with their effects in
the order of the code. **`Guest`** runs a program twice: undisturbed, as a function of the
case (`Undisturbed`), and by steps (`Run`) between which a handler brings in the page
that is missing (`Handle`, the operating system, external).

## Runs

| run | about | bounds | shows |
|---|---|---|---|
| `pic` | any guest and four device lines on the pair | 4 lines a chip, cascade 2, three data bytes | the walk returns the best eligible request; a line enters service only above those in service; no request is lost |
| `pic_nested` | the same with a guest that leaves the cascade unmasked | same | the pair implements `NestedPriority` |
| `kbd` | all interleavings of keys, commands, data and reads | queue of 4, one byte of each kind the code distinguishes | `irq1` has a cause, every head is announced, order is kept, arguments do not leak |
| `pit` | channels 0 and 2, every programming sequence, ticks of 2 clocks | `Radix` 2, so counts 0 to 3 | the countdown is exact, the edge on time, timers live, a calibration loop ends |
| `machine` | CPU loop with all of them and a guest that boots, works, faults and idles | interval 3, 4 lines a chip, timer radix 8, script of 3 keys, stack of 9 frames | handlers nest; keys are announced and typed; faults are attributed; HLT wakes; timer and disk are served |
| `virtio` | driver and device, every interleaving | ring of 2 slots, indices modulo 4, image of 2 sectors | answers are announced, requests right, the rings a queue |
| `tlb` | accesses, table writes, INVLPG and register writes in any order | tables of 2 entries, one a level, 2 TLB entries, 3 pages (one in a table, two in a large page, one of them non-canonical in long mode), long mode, PAE and legacy paging, WP and NXE switched | entries agree with the tables; the TLB implements `Mmu`: same pages, faults, accessed and dirty bits |
| `board` | sequences of port accesses and BIOS calls | 1 to 7 accesses by subject; sectors of 2 words, an image of 2½; an address space of 88 bytes and four amounts of RAM; the last second of every day of 1970 to 1974 and around 2000 and 2100 | transfers move what they name, BARs and the window hold, halves pair, the screen, memory, its map and the calendar are right |
| `vmx` | hypervisor, guest, their handlers; or an operating system alone | 2 regions and one without revision, programs of 2 instructions, 2 interrupts, 2 frames a stack (a delivery may add to them), 4 VMX instructions on regions, every push of a delivery and of the double fault after it faulting or not | guest and host keep their places, an interrupt happens once, handlers have their frames (all of them until a delivery is torn, those of page and double faults always), CR0 shows what it should, VMCSs are a store |
| `instr` | programs with their pages absent in every combination; arithmetic chains; pairs of opposite instructions | bytes of 2 bits, pages of 8 bytes, 7 of them, programs of at most 8 steps | faults are invisible after the restart; sums, differences, comparisons, divisions are right; opposites undo |
| `instr_signed` | expected violation | as `instr`, comparisons of bytes | 8-bit comparisons leave OF off, so signed conditions are wrong |
| `instr_retry` | expected violation | as `instr`, the instructions with effects before their fault | an ADC whose store faults takes its own carry in at the restart |

The bounds are small because the code is uniform in them. The walk of the PIC treats
lines alike but for the cascade, so lines below, at and above it with two slave lines
show every relation of two requests and two services. The timer's cases compare a
count with zero and with the batch, so counts below, at and above the batch occur with
radix 2. Ring indices wrap twice as far as slots, as in the code (65536 and 128). A TLB
entry meets its own page, a page that shares its index, and the other half of its large page;
more entries repeat these.

On the board, an image that does not end on a sector and counts of 0 to 2 sectors show
a transfer that is whole, one that runs past the end, and one that lies beyond it. The
address space has every border of the real one in its order (conventional memory, the text window, the
first megabyte, the hole, the RAM above it), each region at least as long as the widest access, and
the RAM ends below the hole, at it, or above. The calendar is a function of the day, and the
days taken show leap days, ends of years, the century that is a leap year (2000) and one
that is not (2100).

A VM exit happens at an instruction or between two, so a program of two instructions has one
before, between and after. Two interrupts make one wait while the other is in its handler.
Handlers are of two instructions, so that one can be interrupted in the middle; two
frames are what a fault in a handler needs.

A byte of two bits makes every 16-bit operand pair and every operand near a border of 32 bits
enumerable; the flag formulas know the width only by its number of bits, and `Wider` keeps
the one place where the code computes 8 bits in 16. (Bytes of 4 or 8 bits are allowed by
`ByteBitsAssumption`; the tables are too large then.) Nibbles, which only AF looks at, are one bit
then. The programs lie across three pages of code, their data and stack at the end of one
page and the start of the next, and consecutive pages are in frames that do not follow each other,
so that a byte taken from the neighbouring frame is the wrong one. `FaultCases` lets any
subset of the pages a program crosses be absent, or all; in legacy protected and 64-bit mode, with prefixes that
change operand and address size. The comparisons run in real mode as well. Most of the opcodes' operand forms occur in
one program at least; those of which `instr_retry` and the list below speak are in `CarelessCases`.

Deadlock is checked except where the system stops: on the board and in the vmx model the bounds stop it, a program
of `Guest` ends with HLT or a fault other than a page fault.

### Fairness

`Pit`: ticks and the taking of the edge come from the loop, which never stops while the
guest runs, so both are weakly fair; the guest's own accesses are not fair.
`Machine`: the loop is `while n < max`; the model leaves the bound out and says that the
loop goes on (`RunsOn`: unless the run has ended, every phase of the check interval
comes again; weak fairness of `Next` without ENABLED, which is too costly to evaluate
on the composed record). Nothing forces the guest. Its liveness properties assume
`Interruptible`: the loop finds IF set at a check boundary again and again; and for the
keyboard and the disk `Unhurried`: at such a boundary the timer, which outranks them,
asks for nothing. The code does not guarantee either: a loop that has IF clear at every
multiple of 64 instructions is never interrupted although IF is set in every iteration.
This is the price of the batch (`cpu.rs:2272`), and the reason why the assumption is
stated as it is. The other modules have safety properties only: a guest need not use its
devices, and a hypervisor need not resume its guest.

## What is proved

`PicProofs`, `KbdProofs`, `PitProofs`, `TlbProofs`, `MachineProofs`, `VirtioProofs`,
`BoardProofs` and `HypervisorProofs` hold the theorems, for every value of the constants under the assumptions that
the modules they extend name. TLC evaluates those assumptions on every run.

* `PicProofs`: `TypeCorrect` is inductive alone. `WalkCorrect` shows that the walk
  returns the best eligible request: it needs no invariant beyond types, but a lemma
  for each half of the walk. `AckSafe` and `RequestsSurvive` are action properties
  from the same invariant; `PairImplementsNested` maps each step of the pair to a step
  of `NestedPriority` or a stutter.
* `KbdProofs`: `CauseCorrect` (the line implies its cause) is inductive with the types;
  `HeadsAnnounced`, `ArgumentsNotLeaked` and `QueueInOrder` are properties of steps: the first two
  from what every operation is (`Lawful`), the last from what it does to the queue (`Ordered`).
* `PitProofs`: `CountdownExact` is inductive with types and the fact that a running
  count never exceeds its reload; `EdgesOnTime` and `OutIsHeld` follow from it.
* `TlbProofs`: the first part shows that a walk yields at most one mapping, of the right
  type, in each structure (`WalkSound`, `TranslateType`); nothing later looks into it.
  `CoherentAlways` is inductive with the types and needs a guest that is not `Lazy`:
  `CoherentChange` covers what the guest changes, `CoherentUse` what an access fills,
  marks or evicts. `TlbImplementsMmu` uses it for the hits: an entry that agrees with
  the walk gives the same page and the same verdict, and the marks it skips are set
  already (`MarkedSame`). The theorems hold for any tables, any TLB size and any set of
  writes and settings.

* `MachineProofs`: `ServicesHaveHandlers` and `KeysAreSignalled` hold for every guest that is
  `Disciplined`, whatever its instructions, its handlers, its faults and the speed of its
  devices. Neither property is inductive: that a line in service has its handler on
  the stack says nothing of the next interrupt, which may come anywhere. The invariant (`Held`)
  says how frames nest (`Nests`: below a frame with IF clear there is only a fault handler,
  and each hardware handler outranks those under it), that exactly the lines with a handler that has
  not ended its service are in service (`Served`), how far the controllers are set up at
  each place in the main program (`SetUp`, `Quiet`), and that a waiting byte is announced or has a
  handler that has yet to read (`Told`). `Interrupts` and `Invariance` have a case for each
  thing that can happen in an iteration of the loop. `FaultsStay` needs no discipline: a fault
  belongs to the frame on top (`Blamed`) as `step` dispatches it before it looks at the lines.
* `VirtioProofs`: what keeps the rings right is that a chain is free, asked or answered and never
  two of these (`Apart`), so that the indices, which wrap, are never further apart than the ring has
  slots. `RingsHold` is that invariant; `AnswersAreSignalled` the interrupt; `RingIsQueue`
  the refinement of `BlockQueue`, with one lemma for each step of device and driver. Only the
  number of slots must divide the modulus of the indices, as 128 does 65536.
* `BoardProofs`: `Shapes` is the type invariant, and the part on the dispatch shows that every access, however
  it falls apart, is made of the devices' operations. On these stand `WindowHidesAlways`,
  `BarKeepsItsShape` (`BarInv`: the register's low byte, as long as no one writes part of it),
  `HalvesArePaired` (`HalvesInv`: the bytes written so far name the latch of each half),
  `ScreenShowsTail` (`ScreenInv`: the cursor and what has scrolled away follow from what was
  printed), `SectorsComeInOrder` (`SectorInv`: what is in the buffer is what is still due, and the
  image that `hist.found` remembers) and `MapIsRam` (`MapInv`). `MemoryAlwaysFlat` rests on `FlatInv`, which
  says it of every single byte (the one stored last at its address, what was there before, an
  open bus) as long as all stores were regular; a lemma for each width then shows
  that its own path, through RAM or in halves, stores and loads the same as byte by byte.
  `DatesFollow` needs no invariant but `Shapes`: it is arithmetic on the closed formulas of
  `civil_from_days`. A day is reckoned in an era by century, four years, year and day
  (`Reckoning`), the code's divisions find these numbers again (`YearFound`, `MonthFound`), the years
  with a leap day are those of the calendar (`LeapYears`) and the day after is the next in this reckoning
  (`NewYear`, `DayAfter`). Lengths of minute, hour and day may be any positive numbers.
* `HypervisorProofs` proves all six properties of the `vmx` run, in five parts. What a delivery
  may do, whatever vector, fault and escalation it meets, is that it changes the few registers that frames are
  made of, or leaves the guest (`Delivery`: `Apart` or `Left`); the parts rest on that.
  `StructuresAreStored`: the type invariant is `Sound` (a structure has all its slots, a working
  copy a region that is current), `Effect` lists what a step can do to structures and
  `StepRefines` maps each to a step of `VmcsStore` or a stutter.
  `HostIsIntact`: `Hosting` says that the host's area and controls are as they were prepared
  and that outside a guest the hypervisor is at its own code (`Bare`) or in its own interrupt
  handler over it (`InHandler`), since `HostIntact` alone does not say what an exit loads.
  `GuestSeesItsOwn`: `Seen` follows the CR0 a guest should read (`View`) from the register to the field and
  through the two writes by which a hypervisor grants one, of which the first alone leaves it untrue.
  `EventsAreKept` and `GuestIsIntact`, which speak of a CPU on which no delivery has been torn, come from one invariant, `Life`, as none of them is
  inductive without the others: a count of interrupts needs that the field is empty in a guest, where a program
  goes on needs the frames under its handlers, and these need what is owed. `Life` says
  what the hypervisor owes the last exit and which event may wait (`Owing`), that each interrupt is
  in one place (`Counted`), and that a program is a chain of whole frames with the instruction that is due at
  the bottom (`Program`), running with at most one fault to deliver (`Living`) or put away in the fields
  (`Resting`); after a double fault only the frame is left (`Doomed`). The lemmas are named for
  who steps: `Alive...` while the program runs, `Idle...` while its hypervisor does.
  `HandlersHaveFrames` rests on this until a delivery is torn and on a second invariant after it, `Foot`; `Carried` has both. `Foot`
  says that the handler of a page fault or a double fault has a whole frame on top of its stack (`Footing`)
  and that no frame, whole or half, returns into one (`Linked`): their own pushes escalate, they are
  entered with IF clear, and their instructions in the model do not fault. So a return, or an event that tears a
  delivery, never starts one on another's frame, and an exit that is not a burial puts none away (`Away`).

The theorems about `Hypervisor` hold for any regions, encodings, programs, tables and numbers of steps. They assume
what the code's own manual asks of a hypervisor, as `SetupAssumption` names it: a structure
prepared with supported controls, a host in long mode and a guest that starts with an
empty event field. That its own stack is in memory is part of `Plans`, and that its interrupt table covers every vector part of `Init`; a guest of the
subject `native` has any table, and can end by a triple fault, which is why the last
three are about a CPU that has not been reset. A structure that fails these is what the subject
`regions` is for, and `StructuresAreStored` holds for that too.

The theorems about `Machine` are implications: `Disciplined` constrains the guest, not the
emulator. It is as weak as the properties bear, since each of its clauses has a guest that breaks it
and loses an interrupt: one that ends the service of the slave's line on the master alone, or
sets IF before it has set the vector bases.

Some definitions changed when the proofs met them. `WindowHides` says that an access through the
window cannot change another device; a configuration write that moves the window at the same time does, and its
last clause is about accesses that leave the base alone. Where arms of a CASE overlapped (the
character output of `Vga`, the wide accesses of `Memory`), the order that the code gives them is now an IF:
TLA+ leaves open which arm is taken. The constants of `Board` and `Machine` are now given
sets (bytes, ports, instructions) that were only implied by the instances. In `Hypervisor`,
arms of `Owes` overlapped for a double fault, and `HandlerHasFrame` looked at the guest's place under
`regions` too, where a hypervisor may write anything there; what a hypervisor does and what it may find
are named by assumptions now. `HandlerHasFrame` used to speak of every handler; it, `EventsKept` and `GuestIntact` now
say what a torn delivery leaves of them. The folds by which `VmExit` stored several fields are written
out as one store in another, and the parameters of `VmcsStore` that were operators are sets. The same
holds of the loops by which `Memory` stores bytes. `MemoryIsFlat` used to follow two stores; it now
speaks of any number, remembered by address in `hist.stored`, and of guests whose
stores were all regular (`hist.regular`).

Only model-checked:

* all liveness (`TimerLives`, `CalibrationEnds`, `HaltWakes`, `ScriptTyped`,
  `DevicesServed`), which is out of the prover's reach, as ENABLED is;
* `RequestsCorrect`, which compares the walk along the descriptors of a chain with what the
  request means as a whole and needs induction over the chain;
* `FaultsInvisible`, `NumbersKept`, `RoundTrips`: `Arithmetic` and what extends it
  (`Operands`, `Decode`, `Execute`, `Guest`) use `Bitwise` and, for the prefixes and the loops of
  string instructions, recursive operators, neither of which the prover takes.

## Where the code and its comments disagree

Two disagreements have a run (`instr_signed`, `instr_retry`) and are listed under
"findings". The others were met while the code was translated; the models do what the code does.

Devices:

* `pit.rs:8-10` gives each channel its own data port, but `write_data` ignores the port
  and writes the channel of the last control word (`pit.rs:105`). `pit.rs:122` says "LSB then
  MSB", but reads and writes share one flip-flop, so a read between the control word and the
  data makes the first byte written the high one. `pit.rs:15` lists access mode 0 as a
  latch; nothing is latched and reads follow the live count.
* `cpu.rs:2289-2291` says the RTC keeps step with the timer; a wrap drops the clocks by
  which the batch overshot it (`pit.rs:239`), so channel 0 loses up to 3 clocks a period.
* `cpu.rs:2320-2322` says the disk's line is level-triggered; each poll latches it in the
  IRR, which the ISR read does not clear, so it outlives its own fall.
* `cpu.rs:2269-2270` says the devices tick every IRQ_CHECK_INTERVAL instructions; a HLT that
  wakes on a boundary has polled at that count, and the next step polls again.
* `pic.rs:98-99` says the cascade bit stays in service while the slave has something in
  service; an EOI to the master clears it whatever the slave holds. The walk looks at
  the slave's own services too, so priorities do not suffer (`AckOutranks`). `icw2_pending`
  is one flag for both chips.
* `README.md:436-442` lists IRQ14 for the disk; `ide.busy` is cleared before the loop
  can see it. `ide.rs:5-6` and `README.md:437` promise that sectors are written; `flush_write`
  (`ide.rs:160`) has no caller, and the words are dropped by the next command. An unknown command
  keeps the buffer of the last one, a failed read shows no ERR in the status, and a 32-bit IN
  at 0x1F0 gives one data word and 0xFFFF.
* `pci.rs:19-21` says how a BAR is sized; the mask is applied to 32-bit writes only, so byte and word writes
  can clear its type bit and set bits below its size (`BarKeepsShape` asks for whole writes).
* `virtio.rs:217-218` promises the number of bytes written; a read that runs past the
  end of the image reports the full length of its buffers.
* `dma.rs` has address and count ports that the dispatch in `cpu.rs` does not reach.
* `cmos.rs:34` names the bit for 24-hour mode, which nothing looks at, and reads of several registers can tear
  around a second, with no update flag to tell.
* `memory.rs:23-24` says that addresses without RAM read as 0xFF and are no alias of others; a wide
  access that starts in the last bytes of the RAM below the hole goes on in that at 4 GiB when
  there is some. An odd word in the text window reads the cell that contains it, an access over an edge of the window goes to the RAM under it, and a
  128-bit one ignores the window (`Regular` in `Board` says where the widths agree).
* `set_mode` leaves the text window as it was. A BIOS disk call for sector 0 underflows.
* `boot.rs:161-164` describes the screen for the kernel; `load_kernel` never calls
  `write_screen_info`.

Paging, exceptions and VMX:

* `cpu.rs:26-28` says a TLB entry is invalidated on any write that changes page tables;
  no write to memory touches the TLB, and an access the cached permissions refuse
  faults without a walk and keeps the entry (`tlb` asks the guest to invalidate, `Lazy` = FALSE).
* `vmx.rs:964-965` says when the interrupt window exits; `run` does not call `step` for a
  parked guest (`cpu.rs:2641-2659`), so one resumed halted with IF set waits for an interrupt instead.
* `vmx.rs:22-24` reserves CF for the lack of a current VMCS; instructions that check their
  operand first report ZF then too and write their reason into a working copy that is nobody's
  (`FailValid`). INVEPT fails always, though its comment (`vmx.rs:662-664`) says it succeeds. The
  comment at `vmx.rs:674-675` has reserved bits checked that must be 1; only those that must be 0 are.
* The length of an exit for `#BP` is 0 (`vmx.rs:929-931`), SMSW reads the real CR0 and CLTS and LMSW
  change bits the host owns; a `#PF` whose bit in the exception bitmap is clear never exits;
  the I/O bitmaps are asked for the first port of an access only.
* A guest with IF clear never gives the CPU back for external interrupts; a page fault in
  the pushes of any event but a page fault or a double fault is left pending (`cpu.rs:2597-2600`) at that event's handler, which
  is on half a frame: the interrupted program is lost (`hist.torn` in `Hypervisor`). When the event ended a HLT,
  `run` has not moved `rip_start`, so the fault is told to have happened at the HLT and the event is lost as well (`Park`).
  After a triple fault a step still executes one instruction.

Instructions:

* `instr_signed`: no 8-bit ADD, ADC, SUB, SBB or CMP sets OF. `instr_retry`: after a fault,
  flags, segments and the stack pointer keep what the instruction had done (ADC, SBB, RCL, RCR,
  PUSHA, POPA, POP to memory, RET imm16, far CALL, RETF, IRET), and a DIV whose operand
  faults divides by 0 instead. A faulted RETF or IRET has loaded CS with 0 before the fault is delivered.
* The 8-bit SBB computes `a - b - cin` with bytes and overflows; DIV of 8 and 16 bits truncates
  its quotient; IDIV of the smallest dividend by -1 panics; the 8- and 16-bit one-operand IMUL
  derives CF and OF from the high half alone.
* 16-bit near branches, calls and returns change `ip` and not `rip`, so they do not branch in
  protected mode. 16-bit addressing with mod 0 and rm 6 adds BP and takes SS; a 16-bit
  effective address with a negative displacement does not wrap; opcodes 0F 8x take a 32-bit displacement with
  16-bit operands; E0 and E2 are swapped; 66 twice cancels itself; group 1 with REX.R is CMP. A0 to A3 take 32-bit offsets
  in 64-bit mode with 32-bit addressing, whose stores ignore the segment override.
* BT with an operand past its page uses the wrong frame; far pointers, CMPXCHG8B, A0 to A3, stack
  accesses, CMPS and SCAS are not split at a page's end; a CMOVcc whose condition fails does not load; a
  MOVS whose source faults on its second page stores a zero element. A 16-bit IRET
  does not load CS's descriptor.

## Not modelled

`sse.rs` and `fpu.rs` are arithmetic on data TLC cannot enumerate. `boot.rs`, `main.rs` and `lib.rs`
load files once and print. Of `instructions.rs`, the system instructions other than those of
paging, interrupts and VMX (descriptor tables, MSRs, SYSCALL, CPUID), I/O instructions and
privilege checks are left out; `Decode` gives them the kind `other`. Of deliveries, the layout of frames, the
choice of stack (TSS, IST) and real mode are left out. Of VMX, segment state is one value, CR4 follows
the pattern of CR0, and exit qualifications are left out. Of the display, pixels and attributes.
Debugging aids (watchpoints, traces, statistics) are left out everywhere.

## Plan

1. Privilege levels: the stack that a delivery chooses, IRET to an outer level, SYSCALL.
2. The XMM integer operations, which share the accessors in `Operands`.
