# A TLA+ model of breeze-emu

breeze-emu is a SNES emulator in Rust. This directory holds TLA+ modules of
its parts, TLC configurations that check them on small instances, and proofs
for the TLA+ proof system. Paths below are relative to `src/src/`; the line
numbers of every definition are in `PROJECT.json` ("map").

To check a module: `tlc -workers 2 -config MCDma.cfg MCDma`; to check the
proofs: `tlapm DmaProofs.tla`. The community modules SequencesExt,
FiniteSetsExt and the modules they extend have to be on the path.

1. [Inventory](#1-inventory)
2. [The modules and the code](#2-the-modules-and-the-code)
3. [What the runs show](#3-what-the-runs-show)
4. [What is proved](#4-what-is-proved)
5. [Where the code and its comments disagree](#5-where-the-code-and-its-comments-disagree)
6. [What is not modelled](#6-what-is-not-modelled)
7. [What could come next](#7-what-could-come-next)

## 1. Inventory

The whole program is one thread, the audio output excepted. Nothing in it is
concurrent in the sense of locks and threads; what is hard is the simulated
concurrency. `Snes::render_frame` interleaves a CPU, an APU and a PPU whose
steps have different lengths; the PPU's position starts everything else at its
dot; the emulated program may touch any register between any two steps; and
the user presses buttons, makes and loads save states at any time.

| component | state | operations | who calls it | what is hard | what makes it correct |
|---|---|---|---|---|---|
| frame loop, `breeze_core/snes.rs` (`render_frame`) | debts of APU and PPU, `cy`, NMI and IRQ flags, NMITIMEN, HTIME, VTIME, HDMAEN | one round: CPU instruction, APU turn, PPU turn with events, interrupts | `Emulator::run`, once per frame | signed debts in different units; turns cut short by interrupts; instructions longer than a line or a frame; `wai` | every event of the frame happens once, in place; nobody falls behind; the handler starts at once; frames complete |
| input, `breeze_core/input/`, `breeze_core/record/`, `breeze_backend/input/` | mode, latch, `latched_this_frame`, shift registers of the joypads, auto-read registers | `$4016`/`$4017`, `new_frame`, `perform_auto_read`, `start_recording`, `start_replay`, save and restore | program, frame loop, main | the three callers interleave; a save state changes some of the state under a recording | what the program reads is what is recorded; every frame is recorded; a replay is deaf to the user |
| HDMA, `breeze_core/dma.rs` | eight channels: start address, bank, size, table address, line counter, transfer flag | `init_hdma`, `do_hdma`, stores to `$43xx`, HDMAEN | frame loop, program | registers shared with general DMA and changed in the middle of a frame; counter and repeat bit in one byte; addresses that wrap | a channel sends what its table says, line by line |
| general purpose DMA, `breeze_core/dma.rs` | the same channels | `do_dma`, `dma_transfer` | a store to MDMAEN | sizes that are no whole number of units, wrap of addresses, several channels, encoding of 65536 | every byte between the right two addresses, exactly the size, the right cycles |
| 65816, `wdc65816/lib.rs`, `statusreg.rs` | A, X, Y, S, D, PC, PBR, DBR, P, emulation, WAI | `dispatch` (256 opcodes), `trigger_nmi`, `trigger_irq` | frame loop | interrupts between any two instructions in two modes with different frames; a stack that wraps in a page or a bank; register widths that change | returns restore; the stack stays in its page; narrow registers stay narrow |
| addressing modes, `wdc65816/addressing.rs` | none | effective address, load and store through it | `dispatch` | bank and page wrap, 16-bit accesses at the end of a bank | the address each mode is defined to have |
| PPU ports, `breeze_core/ppu/mod.rs`, `regs.rs`, `oam.rs`, `cgram.rs` | VRAM, OAM, CGRAM, their addresses, prefetch, flip-flops, latches | `load`, `store` of `$21xx`, `update` | program, HDMA, DMA | write-twice registers, prefetch, shared flip-flops | a stream of bytes lands where the address and the increment mode say |
| PPU backgrounds, `breeze_core/ppu/bg.rs` | cached line of each layer | `lookup_bg_color`, `render_bg_scanline` | `get_raw_pixel`, for each dot | cache invalidated at x = 0 unless the layer is off | a dot is of the line that is drawn |
| PPU sprites and compositing, `sprites.rs`, `rendering.rs`, `rgb.rs` | the sprites of the line, overflow flags | sprites of a line; layers and priorities; colour math, windows | `Ppu::update` | limits of 32 sprites and 34 tiles, priority order per mode | the frontmost opaque pixel wins |
| SPC700, `spc700/` | registers, 64 KiB, timers, four port pairs, IPL map | `dispatch`, `store_port`, `load_port`, timers | frame loop; program through `$2140`-`$217f` | no handshake but what both programs agree on; timers in cycles of instructions of different lengths | no byte of an upload is lost; a timer counts what elapsed |
| bus, WRAM port, multiplication and division, `snes.rs` | WRAM, WMADD, operands and results | `Peripherals::load`, `store` | CPU, DMA | 17-bit address that steps on both reads and writes | the address wraps in 128 KiB; results by definition |
| cartridge, `breeze_core/rom.rs` | image, RAM, mapping | `from_bytes`, `load`, `store` | bus, main | two headers to choose from; mirrors of images of any size | the right header; an index in the image or a panic; the mirrors agree |
| save states, `breeze_core/save.rs`, `libsavestate/`, `byte_array/` | the file | `create_save_state`, `restore_save_state` | `Emulator::handle_action`, main | fields in order, in place, nothing checked before it is overwritten | save then restore is the identity on what is saved |
| emulator, `breeze_core/snes.rs` (`Emulator`), `breeze/main.rs` | renderer, audio sink, options | `run`, `handle_action` | main | order of set-up steps; actions between frames | an action is handled once, and refused in a recording |
| backends, `breeze_sdl`, `breeze_glium`, `breeze_cpal`, `breeze_backend(s)` | window, texture, audio queue | `render`, `handle_events`, `update_state` | emulator, input | event order, a queue between emulation and audio thread | outside the repository for the most part |
| recording formats, `record/smv.rs`, `record/custom.rs` | file | header only; frames are `unimplemented!()` | input | nothing yet | nothing yet |

The interactions: the program reaches all components through
`Peripherals::load` and `Peripherals::store`; stores to MDMAEN run a whole DMA
inside the store; the frame loop calls `init_hdma`, `do_hdma`, `new_frame`,
`perform_auto_read`, the renderer and the CPU's triggers; joypads call the
backend when they are latched, and the input component calls the recorder at
the same edge.

What is hard to test is listed, line by line, under "hazards" in
`PROJECT.json`, each with the properties that would catch it.

## 2. The modules and the code

### FrameLoop

`render_frame` is an infinite loop; `pc` says where it is: `idle` between two
calls, `cpu` before `dispatch`, `others` in the turns of APU and PPU, `failed`
after the renderer's error. One action is one CPU instruction, one SPC700
instruction, or one dot of the PPU with everything that dot starts: this is the
granularity at which the debts and the position change. The `match (v, h)` is
spelt out once (`FrameStart` ... `Refresh`), and `Charge`, `Count` and
`NmiFlag` say what each case does. The dot on which an interrupt is raised
ends the PPU's turn (`break` in the code); it is an action of its own
(`NmiDot`, `IrqDot`) since what it skips is the interesting part. `RenderFails`
is the `try!` of the renderer.

Instructions are their cost. Those that touch what the loop reads have actions
(`StoreNmitimen`, `LoadRdnmi`, `Wai`, ...); all others are `Compute`, including
a store to MDMAEN, the reason why costs can exceed a frame. `events` is a
history variable: what was called since the PPU was at (0,0).

### Input

A joypad is the word it was latched with and the number of bits shifted out.
`inp` gathers the state of `Input` (`latch`, `latched_this_frame`, the joypads)
with two history fields for the recorder. Actions are main's set-up steps, the
user (buttons, save states), the program's accesses and the frame loop's two
calls, in the order of the frame (`phase`). `record_frame` may fail at any call
(`ok`): the code logs the error and goes on. A save state carries the latch, the
flag and the auto-read registers, but neither the joypads nor the mode, and may
come from another session: `Restored` takes any values a session can have saved.
The option `--savestate` is not checked against the mode, the hot key is.

### Hdma and HdmaTable

`HdmaTable` is the abstract specification: a channel has a table, a list of
entries; each line it sends a unit or nothing; and the program may interfere,
after which nothing is promised until the next frame. It knows nothing of
registers. `Hdma` is the code: channel registers, `init_hdma` (`InitHdma`),
`do_hdma` (`DoHdma`, one line, all channels) and each store the program can make
in between, a whole general purpose DMA included (`StoreMdmaen`). `Disturb`
records which stores make a channel lose its table: the ones that change what
HDMA still uses. The refinement `FollowsTable` shows that all other stores do
not matter.

The memory the tables are in is a constant, `Memory`; `TableAssumption` says
that the tables of the constant `Tables` have been assembled into it and do not
cross the end of the bank.

### Dma

One action per bus access: `ReadByte` and `WriteByte` are the two closure calls
of `dma_transfer`, `NextChannel` and `FinishChannel` the head and the end of the
loop over the mask. `job` holds the local variables. `started` and `moved` are
history.

### Cpu

An instruction or an interrupt is an action. The data the program computes is
left out; what decides where it continues is kept: PC, PBR, S, the flags X, I and
D, emulation mode, WAI, the high byte of X (`txs` copies it to S), and bank 0,
where the stack is. `frames` is history: what was pushed, with the state at
that time; `instr` too: whether the last step was an RTI, a block move or another. The program nests its pushes and pulls (the guard `Pull`); a program
that moves the stack gives up the frames that were on it.

### IplUpload and Upload

`Upload` is the abstract specification: bytes of a list of blocks arrive in
memory one after the other, then the program is entered. `IplUpload` has two
processes, the SPC700 in its boot ROM (`spc700/ipl.rs`) and the 65816 in a
game's upload routine, and between them the ports as `spc700/lib.rs` has them:
`io_vals` for what the CPU stores, RAM at `$f4` for what the SPC700 stores. A
step of the boot ROM is one access to a port and the instructions up to the
next access; the labels in `spc.pc` are those of the listing. The uploader is
external: it may store bytes or words, choose any flag and any kick the boot
ROM can tell from the next index.

### Ports, Screen and Bytes

The registers of the PPU and the bus behind which a memory or a latch lies: VRAM,
OAM, CGRAM and WRAM, each with its address, its increment and, where it has
one, the half of a word that waits; the scroll and Mode 7 registers that are
written twice; and the H/V counters, latched and read in halves. An action is
one load or store of one register. The groups share no state, so a behaviour
uses one of them (`uses`, chosen at the start), which keeps the states of one
from being multiplied by those of the others. Numbers are written to the base
`Radix` (256 in the code), so an address or a register is two digits and every
wrap is where the code has it. `stream`, `whole` and `seen` are history: the
bytes stored or loaded since an address was set, the last word stored in two
halves, and what was read of a latched counter.

`VRAM` is byte-addressed by word address and half; the address remapping of
VMAIN is `panic!("NYI")` in the code and left out.

Two small modules are shared: `Screen` has the position of the PPU and how it moves
(Ports, Render), `Bytes` the byte of the sound processor (IplUpload, Timers).

### Sprites and Render

`Sprites` has the operators of one line: which sprites are in range
(`Visible`), which of their tiles are loaded (`LoadedTiles`, from the last
sprite to the first), and what each dot then shows (`SpriteLine`). `Render` is
the state machine around them: `Update` is `Ppu::update` with `render_pixel` in
it, one dot at a time, and `Configure` any change of any register or memory between
two dots (also what a restored save state amounts to, since the cache is not
part of it). What a program can set up is a record (`SetupType`); `gen` counts
changes, so that a dot that was rendered from an older setting can be told from
one of now. A dot has no colour: which layer it comes from, its priority, the
line it was rendered for, and whether colour math applies are what the
properties are about.

A background is looked up in the order of the layers of the mode until a dot is
found, on the main screen and then, if colour math asks for it, on the
subscreen. The set of backgrounds looked up and the last of them determine
what is valid afterwards, because at x = 0 each lookup invalidates all layers.

### Emulator

The program around the console: `process_args` (start with its options),
`Emulator::run` (frame, events, actions), saving and restoring field by field,
exit. Steps are as small as they must be for a failure between them to matter:
one field saved or restored, one action handled. A field has only an age (the
frame it belongs to), which is enough to tell a mixture from a whole. Writes
fail after any part of a buffer, the process is killed at any step, and is
started again, with or without `--savestate`; the file stays. The file named by
`--savestate` is taken to be the one the hot keys use.

`Poll` is the event loop of the SDL renderer, which stops at the first event
that is an action. `asked` is history: what the user wanted and has not got yet; `Asks` says
that the queue still asks for it, in that order.

### Cartridge, Addressing and Bus

`Cartridge` decides between the two headers an image may have and resolves an address in
the mapping of either. The mapping is that of the place where the chosen header was
found; the map mode the header names only counts in its score. `Addressing` computes the
effective address of each mode of the 65816. Both are operators with the code's own
numbers. `Bus` puts them together with `Peripherals::load` and `store`: an image is
inserted, the console powers on, and an access, of a byte or a word, at an address or an
operand, is recorded in `last` with the cells it reaches and the cycles each waits;
`operand` records how the address of an operand came about. `checks` says whether the
build checks additions for overflow: the plain additions of `addressing.rs` and the
subtraction in `resolve_lorom` stop such a build, and wrap in one without.

### Timers

An action is an SPC700 instruction with its cycles, which `dispatch` hands to
all timers at its end; those that access a timer have actions of their own.
`since`, `taken` and `steady` are history: the time a timer has run, what the
program has read of it, and whether its divider has stayed the same.

## 3. What the runs show

For every property there is a mutant of a definition, in the module, that breaks it.
Type invariants, where a module has one, are proved (section 4) and not checked again by a run.

**frame_loop** (592,350 states). *EventsMatchPosition*: wherever the PPU is,
each event of the frame has happened exactly as often as the position says.
*NmiFlagInVBlank*: the flag in `$4210` is never set outside V-Blank, whoever
reads it when. *NmiHandlerAtVBlank*: the handler's first instruction runs on
the first V-Blank dot, whatever the PPU still owed. *InStep*: when the CPU gets
its turn, the APU is at most one of its cycles behind, and ahead by less than the
instruction that put it there; the PPU is ahead by less than a dot, and behind only if it
stands on the very dot whose NMI or IRQ ended its turn (`CutShort`; an IRQ flag left from
an earlier dot is no excuse). By how much it is then behind is not bounded, in the code
either. *FrameCompletes*, *NmiEndsWait*: a call returns; a waiting
program with NMIs enabled wakes up.

**input** (31,110 states). *ReadsAreRecorded*: what a joypad holds is what was
recorded last. *RecordedUnlessHeld*: a complete frame without a record is one
at whose end the program held the latch. *ReplayIgnoresUser*: no button of the
user reaches a joypad in a replay. *AutoReadIsFresh*: an auto read with the
latch low gives the buttons of the moment, whole, and the recorder sees the
same. *RecordingGoesOn*: records do not stop while the latch is released again
and again.

**hdma** (717,664 states). *FollowsTable*: every channel implements
`HdmaTable`. *RegistersInTable*: the registers are those of the place reached in
the table (this is the inductive invariant of the refinement proof).

**dma** (90,697 states). *BytesInPlace*: the k-th byte goes between the two
addresses the registers give. *ChannelsInTurn*: no channel moves more than its
size or starts before those below it are done. *Complete*: at the end all
bytes of all channels of the mask have been moved and exactly their cycles
charged. *TransferEnds*.

**cpu** (314,182 states). *ReturnsRestore*: under any nesting of calls, pushes,
interrupts and handlers, and in either mode, a return continues where its frame
was made with the stack as it was; after an interrupt, with the same flags.
*StackInPage*: in emulation mode S stays in page 1 (the assertions of `pushb`
and `popb`). *NarrowIndexKept*: a step that gives a narrow index register a
high byte is an RTI or a block move, as `instr` records it.

**timers** (3,240 states). *CountsTime*: what was read from a timer and what is
in it add up to the time it ran divided by both dividers, and no part of a
period is lost between instructions, reads, or while it is disabled.

**ipl_upload** (1,326 states). *UploadArrives*: `IplUpload` implements `Upload`.
*DataHeld*: the data port keeps the byte the SPC700 is about to take until it
has taken it. *UploadEnds*: both sides come to the end of the upload.

**ports** (1,094,121 states). *StreamsLand*: bytes stored in sequence lie in
consecutive cells from the address that was set, words whole, whatever
increments, wraps, mirrors and half-written words came before. *LoadsInOrder*: bytes
loaded in sequence are those of consecutive cells, of VRAM from the second load on
(the first returns what an earlier address prefetched). *WrittenTwiceWhole*: two
stores to a register make it the word stored, whatever it and the registers
that share its latch held. *CountersReadWhole*: two loads are the halves of one
latched position, low half first.

**render** (330,670 states). *BackgroundOfThisLine*: if a background was looked
up at x = 0, no dot of a background is of another line, whatever is switched on, off,
masked or covered in the middle of it. The condition is needed: section 5.
*LineIsRenderedOnce*: once a background is cached, no store changes
what it shows on the rest of the line. *SpritesInPriority*: every dot shows
the first in priority among the sprites taken and loaded, against a definition by
counting (`FrontSprite`); sprites beyond the limits set the flags. Which tiles are lost
beyond the limit is as in the code, where a flipped sprite loads its tiles from the right
and those off the screen count; the comments say otherwise (section 5).
*FrontmostShown*: no enabled, unmasked layer with a dot is in front of the one
shown, with the depths given as numbers and not as the lists of the code.

**emulator** (63,183 states). *NeverTorn*: whenever a frame is emulated or a state
is saved, all fields of the console are of one frame. *FileOfOneState*: the file is a
beginning of the one state saved last, and what is restored from it is that
state. *ActionsInOrder*: what the user asks for is done in the order it was asked
for. *ExitEnds*: a request to exit ends a process that emulates.

**bus** (189,770 states). *RightHeader*: if the image has one header that nothing is wrong
with, the mapping of its place and its sizes are used, and ROM is as large as both promise. *MirrorsAgree*:
each access to ROM reaches the byte the address lines select, the system area is the same in
all its banks, and mirrors differ only in the waits of FastROM. *StoresAreFound*: a
byte or a word stored to memory is found there by a load. *OperandsInPlace*: the
effective address is in the bank its mode says, and an index carries into the
next bank where it should.

**frame_loop_irq** checks one sentence of the code's comments (*IrqTakenIfEnabled*) and
finds it violated, see section 5.

### Bounds

| run | instance | why it is enough |
|---|---|---|
| frame_loop, frame_loop_irq | 3 lines of 5 dots, all events on dots of their own; a dot takes 2 cycles, instructions 3 or 35, waiting 1, SPC700 instructions 1 or 2 units; `DebtMax` 36 | 3 and 2 are coprime, so dots and instructions drift through all alignments; 35 exceeds a frame of 30 cycles, so that a turn passes every event; two visible lines tell the per-line events from the per-frame ones |
| input | two ports, one joypad, two words, two bits | one joypad shows every order of latch, read and record; the second port is the empty one; two bits tell fresh, half-shifted and exhausted |
| hdma | one channel, 3-bit bytes (64 addresses), a direct and an indirect table with repeating and plain entries and the longest count, 6 lines | `do_hdma` treats channels independently (the proof is for any set of channels); the tables end before the last line, so that the end of a table is passed |
| dma | two channels, 3-bit addresses and sizes, every mode, direction and step, a size that is no multiple of a unit, 0 and the largest | blocks wrap around; the second channel shows the order and the separation of registers |
| cpu | 3-bit bytes, 64 addresses, one stack, jump and call target, at most two frames (`MaxFrames`) | a page of 8 bytes overflows with two interrupt frames, so both wraps occur; two frames nest each kind in each |
| timers | one timer (they are independent), 3-bit bytes, first divider 3, a 2-bit counter, instructions of 2, 3 and 5 cycles, dividers 1, 2, 3 and 0 | an instruction may overflow the first stage twice; the counter wraps; 0 stands for 8 |
| ipl_upload | 3-bit bytes; two uploads of two blocks: one crosses from page 3 to page 4, one is as long as a page, one is a single byte | the index wraps in the middle and at the end of a block; the page's sign changes (`bpl` after `inc $01`); comparisons range from -4 to 3 |
| ports | digits of 2 bits, 16 bytes of VRAM, 8 + 2 bytes of OAM, 4 colours, 2 pages of WRAM; 3 addresses set and 4 bytes moved (`MaxSets`, `MaxMoves`) | addresses wrap and are mirrored within four moves; increments of 1 to half the memory; a third address can be set with half a word waiting from the second |
| render | 3 sprites of which 2 are taken, 3 tiles, tiles of 2 dots, lines of 3 dots and a blank one, 2 drawn lines of 5; 8 settings covering all mode groups, windows, both screens, blank; 3 changes of setting (`MaxChanges`) | both limits are exceeded, sprites overlap and cross both edges, are flipped and have transparent dots; two changes disable a layer and enable it again within a line, the third one falls on the next |
| emulator | 3 fields, a buffer of 2, frames told apart up to 2 (`MaxFrames`), 3 events (`MaxQueue`) | a save writes one full buffer and leaves a rest for the drop; a file can be empty, cut after each field, or whole; three events queue two actions behind one |
| bus | banks and addresses at both sides of every boundary in the code's matches; images too short, cut, with a copier's header; two sets of registers, at the beginning and the end of their banks | the matches are constant in between; sums reach the end of a bank and of memory |

`DebtMax` (FrameLoop), `MaxFrames` (Cpu, Emulator), `MaxSets` and `MaxMoves`
(Ports), `MaxChanges` (Render) and `MaxQueue` (Emulator) are bounds of the
model, in guards; everything else is finite as it is in the code.

Deadlock is checked everywhere but in FrameLoop, where a renderer's error ends
the program, in IplUpload, where the boot ROM has been left at the end, in
Ports, whose bounds end a behaviour, and in Bus, where a fatal access ends the program.

### Fairness

* FrameLoop, `RunSpec`: weak fairness of the loop's rounds (a loop without any
  other exit) and of the next call, since `Emulator::run` calls
  `render_frame` again until the user quits. *FrameCompletes* would need the
  first only.
* Input, `FairSpec`: weak fairness of main's `Run` and of the frame loop's
  calls, justified by *FrameCompletes*. Nothing is assumed of the program or the
  user.
* IplUpload, `FairSpec`: weak fairness of each processor, which *InStep* and
  *FrameCompletes* justify for the SPC700; the uploader is assumed to do nothing
  else.
* Emulator, `Spec`: weak fairness of the process's own steps: it goes on unless
  it is killed, and each of its loops calls the next step. Nothing is assumed of the
  user, and a kill satisfies *ExitEnds*.
* Dma, `FairSpec`: weak fairness of the transfer, a loop during which the CPU
  stands still.

## 4. What is proved

The proofs hold for all values of the constants that satisfy the named assumptions of
the modules: any geometry of the frame in which the events are on different dots as the
code's are, any costs, any number of channels, any memory and tables, any width of
bytes. A module of proofs covers a part of the console: it EXTENDS the components of
that part, whose state is apart.

* **FrameLoopProofs**: *TypeOK*, *EventsMatchPosition*, *NmiFlagInVBlank*,
  *NmiHandlerAtVBlank*, *InStep*. The inductive invariant adds that a handler just
  entered is one of an interrupt that ended the PPU's turn (`HandlerFresh`) and that the
  debts are bounded (`DebtsBounded`): the PPU's is never a whole dot negative, the APU's
  never lower than the last instruction of its turn took it (`ApuAhead`), and where the
  CPU's turn begins the APU owes at most a cycle, and the PPU nothing unless it is on the
  dot of an interrupt (`CutShort`). The core is one lemma on a dot: what `Count`
  adds is what the new position calls for.
* **InputProofs**: *TypeOK*, *ReadsAreRecorded*, *RecordedUnlessHeld*,
  *ReplayIgnoresUser*. To be inductive they need that nothing is latched or recorded
  before main runs the emulator (`SetupInv`), and that in a recording
  `latched_this_frame` tells the truth: in a frame seen from its beginning it is set
  only if the recorder was called (`LatchedInv`). All accesses go through `Store`, so
  one lemma about `Store` and its corollaries for `Pulse` and `LatchIfNeeded` carry
  every action. *AutoReadIsFresh*, a property of a step, follows from the same lemma:
  the pulse latches the buttons of the moment, and the register read after it has all
  its bits.
* **HdmaProofs**: *TypeOK*, *RegistersInTable*, and the refinement *FollowsTable*.
  `RegistersInTable` is inductive as it stands, because a line counter `Counter(e) -
  lines` determines both how many lines are left and whether the next one sends; the
  arithmetic of the borrow from the repeat bit (128 lines without repeat) is in lemmas
  of its own. The step proof has three cases per line: table ended, entry goes on, next
  entry read.
* **DmaProofs**: *TypeOK*, *BytesInPlace*, *ChannelsInTurn*, *Complete*. The inductive
  invariant `InOrder` says that the channels below the current one are done, those above
  untouched, and that the job's address, step and count are those after `moved` bytes.
  *Complete* needs the sum of the channels' costs, a fold of the community modules: that
  it does not depend on the order the fold takes is proved from a least counterexample
  (by well-foundedness; the induction theorems cannot be used), and `Charged` says that
  the cycles so far are those of the channels that are done and of the bytes the current
  one has moved.
* **CpuProofs**: *TypeOK*, *StackInPage*, *NarrowIndexKept* and *ReturnsRestore*. For
  the last one, `StackInv` says that every frame in `frames` lies in memory byte by byte
  where it was pushed, each below the one before it, from a base the program has chosen:
  a push writes below all of them, so none is disturbed, although addresses wrap at the
  end of the page (emulation mode) or of the bank. A return then pops what was pushed,
  which the property compares with the state of then.

  Of **Bus** all four properties: *RightHeader*, *MirrorsAgree*, *StoresAreFound*,
  *OperandsInPlace*. The invariant (`BusInv`) only says that a record stands with the
  cartridge, the speed and the registers it was made with. The rest is about the tables:
  every mode of `Effective`, every branch of `load`, `store`, `ResolveLoRom` and
  `ResolveHiRom`, for all 24 bits of an address, which TLC evaluates only on both sides
  of each boundary.
* **EmulatorProofs**: *TypeOK*, *NeverTorn*, *FileOfOneState*, for any number of fields
  and any size of the buffer. The inductive invariant follows a state through the file:
  while saving, the console is whole, what was saved so far is in the file and behind
  that in the buffer (`SavingInv`); while restoring, the fields so far are those of the
  file (`LoadingInv`); else the console is whole (`RunningInv`). That a file cut short
  cannot be restored is the step `LoadFails`: the process ends before the mixture is
  used. *ActionsInOrder*, for any queue: `QueueInv` says that the actions at hand and
  those the queue asks for are `asked`, place by place.
* **PpuProofs**, of the ports: *TypeOK* (no access leaves a memory),
  *WrittenTwiceWhole*, *CountersReadWhole*, for any base and any sizes, assuming that a
  position fits in two digits (`Dots`, `Lines`) and that the bits a scroll register
  keeps divide the base (`Radix % Fine = 0`), as 8 divides 256. `HalfInv` says what a
  register holds between its two stores, `SeenInv` how the flip-flop, the latch and what
  has been read belong together. *StreamsLand* and *LoadsInOrder* have an invariant per
  memory (`StreamsInv`) that gives the address after n bytes as a number: the start plus
  n increments modulo the size, with the half of a word that waits; and that each
  of the n cells holds its byte unless a later one of the stream, which may be longer
  than the memory, was put there.

  Of the rendering: *BackgroundOfThisLine*, *LineIsRenderedOnce*, for any screen,
  sprites and settings. Inductive with `FreshInv`: from the first lookup at x = 0 on,
  everything valid is of this line from x to its end. The lemmas on `ValidAfter` and
  `CacheAfter` carry it over a dot with any set of lookups.

  *SpritesInPriority*: once collected, `spriteLine` is `SpriteLine` of what OAM held at
  the first dot (`CollectedInv`); the work is to show that what the loops compute is
  what the definition by places says, for any number of sprites and tiles
  (`SpriteLineIs`, `OverflowIs`). It is done by counting: a sprite is at the position in
  the list that is the number of sprites on the line in front of it (`OnLineLists`), a
  tile at that of the tiles loaded before it (`TilesStacked`), flips keep the columns of
  a sprite one to one with its tiles and their dots (`ColumnFlipped`, `RowFlipped`), so
  that of the tiles covering a dot the last one drawn is of the sprite first in priority
  (`PlacesApart`).

  *FrontmostShown*: `FrontToBack`, proved mode by mode, says that the list of a mode has
  all its layers and priorities, ordered by `Depth`; the first place hit is then in
  front of the others.
* **SpcProofs**: the refinement *UploadArrives* and *DataHeld*, for bytes of any even
  size from 4 and any blocks. The two programs are joined by an invariant that says what
  each port holds at each label: the ports of the CPU tell how far the uploader is
  (`SenderInv`), those of the SPC700 how far the boot ROM has come (`ReceiverInv`), and
  the pairs of labels that occur follow. The index in port 0 has one byte, so that it
  tells apart only neighbouring places: the invariant keeps the two within one step of
  each other. *CountsTime*: a timer is a number of three digits (first stage, second
  stage, counter) whose bases are its dividers, and an instruction adds its cycles to it
  (`TimersInv`); read and lost periods are what the number lacks.

Model-checked only:

* liveness: *FrameCompletes*, *NmiEndsWait*, *RecordingGoesOn*, *TransferEnds*,
  *UploadEnds*, *ExitEnds* (temporal reasoning with ENABLED is out of the prover's
  reach).

All other properties of the passing runs, the two refinements included, are theorems;
the list with the names is in `PROJECT.json`. Where a definition recurs over numbers or
a sequence (the sum of the costs of DMA, the sprites of a line, the tiles put one after
the other), the proof is not by the induction theorems of the library, which the provers
cannot instantiate, but by a least counterexample in a well-founded set of numbers
(`UpTo` in PpuProofs, and its like in DmaProofs).

## 5. Where the code and its comments disagree

* `trigger_irq` enters the handler when IRQs are *disabled*
  (`wdc65816/lib.rs:532`, comment at 529; run frame_loop_irq).

The following were met while modelling; the models do what the code does.

* A frame that begins and ends with the latch held is not recorded, though
  the trait promises a call per frame (`record/mod.rs:49`, `input/mod.rs:128`).
* A DMA size of 0 moves nothing and 0xffff moves 65536 bytes, the comment says a
  size of 0 moves 65536 (`dma.rs:154`, comment at 40).
* RTI assigns P without `set_p`, and MVN and MVP step X and Y as words whatever
  their width: a narrow index register gets a high byte, on whose absence `txs`
  relies (`wdc65816/lib.rs:573`, comment at 1090).
* Three comments of the boot ROM's listing mix up the bytes of a word or the
  condition of a branch (`spc700/ipl.rs:29`, 49, 51); the mutant `EchoFlag` does
  what the last one says, and an upload does not end.
* In emulation mode an interrupt leaves PBR as
  it is (`wdc65816/lib.rs:550`); MVN and MVP with A = 0xffff copy nothing (628);
  nobody calls `replay_frame` (`input/mod.rs:202`); with `--oneframe`, the
  `break` on an exit action leaves the loop over the actions only
  (`breeze/main.rs:146`): *ExitEnds* is about the other loop.
* Bus: RAM of a HiROM cartridge at `$6000`-`$7fff` can be loaded, but a store
  to it panics (`snes.rs:316`). A store to ROM is warned of and done (`rom.rs:330`),
  and ROM is not in a save state.
* Ports: no prefetch on a store to `$2116`/`$2117` (`ppu/mod.rs:509`, comment at 718);
  loads of both halves count if and only if bit 7 of VMAIN is set (769, comment at
  221); an increment of 64 where the comment says 128 (732, comment at 228); the flag of the
  external latch is never reset (469, comment at 415).
* Sprites: the tiles of a flipped sprite are loaded from the right: they are taken in
  the order they are stored, the comments say from left to right after flipping, with a
  FIXME that suspects it (`ppu/sprites.rs:143`, comments at 83 and 100); if the tiles run
  out, it loses the left ones. Tiles off the screen count too, which the comments at 85
  and 141 deny (152). *SpritesInPriority* counts as the code does in both.
* Render: the overflow flags would be reset on a line that is never rendered
  (`rendering.rs:305`, `ppu/mod.rs:621`). The cache of backgrounds is only invalidated by a
  lookup at x = 0 (`bg.rs:411`): if all backgrounds are off, behind a sprite or
  blanked at that dot, the line shows cached dots of an earlier one. This is why
  *BackgroundOfThisLine* has a condition.
* Emulator: an error in writing the last part of a save state is swallowed with
  the `BufWriter` (`save.rs:28`), and the success is logged; the next attempt to
  restore panics, which *NeverTorn* relies on.

Not contradicted by any comment, but worth knowing: a save state does not say which ROM it
is of, and the restored RAM has the length the file gives. A LoROM cartridge with less than 64 KB of RAM
has it at the end of banks `$fe`-`$ff` only if the build does not check the
subtraction (`ResolveLoRom`); DMA registers of the channels 8 to 15 exist as addresses
and panic (`DmaReg`).

## 6. What is not modelled

* The values of pixels, samples and of the CPU's data: no property is about
  them. That includes the tile and palette arithmetic of backgrounds and sprites, the
  Mode 7 matrix, and colour math itself. The extension of mode 7 (EXTBG) is asserted to be off
  in the code.
* The multiplication and division registers: an expression each, that a test reaches.
* The instructions of the SPC700 but those of its boot ROM, and the DSP, which
  stores registers and makes no sound.
* General purpose DMA whose A-bus side is the DMA registers themselves: a transfer
  nested in a transfer. The registers are copied when a channel starts.
* Of the CPU: Y, which is handled like X but is never copied to S; the
  accumulator and its width; arithmetic and its flags; the cycle table.
* Panics of debug builds on overflow, but for Bus and Addressing, which have both
  kinds of build: all other arithmetic wraps, as in the release build.
* Backends, logging, benches, the render test: calls of external libraries, or no
  state of the emulated machine. The recording formats: `unimplemented!()`.

## 7. What could come next

1. **Spc**: the SPC700's stack and addressing modes, with the control register's
   clearing of the ports.
2. A composition of Dma and Ports: general purpose DMA into VRAM, CGRAM and OAM, where
   the modes' order of B-bus addresses meets the increment of the port.
3. Proofs: that the lines of the backgrounds are those of the setting they were
   rendered from (`gen`), as the lines of sprites are; and the type invariants of Render
   and Bus, of which only the parts the other proofs need are proved.
