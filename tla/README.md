# LainSoC: a TLA+ verification project

LainSoC is a system on chip in SystemVerilog: a CPU, peripherals on an AXI
interconnect, and memory. With its SD card controller come the C driver that
runs on the CPU, and with its JPEG decoder a C program that is the core's
reference model. This directory holds TLA+ modules for the parts of it
that have behaviour of their own, TLC configurations that check them on small
instances, and TLAPS proofs. `PROJECT.json` lists components, runs, hazards and
theorems, and maps every definition to the lines it models.

All paths below are relative to `src/rtl/SoC/` unless they say otherwise.

## 1. Inventory

### The live hierarchy

`top.sv` instantiates pads, clock generators, the DDR3 interface generator
(vendor IP) and `soc_top.sv`. Inside `soc_top`:

    cpu_wrapper (CPU, axi_cdc)  -->  cpu_demux (axi_demux, 11 ports, steered by
        periph_addr_sel)  -->  memory | SPI | APB | confreg | SD card | VGA |
        USB | JPEG | I2S | interrupt | error slave
    memory masters: CPU port, SD card DMA, VGA, JPEG, I2S
        -->  mem_mux (axi_mux, 5 ports)  -->  axi_cdc  -->  DDR3

### `AxiSdramCtrl.sv`: an SDRAM controller with an AXI port

The largest circuit with control of its own. It is part of the Vivado project
but `top.sv` of this commit uses the DDR3 generator in its place. Four modules:

| part | state | operations | correct when |
|---|---|---|---|
| `SdramCtrl` (638-1693) | refresh timer, power-up counter, boot state, open rows per bank, task register, per-bank timing counters, read history and context line, delayed CKE, pin registers | turn bus commands, refresh requests and the boot sequence into SDRAM tasks; hold a task back until it may be issued; stop the chip's clock while the reader is not ready | bank and row are right when the chip executes a task; commands keep their distance; reads come back once, in order, with their context and the latest data; nothing is lost or starves |
| `StreamFifoLowLatency` (1695-1862) | two entries, two pointers, occupancy flag | push, pop, bypass when empty | data in order; never pushed when full |
| `Axi4SharedSdramCtrl` (281-636) | the burst under way, a write response register | cut bursts into beats, join write beats with W data, answer writes | beats go where the AXI rules say, each once; data, ids and last flags stay together |
| `StreamArbiter` (190-279) | locked choice, last choice | round robin between AR and AW | a choice is kept until it is accepted; nobody starves |

They interact by valid/ready handshakes. The hard parts: CKE acts two cycles
late while data must not be lost; the frontend decides on rows the chip does not
have yet; timing counters must stop whenever the chip's clock stops; the write
response register can refuse a beat the controller has already stored; the reset
does not reach the pins or the chip.

### `soc_top.sv`: interconnect

* `periph_addr_sel` (256-285): a pure decoder from address to demux port.
* `cpu_demux` (287-313): the `axi_demux` of `rtl/modules/pulp-axi/src`. State: spill
  registers on AW and AR, a lock per request channel for a valid that waits, a
  FIFO that remembers where W beats go, per-id counters of transactions in flight
  with the port they went to, round-robin arbiters for B and R. It is correct when
  responses to one id come in request order although the slaves answer in any
  order, W beats go where their request goes although they may overtake it, and
  the counters neither lose nor invent a transaction (a wrong counter blocks the
  CPU for ever). Hard: a write counts from its first valid, a read from its
  handshake; one full counter stops all ids and, if it counts reads, writes too.
* `mem_mux` (315-): `axi_mux`, five masters, write grants remembered in a FIFO.
  Hard: write data of one master must not wait for another's.
* clock crossings (`axi_cdc_intf`, gray-coded FIFOs) of SD card, I2S and memory;
  reset synchronisers. Hard: pointers read while they change, resets that do
  not come together.

### The SD card: `rtl/modules/mczerski-SD-card-controller`

The program on the CPU calls `mmc_init` and `mmc_bread` of `sw/example/src/mmc.c`;
each command goes through `ocsdc_send_cmd` (`ocsdc.c`), which sets up the data
transfer, starts the command, polls the command status for the response and, for
a command with data, the data status for the end of the transfer. The controller
(`rtl/verilog`) has a command engine and beside it a data engine that a command
arms and that then runs on its own until its blocks have come; it writes them to
memory by DMA.

| part | state | operations | correct when |
|---|---|---|---|
| `mmc.c` | `struct mmc`: version, capacity, address, width, `has_init`; loop counters | identify the card, negotiate voltage, read its registers, widen the bus, raise the clock; read blocks in chunks | a card it calls initialised is the one it talks to; the buffer holds the blocks asked for; each call returns |
| `ocsdc.c` and controller | command and data status, data engine, width, clock, software reset | one command at a time; a transfer | a status is taken for the command that caused it |
| the card (external) | its own state machine | | |

Hard: a command or its response is lost and the two ends differ on what has
happened; the data engine is armed although its command failed, and its status
meets the next command; there is no timeout on data; a card that still sends is
given the next command; sizes are 32-bit.

### The C model of the JPEG decoder: `rtl/modules/ultraembedded-jpeg_decoder/jpeg_core/c_model`

`main.cpp` reads a file segment by segment, keeps its tables, copies the coded data
of the scan into a bit buffer (`jpeg_bit_buffer.h`), and `DecodeImage` decodes them
block by block: Huffman lookup (`jpeg_dht.h`), runs and numbers
(`jpeg_mcu_block.h`), dequantisation and zigzag order (`jpeg_dqt.h`), inverse
transform (`jpeg_idct.h`), and the place of the pixels in the picture
(`ConvertYUV2RGB`). It is sequential; what is hard is at the edges: the last bits of
the data, the marker after them, codes of 16 bits and codes that are not in the
table, runs that leave the block, pictures whose size is no multiple of a
block, and integer arithmetic that has to be within one of the true transform.
It is the model the core in `src_v` is tested against, so its mistakes are
taken for the truth.

### Wrappers

* `cpu_wrapper.sv`: CPU (a submodule that is not in the sources), its clock
  crossing, interrupt and reset synchronisers.
* `vga_wrapper.sv`, `usb_wrapper.sv`: AXI-Lite peripherals made to look like AXI
  slaves; they answer with the id the address channel shows at that time.
* `sdc_wrapper.sv`: an AXI-Lite to Wishbone chain around an SD card controller.
* `error_slave_wrapper.sv`: wires around `axi_err_slv`.
* `debug_output.sv`: serialises the retired PC; its instance in `cpu_wrapper.sv`
  (301-311) is commented out.
* `i2s_wrapper.sv`, `jpeg_decoder_wrapper.sv`: ports of IP cores.
* `ethernet_wrapper.sv`, `axi_intc_wrapper.sv`, `axi_cdc_wrapper.sv`,
  `framebuffer_wrapper.sv`, `video_stream_modifier.sv`, `axi2hpi.sv` (empty) and
  `xil_axi_to_axi_lite_wrapper.sv` are not used by `soc_top`.

## 2. Plan

Done: items 1 to 8.

1. `SdramCtrl` with `StreamFifoLowLatency`, the chip (`SdramDevice`), their
   composition (`SdramSystem`), liveness (`SdramLive`), and the abstract
   specification `MemoryPort` it refines.
2. `Axi4Incr` (address arithmetic), `StreamArbiter`, `AxiSdramBridge` over
   `MemoryPort`, refining the abstract `AxiMemory`.
3. Proofs: types, backup FIFO, bank legality.
4. `AxiDemux` with its id counters, spill registers, W FIFO and arbiters, between
   a CPU and slaves that answer as the wrappers do.
5. `SdCard`, `SdController`, `MmcDriver`: driver, controller and card under faults;
   proofs of the types and of what an initialised driver may rely on.
6. `JpegIdct`, `JpegCode`, `JpegDecoder` against `JpegEncoder`.

7. Proofs about the interconnect: routing of write data, stability of requests
   and responses, counters and order in the demultiplexer; beats, data and responses of the bridge. Proofs
   about controller and chip: legality, spacing and boot order under resets, the
   refinement of `MemoryPort`. Proofs about what the SD driver reads.
8. The refinement of `AxiMemory`; refreshes in time; the addresses of a burst;
   types of the JPEG decoder and the places of its pixels.

Open, in this order:

9. `axi_mux` (grant FIFO, id prefix), then demultiplexer and multiplexer
   composed: no deadlock between the two write paths.
10. The gray-coded clock-crossing FIFO with two independent clocks and pointers
   that are sampled while they change; resets of the two sides apart in time.
11. `periph_addr_sel`, `axi_err_slv`, `axi_to_axi_lite`, `debug_output`.

## 3. Modules and how they correspond to the code

A step of every clocked module is one rising edge of `clk`; a register is a
variable with the register's name (prefixes `frontend_`, `chip_` and suffixes such
as `_m2sPipe` are dropped where nothing is lost), wires are operators.

| module | code | role |
|---|---|---|
| `SdramCtrl` | 638-1693 | the registers in four groups, one action each: `Frontend` (a disjunct per task it can emit), `BubbleInserter`, `Chip`, `Timers`; `Clock` is their conjunction, `CtrlReset` the asynchronous reset |
| `StreamFifoLowLatency` | 1695-1862 | the backup FIFO as a component instance |
| `SdramDevice` | external | the SDRAM chip, as the pins, mode word and timing counters presuppose it: what it does at an edge and what it demands of a command |
| `SdramSystem` | | both clocked together; properties; the refinement mapping to `MemoryPort` |
| `SdramLive` | | the same with a bus that keeps a command until it is taken |
| `MemoryPort` | | abstract: a memory with one port, reads answered in order |
| `Axi4Incr` | 426-481, 612-615 | the address of the next beat, carry by carry, stepped through a burst, and the AXI definition of the address of beat n |
| `StreamArbiter` | 190-279 | arbiter as a component instance |
| `AxiSdramBridge` | 22-188, 281-636 | arbiter, unburstify stage, response register, a legal AXI master, over `MemoryPort` |
| `AxiMemory` | | abstract: a memory that serves AXI bursts one by one |
| `SpillRegister` | `spill_register.sv` | the two registers of a handshake cut, as a component instance |
| `IdCounters` | `axi_demux.sv` 536-655, `delta_counter.sv` | transactions in flight per id, with the width and wrap of the counter |
| `RrArbTree` | `rr_arb_tree.sv` | round-robin arbiter that keeps its choice, as a component instance |
| `AxiDemux` | `axi_demux.sv` 76-491, `fifo_v3.sv` | the demultiplexer: `DemuxClock` is one cycle, its arguments the wires of both sides |
| `DemuxSystem` | `soc_top.sv` 287-313, `vga_wrapper.sv` 49-51 | the demultiplexer between a CPU and slaves (both external); properties |
| `SdCard` | external | the SD card: its states, the commands each accepts, the answers, the blocks it sends |
| `SdController` | `ocsdc.c`, `rtl/verilog/*.v` of the controller | registers as the driver sees them: exchange of a command, data engine, status, software reset |
| `MmcDriver` | `mmc.c`, `ocsdc.c` | `mmc_init` and `mmc_bread`: an action per command or data phase that is awaited, and `CardSends`, a block on the data lines |
| `JpegEncoder` | external | what a baseline JPEG file is, written from the encoder's side, and what its picture is |
| `JpegIdct` | `jpeg_idct.h` | the inverse transform in the program's integer arithmetic, and its definition |
| `JpegCode` | `jpeg_dht.h`, `jpeg_dqt.h`, parts of `jpeg_mcu_block.h` and `main.cpp` | tables, lookup, numbers, zigzag order, places of pixels, as operators |
| `JpegDecoder` | `main.cpp`, `jpeg_bit_buffer.h`, `jpeg_mcu_block.h` | the program: an action per segment, per byte pushed, per coefficient, per block |
| `MCSdram`, `MCAxiSdramBridge`, `MCDemux`, `MCSd`, `MCJpeg` | | values for TLC, symmetry, the files to decode |
| `SdramRuleProofs`, `SdramPortProofs`, `BridgeProofs`, `BridgeMemoryProofs`, `DemuxProofs`, `SdProofs`, `JpegProofs` | | proofs |
| `SequenceFacts` | | lemmas on numbers and sequences that several proofs share |

Abstractions. Addresses are (bank, row, column); data are opaque values and a
byte mask either selects the word or nothing (`None`), because no circuit combines
bytes. A task carries only the fields it uses. The read history and the context
delay line, which shift under the same enable, are one shift register. Registers
without a reset value start with an arbitrary value where it can matter (the row
registers and the memory), and as a deselected command where the power-up wait
makes it unobservable. The chip is the one timing model that the reload values
satisfy at 50 MHz, the clock the refresh period of 390 cycles fits: row precharge
and row-to-column delay are one clock and cannot be violated; row active time
and row cycle are 3, refresh cycle 4, mode delay 2, write recovery 2.

In the bridge, W data carry the id and last flag of the burst the master sent
them for. The code looks at neither; they let the property say which data
belong to which beat.

Around the demultiplexer, a request carries its id, the port that the decoder
makes of its address, and its number of beats; responses carry the port they come
from, so that a property can tell which request they answer. The CPU and the
slaves are the most general ones AXI allows, up to the bounds `MaxReads`, `MaxWrites`
and `MaxUnderWay` on requests under way: ready may come or stay away in any cycle, a
slave answers each kind in order, and may take data before the request. Slaves in
`WireIdPorts` answer with the id on their address wires, as VGA and USB do.

In the SD driver one action goes from one wait to the next: the driver sends a
command, awaits what becomes of it, and runs the code up to the next command. The
response and the command itself may each be lost, or damaged so that the
controller reports an error, which is the same to the driver; a lost command
does not change the card, a lost response does. A data block may be damaged.
Each costs one of `MaxFaults`. `CardSends` happens at any time, also between the
commands of somebody who does not wait for it. Two assumptions stand in
for the clock crossings: a status the driver clears is clear before the next
one is set, and DMA has drained when the end of a transfer is reported. The
capacity a driver reads with the wrong idea of the card's class is any number.
Delays (`udelay`) have no meaning in the model; the card may be busy as often as
it is asked. `negotiated` and `suspect` are history: the operating conditions were
agreed on; a data command has failed since the last software reset.

A JPEG file is a sequence of segments, each a record of what its header says;
the coded data are bytes, and bits and codes are those of the file. The encoder
is independent of the decoder: codes from shares of the code space, zigzag
order from diagonals, pixels from rows and columns. `IsFile` and `IsPicture` say what the
decoder may meet (`FilesAssumption`).

## 4. Runs

Constants: see the `.cfg` files. Timer periods are the bounds that matter: they
are shortened from 390 and 8192 cycles to a few, which makes refreshes hit every
phase of every access. `RefreshMax` is never so small that the controller is only
refreshing (7 is the least at which a prompt reader loses no tick with one bank; with
8 there is room for a command between refreshes also after a row conflict, and
`sdram_live` has 9).

| run | asks | instance |
|---|---|---|
| `sdram_order` | Is controller plus chip a `MemoryPort`? Are responses stable, tasks on their way legal? | 1 row, 2 contexts, 2 values; any commands, any reader |
| `sdram_protocol` | Spacing and boot order across banks; are refreshes kept? | 2 banks, 2 rows, a reader that always takes its data |
| `sdram_reset` | Does each accepted command reach its own cell, legally and at the right distance, without losing read data, and what does an asynchronous reset in any cycle leave behind? | 1 bank, 2 rows, 2 values; any commands, any reader, reset at any time |
| `sdram_live` | Is each command taken, also one that meets the open row of others, each read answered, each refresh issued? | 1 bank, 2 rows, so that rows conflict and are closed alone; commands in any order |
| `axi_bridge` | Is the bridge an AXI memory? Are beats, data and responses accounted for? Do bursts visit the addresses AXI demands? | 2 words, 2 values, 2 ids, bursts of 1 and 2 beats, 2 reads in flight; for the addresses every size and kind of burst over a page of 128 bytes |
| `axi_bridge_live` | Does the arbiter starve a direction? | as above, 1 value |
| `demux` | Do the counters of the demultiplexer agree with the slaves? Does a request shown stay? Is each answered? | 2 ports, 2 ids, `MaxTrans` 2 as in `soc_top`, 2 reads and 1 write under way |
| `demux_order` | Do responses of one id keep the order of requests, do W beats find their slave, do shown responses stay? | `MaxTrans` 4, so that several transactions are admitted; one id to both ports, another id between |
| `demux_wire_id` | Is a slave that answers with the id on its wires safe behind the counters? (no) | port 1 answers that way |
| `sd_driver` | Does an initialised driver agree with its card? Do reads return what was asked for? Does each call return? | 6 kinds of card, 7 requests, 2 inits, 2 reads, 2 faults, chunks of 2 blocks, a `size_t` of 16 values |
| `jpeg` | Do bytes, blocks and pixels come out as they were coded? Does decoding end? | 388 files: monochrome, 4:4:4, 4:2:0; two sets of tables, five orders of segments; 90 of them with damaged data or without tables |
| `jpeg_exact` | Is every block of a file that the decoder takes decoded? (no) | the same files |

Why the bounds are enough. Bank state, row registers and counters of different
banks never meet except in the all-bank commands and the shared write counter, so
two banks show every interaction (`sdram_protocol`) and one bank suffices where the
question is about one access. Two rows distinguish hit from conflict; two values
and two contexts distinguish right from wrong data; the FIFO has its real depth and
the pipelines their real lengths. Rows, values and contexts are only moved and
compared, which makes the symmetry sets sound; they are not used with liveness.
The addresses of bursts are asked about with a page of 128 bytes in place of 4096:
the carry chain of the code has 12 bits, of which the bursts tried use those a wrap
or an increment can reach (`BeatWhereAxiSays` is about operators only and is
evaluated in the initial state, for the bursts with a start in `Starts` and a
length in `Lens`; section 6 has it for all of them).
The demultiplexer compares ports and ids for equality only; two ports and two ids
(one counter each, `LookIds` 2) give every case of same and different. With
`MaxTrans` 2 the code admits one transaction per direction, so the ordering
questions are asked with 4, whose counters are full at 3, and two requests under
way, of the same or of different ids and ports, enough to be confused; `demux`
has three, so that reads and a write wait for each other's counters.
Of the SD cards tried, one has more bytes than `size_t` holds and each class,
version and bus width occurs; requests are empty, of one block, of several
chunks, past the end, and with a sum that wraps. Two faults are enough for a
command to fail and its retry to fail, and for a failed read to meet another one
afterwards. Each retry counter is 1 or 2 in place of 3, 5 and 1000: the code
compares them with zero only. The files to decode have up to four MCUs, with
blocks that need no coefficient, runs over sixteen, a last coefficient, negative
and 8-bit numbers and codes of 1 to 16 bits. Files are damaged in five ways: bits
stuck at one from the start or from the middle, inverted, the last byte lost, and
Huffman tables left out. They include files that come at once to bits no code begins
with, files that do so after some blocks, and files that end all the same, with more
blocks than the picture has (`MaxBlocks`); they are colour pictures, as the excess
blocks of a monochrome one would not be clipped. Both runs stop: nobody makes a
program call the driver more than the bounds allow, and the decoder ends; hence
`CHECK_DEADLOCK FALSE`.

What the runs show about the code, beyond "no error":

* The two entries of the backup FIFO suffice although its ready is not looked
  at (line 1241): `BackupRoom` accounts for what CKE can no longer hold back.
* A write beat refused because the response register is full (577) has been
  stored by the controller all the same, and is stored again each cycle until
  there is room. `ImplementsAxiMemory` holds: the repetition stores the same word
  at the same address and no read can come in between.
* A refresh tick that falls into the cycle in which a refresh is accepted is
  lost (1279, then 1319), and ticks merge while one is pending. A reader that
  takes its data at once never causes that (`NoRefreshLost`); one that stalls the
  R channel without limit stops the chip's clock and with it the refreshes.
  `RefreshesIssued` says what remains true.
* The reset leaves CKE, pins and data registers alone. The two clocks can be out
  of step afterwards, so `BankInv` does not hold across a reset; the power-up
  wait and the PRECHARGE of the boot sequence restore it before a command
  matters (`RowsAgree`, `BanksLegal` in `sdram_reset`).
* A write request that wins the arbiter before its data blocks reads behind it.
  AXI permits that; the liveness run assumes a master that sends its data.
* A slave that answers with the id on its wires makes the demultiplexer's
  counters wrong (`demux_wire_id`, five steps): the CPU's next request already
  stands on the address wires of every port (`axi_demux.sv` 456 and 475) while an
  earlier one is answered (`vga_wrapper.sv` 49-51, `usb_wrapper.sv` 63-64). The wrong
  counter goes below zero, which the assertion `cnt_underflow` (647-650) excludes,
  and stays full. It takes a CPU with two ids under way; the core is not in the
  sources, its port has four id bits. With `WireIdPorts = {}` `CountersExact` holds, and
  `NoUnderflow` too (section 6).
* `MAX_TRANS(2)` means one read and one write at a time, whatever their ids:
  `$clog2(2)` is one bit and a counter is full when all its bits are set
  (`axi_demux.sv` 54 and 638), where `doc/axi_demux.md:61` promises a count up to
  `MaxTrans`. While that one read is under way no write starts (195), a leftover of
  atomic operations.
* The data engine of the SD controller outlives its command. After a data command
  whose response was lost, the status of its transfer completes the wait of the
  next one: `mmc_bread` then returns success with a buffer nobody has filled, or
  waits for ever for blocks that an engine armed earlier has taken. `ReadsExact` and
  `ReadReturns` hold up to that point and say so (`suspect`); a software reset,
  which only `mmc_init` makes, ends it. `has_init` stays set after a failed read.
* `sd_send_op_cond` never reports what `mmc_init` waits for (`mmc.c` 834-836 looks for
  `TIMEOUT`, `ocsdc_send_cmd` returns -1, the loop `UNUSABLE_ERR`), so `mmc_startup` runs
  after a failed negotiation. A card that is not ready rejects its commands and the
  call fails (`CommandsLegal`). A card that became ready at the last poll counts as
  unusable (187), but `mmc_startup` succeeds with it, and so it does if the answer to
  that poll was lost; the capacity class stays as it was and may be the wrong one.
  For the same reason the code for MMC cards is never reached.
* `AppSendScr` is repeated without the `AppCmd` it must follow (`sd_change_freq`, label
  `retry_scr`): after a lost response the card answers only while its
  application flag is still set.
* `start + blkcnt` in `mmc_bread` (860) wraps: the largest `start` with one block passes
  the check and the card is asked for blocks it does not have. `ReadsInside` says that
  this is the only request that leaves the card; `ReadsExact` and `ReadReturns` exclude
  it (`Wrapped`). The capacity wraps too, which is safe, as it only gets smaller.
* `jpeg_bit_buffer::eof` rounds the read offset up (104): a code word that starts
  inside the last byte is read as zeros (`jpeg_exact`; `README.md:3` of the C model
  promises baseline images). `PrefixExact` holds for every other block.
* A word that no code matches has width 0 and counts as an end of block
  (`jpeg_dht.h` 123). An MCU that begins with such bits takes none, the end of the
  buffer does not come nearer, and `DecodeImage` does not end (`main.cpp` 126).
  `Terminates` says that this is the only way not to end (`Stuck`), and that it does
  not happen to a file as an encoder wrote it.
* `DecodeImage` places blocks rightly in 4:2:0 only if the picture is an even number
  of blocks wide, and writes monochrome pictures without clipping them
  (`PlaceableSize`). `jpeg_dqt::process` takes the first table of a segment only
  (`Supported`).

## 5. Fairness

* `SdramLive`: weak fairness of `LiveCycle(TRUE)`, a clock edge with the reader
  ready. The clock of a circuit never stops, and a reader that refuses for ever
  makes progress impossible by design (CKE). Nothing is assumed about what is
  offered, only that an offer is kept, as AXI demands.
* `AxiSdramBridge`: weak fairness of `FairCycle(TRUE)` and `FairCycle(FALSE)`. The
  first is a cycle in which the controller takes a command: `CommandsTaken` of
  `SdramLive` is its justification. The second lets reads return when as many are
  in flight as the model allows. In both the master takes a B response and shows
  the write data it owes: AXI forbids a master to withhold data it has announced.

* `DemuxSystem`: weak fairness of `Brisk`, a cycle in which every ready is given
  and whoever has a response or data to offer does: neither the CPU nor a slave
  refuses for ever, and `soc_clk` does not stop. In the other cycles they may do as
  they like, and whether the CPU issues more requests is left open in all of
  them, so that `AllAnswered` also says that reads do not starve a write.

* `MmcDriver`: weak fairness of `DriverStep` (a processor that runs and a command
  engine that reports each command, with its response or its timeout) and of
  `CardSends` (a card sends what it was asked for). Nobody is forced to call the
  driver. No fairness helps where the driver waits for a block nobody sends.
* `JpegDecoder`: weak fairness of `Next`, a sequential program that is run to its end.

## 6. Proofs

All for every value of the constants, from the assumptions `SizesAssumption`
(number of banks positive, periods natural), `NoneAssumption` (`None` is no value, row,
column, context, task or response) and `TimingAssumption` (the chip asks for no more
than the reload values of the counters were chosen for, and the power-up wait
lasts three cycles, of 8192); those about the SD driver from
`DriverAssumption`, `BlockLenAssumption` and `CardRcaAssumption`, about the bridge
from `BridgeAssumption`, `LegalRequests` and `PageAssumption`, about the demultiplexer from
`RequestsAssumption`, and its own `SizesAssumption`, `PowersAssumption` and
`NoneAssumption`: what the masters ask for are requests, ids are numbers, `None` is
none, the master's bursts are legal, a page is a number of 64-byte windows (the
longest wrapping burst; the page of AXI has 4096 bytes), there are ports, and the
arbiter tree is high enough for them. `PowersAssumption` states what powers of two are, since the provers do not know
exponentiation, and that a counter can hold one. Those about the JPEG decoder assume
`FilesAssumption`: a file is a sequence of well-formed segments with at most one frame and
one scan, and if the decoder supports its mode, the blocks of the picture are those of
its size, MCU by MCU. Nothing is assumed about the bytes of the scan, the code
tables or the sizes. TLC evaluates all assumptions.

The SDRAM controller (`SdramRuleProofs`: what the chip demands; `SdramPortProofs`:
what the bus is promised). All but `TasksAlwaysLegal`, `RefreshesAlwaysInTime`,
`SdramImplementsPort` and `ResponsesStay` are theorems of `ResetSpec`, with the asynchronous reset in any cycle.

* `TypesCorrect`: `TypeOK`, inductive, one lemma per group of registers.
* `BanksAlwaysLegal`, `RowsAlwaysAgree`: the chip's rules about open banks. They speak
  about the pins now; the decision was taken up to two registers earlier on the
  frontend's own copy of the rows. `BankInv` carries it along: the task on the pins is
  legal on the rows the chip has, the task in the register on the rows after that,
  and those after both are the ones the frontend believes in (`TasksAlwaysLegal`). A
  task is executed only if the chip is clocked exactly when the controller thinks
  so (`ClocksAgree`), and a reset breaks that. `ResetInv` (`ResetsForgiven`) is what is
  left: during the power-up wait nothing is issued, after one cycle of it the
  pins are empty, after two the clocks agree (`PowerupQuiet`), and until the first
  PRECHARGE nothing is claimed about the rows.
* `BootAlwaysLegal`: `BootInv` counts the refreshes the chip has seen together with
  those on their way, against the frontend's counter.
* `SpacingAlwaysLegal`: the age the chip gives to an event and the counter in the
  bubble inserter move at different times, the counter when the task is emitted to
  the pins, the age when it is executed. `SpacingInv` says that age, with the task on
  the pins already executed, plus counter reach the demanded distance; `Chip0!Age`
  saturates, so what each rule needs is proved of the sum and not of either. A
  reset clears the counters; then the power-up counter stands for them
  (`AgesAwaited`), which is why the wait must be at least three cycles.
* `RefreshesAlwaysInTime`: with a reader that takes its data (`PromptSpec`), a refresh that is due
  is emitted before the next tick. `RefreshInv` bounds what may still come before it: the task in
  the register is held back for n cycles at most (`HeldFor`), then, if a bank is
  open, PRECHARGE_ALL for three, and all that ends within the period (`InTime`). The
  bound is 7 cycles after the tick, hence `RefreshMax` >= 7. A tick in the boot
  sequence is served only after it, so the theorem also asks when it ends, which
  `BootedFor` counts: `PowerupMax + 4 * (BootRefreshMax + 1)` cycles after the reset. If
  that were one of the last four cycles of a period, the first tick in RUN would find the
  refresh due; with the values of the code it is the 13th of 391 (`PeriodsOfTheCode`).
* `BackupFifoSuffices`: under any traffic, read data find room. "There is room now"
  is not inductive: CKE stops the chip two cycles after the decision, so the
  invariant `BackupRoom` adds the word pushed now and the one that can still be pushed
  next to the occupancy, and claims a sum of at most 2 (`RoomInv`, with the types it
  needs). `FifoCounts` says what one FIFO clock does to the occupancy.
* `SdramImplementsPort`, `CommandsAlwaysPerformed`: the reads not yet answered form a
  chain through FIFO, DQ register, the chip's two read stages, pins and task
  register. `ChainStep`: in a cycle the chain loses its head exactly if a response is
  taken and gains the read that enters, while each other read moves one stage or,
  with the clock stopped, stays, with the data it had; the memory
  after the tasks on their way is the abstract memory. It needs `BankInv` (rows),
  `BootInv` (the chip knows its latency before a read) and `RoomInv` (the FIFO takes what
  arrives). `HistoryInv` ties the context line to the pins.
* `ResponsesStay`: the head of that chain is what the bus shows (`WaitingIsShown`), and
  it stays until it is taken.

The SD driver.

* `DriverTyped`, `InitialisedAgrees` (`SdProofs`): for any cards, requests, number of
  faults and loop bounds. Card, controller and driver change width, address and
  state in different actions, so "an initialised driver agrees with the card" is
  not inductive. `Agreed` says it for every place of the program: during
  `mmc_startup` from the selection on, the card is selected under the driver's
  address with a width of one line, and the controller too; between the width
  command and its response that is all that is known; afterwards both have
  changed. `Typed` adds to `TypeOK` what the arithmetic needs: the blocks left are
  never fewer than the chunk under way. `IInv` is both, with one lemma per group of
  commands for what an exchange may do to the card.
* `ReadsStayInside` (`SdProofs`): from `Inside`, a driver that has the class of the card
  right holds the card's capacity modulo the range of `size_t`, and a request under way
  has passed the check against it. That the wrapped capacity is safe is a fact about
  division (`a % m <= a`). What the check lets through beyond the card is the request
  whose sum wraps, and the theorem names it. A driver has the wrong class only
  if the operating conditions were not agreed on.
* `ReadsAreExact` (`SdProofs`): `Exact` relates the place in the buffer the engine
  writes next, the block the card sends next and what is left of the chunk, in
  every place of the program, together with `Engine`: as long as no data command has
  failed, the engine works exactly while the driver awaits data. Without `Engine` a
  status could belong to an earlier command, which is what happens once `suspect`
  is set.
* `CommandsAlwaysLegal` (`SdProofs`): `Legal` gives, for each place of the
  program, the state the card is in if nothing was lost (`Expected`). For a card that
  was not ready within the polls it gives less: a command that the card rejects has no
  answer (`Refused`), so the call fails, and the driver is not initialised when it
  returns (`Undisturbed`).

The bridge and the demultiplexer.

* `ReadsStayAccounted` (`BridgeProofs`): what the master waits for is the
  concatenation of the reads the controller holds, the rest of the burst under way
  (`Countdown`) and the request on offer. A cycle takes beats off the front, moves one
  across the first border (`BeatCut`: the beat on offer is the head of what is left)
  and adds a burst at the end; `Regroup` is the associativity that makes the
  three agree. `ReadsInv` says it with `Joined`, concatenation under a name that the
  provers do not expand, and with the types of the registers (`BridgeTypes`).
* `WritesStayAccounted` (`BridgeProofs`): the same for responses, which are counted:
  `DebtMoves` shows that a debt goes from the queue to the burst, from there to the
  response register and from there to the master, also when the register is full
  and the beat is refused. Counting the requests of one id in a queue takes a
  bijection between the queue and its tail (`WaitingLeaves`).
* `DataAlwaysBelong` (`BridgeProofs`): the queue of W beats is cut into the bursts
  that still need data, the one under way first (`Owes`: there are places at which
  the bursts begin). A beat sent settles or shortens the first debt (`OwesSettled`,
  `OwesLess`), a new request adds the last (`OwesIssued`), and the beat the bridge
  offers is the first of the first (`FirstDebt`). `DataBelongs` alone is not
  inductive: nothing in the state says which beats are whose.
* `BeatsAlwaysWhereAxiSays` (`BridgeMemoryProofs`): `NextAddr` of the address of beat n
  is the address of beat n + 1 (`NextBeat`). For incrementing bursts the carry chain
  is an addition within the page (`SamePage`); for wrapping bursts the address lies in
  a window that begins at a multiple of its size, and so does the page, so that
  keeping the upper bits keeps the window (`WrapNext`). A walk that differed
  from the rule would have a first beat at which it does (`WalkExact`), which takes
  the place of an induction.
* `BridgeIsMemory` (`BridgeMemoryProofs`): every cycle is a step of `AxiMemory` or a
  stutter. What is left of a burst is a closed form, the addresses of the
  beats from one number on (`BeatsOf`, `ProgressForm`), so a beat takes its head. The hard
  case is the beat that the controller has taken and the bridge still offers,
  because its response has no room: the abstract memory has served it already.
  `StoredInv` says that the word is in memory, with the value on offer, and
  writing it again changes nothing (`PutTwice`); that needs the offer to stay what it
  was (`OfferStays`: the arbiter's lock, the burst under way and the master's
  promise to keep its data), or the repetition would write something else.
* `DataAlwaysFollow` (`DemuxProofs`): a number is given to each W beat, that of its
  burst (`Numbering`), and the ports of the bursts are those in the W FIFO, in the
  spill register and on the wires, in this order (`Owed`). An AW whose valid is locked
  has been pushed into the FIFO although the spill register still holds it; it
  is counted once (`AwUndecided`).
* `RequestsStay` (`DemuxProofs`): from the types of the spill registers and the fact
  that a locked valid stands for a request that is still there.
* `CountersAlwaysExact`, `NeverUnderflows`, `ResponsesAlwaysInOrder`, `ShownResponsesStay`
  (`DemuxProofs`), for `WireIdPorts = {}`, slaves that keep the id; `demux_wire_id` shows
  that the counters need it. None of them is inductive, and they need each other:
  the order rests on the counters, which decide when a request may go to another
  slave, and the counters on each response having a request of its id. `DemuxInv` is
  a ledger per direction (`Ledger`): requests with the same id bits are all with the slave
  the select register names (`Together`), so what the master waits for with one id is
  that slave, as often as the id stands in its queue, and then the ports of the
  requests still in the spill register or on the wires (`Due`, `Line`). An answer takes
  the first (`AnswerMoves`), a handshake moves the border (`TakenMoves`), the register may
  name another slave only when the count is zero (`SelectMoves`), and the three may
  fall into one cycle (`BooksMove`). The counters are below half of their range, so they do
  not wrap (`CountsMove`); a write counts from its valid, before the slave has it, which
  is what `Pending` adds. That the arbiter's choice exists at all and is one of those that
  ask is a fact about the tree of bits (`OnePasses`: go down from the highest level and
  keep the side that goes with the priority), proved with the least level at which
  two ports still go the same way. A kept decision stands for slaves that still
  offer (`ResponseTypes`, `StillShown`).

The JPEG decoder (`JpegProofs`).

* `DecoderTypes`: whatever the bytes of the scan and the code tables are, positions stay inside a
  block, DC coefficients within 16 bits, table numbers within the tables. `TypeOK` is not
  inductive: the length of a code word and its symbol come from `dht`, which holds what
  `BuildTable` made of a segment, so `Typed` adds that every entry has a length of 1 to 16 and a
  byte as its symbol (`BuildTyped`; the concatenation in `BuildTable` is a fold, which
  `FlatTyped` takes step by step, with `UpTo` instead of an induction theorem), that a word
  read has so many bits (`InputTyped`), and that outside a block nothing of one is left.
* `PictureAlwaysExact`: in a picture decoded to its end each pixel is written with the luma and
  the chroma sample that belong to it, for every width, height and mode within
  `PlaceableSize`. `Laid` says which calls of `ConvertYUV2RGB` have been made after so
  many blocks: their numbers, and in 4:2:0 how `blockNum` and `loop` follow the MCU
  (`Site`; `NextInRow` is the end of a row of MCUs). It also keeps that
  the frame was read before the scan and that blocks come from one scan only
  (`Framed`, `Scanned`), without which the size could change under the picture. At the
  end the calls tile the picture (`Tiled`): `SiteFound` and `SiteOnce` make the blocks of the
  picture and the quarters of MCUs one to one, `StrokesInside` and `StrokesAll` do the same for the
  pixels of a block and the offsets it is written to, so that no offset is
  left out, written twice or outside (`Painting`). What remains is that the samples a call takes are
  those `Encoder!Pixel` names (`Chroma`, `Pixel420`).

Only model-checked: that blocks come out as they were coded (`PrefixExact`) and that the
inverse transform is close to its definition (`IdctClose`), both statements about what folds
over a file's data or 64 coefficients compute, for the files of the run; and all liveness (fairness
and ENABLED are beyond the prover).

## 7. Not modelled

The components with status `not_modelled` in `PROJECT.json`: those of the plan's
items 9 to 11, and vendor IP, pads and clock generators, which have no source here.
Test benches and vendored libraries that no design file uses are not components.
Within `AxiSdramCtrl.sv`, the debug strings (900-982) and the FIFO's `io_flush` and
`io_occupancy`, which nothing uses. Bytes within a word and the electrical timing
of the pins are abstracted as said above. Of `axi_demux`, the ports for atomic operations,
which the code ties off (231-232, 396-397), and parameters that `soc_top` does not
use are left out.
Of the SD driver, the code for MMC cards, which cannot be reached, and writing,
which it does not do; of the controller, everything below its registers: bit-serial
lines, CRC generators, FIFOs, clock crossings. Of the JPEG decoder, parsing of
segment headers, colour arithmetic and the bitmap file; files with restart
intervals, which its `README.md` excludes, and tables that a scan assigns otherwise
than the program presumes; the core in `src_v`. Of malformed files the model has those
with damaged data and without tables. It leaves out symbols above 15 in a DC table
(`jpeg_mcu_block.h:66` shifts by the symbol, not by its lower four bits), tables of more
than 255 codes (the arrays of `jpeg_dht.h:130-134` end there), and marker bytes that
damage puts into the data (`main.cpp` would take what follows for a segment; in the
model the bytes are damaged before they are stuffed).
