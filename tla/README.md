# A TLA+ model of ldqm_SoC

`src/mycpu` is a dual-issue MIPS32 processor in SystemVerilog with instruction
and data caches, a TLB and a multiply/divide unit; `src/MegaSoC_NSCSCC.srcs`
wires it to AXI peripherals and an SDRAM controller. This project models the
processor's own control logic and the software that comes with the SoC, module
by module. Four parts of it:

- the data cache with its replacement policy, its prefetcher and the bus behind it;
- the instruction cache with the CACHE operations that share its port;
- the in-order pipeline of the processor, from the issue queue to the register
  file, with its requests to the data cache;
- the SD card stack: the card driver, the driver of the SD controller, and the
  controller itself as its driver sees it.

## 1. Inventory

| Part | Source | State | Operations | What makes it correct |
|---|---|---|---|---|
| Data cache, request stage | `looogson_myCache/new_dcache.sv` | skid buffer, `main_state`, `rb_req` | accept, hold, hand to m1 | every accepted request enters m1 once, in order |
| Data cache, controller | `looogson_myCache/d_cache_axi.sv` | tag/valid/dirty/data RAMs and their read ports, `bus_state`, `bc_*`, `refill_*`, uncached write queue, `data_delay`, `d_*` | hit, forward, miss, refill, evict, write back, CACHE operation, uncached read and write, prefetch | behaves as one memory; device accesses once and in order; no line twice |
| Pseudo-LRU | `looogson_myCache/plru.sv` | `record` | access, choose | the way used last is not the victim |
| Prefetcher | `looogson_myCache/prefetcher.sv` | `pf_state`, `last_miss_addr`, `fetch_addr` | learn, offer, rest | runs ahead of the program, never disturbs it |
| RAM blocks, LFSR | `bram.sv`, `SimpleDualPortRam.sv`, `dirt_reg_file.sv`, `LFSR.sv` | arrays | read, write | a cell is never read while it is written |
| Instruction cache | `i_cache_axi.sv`, `new_icache.sv` | as the data cache, without dirty lines; a queue of refill ways | fetch of two words, refill, prefetch and its cancellation, CACHE operation | what is fetched is not older than the last invalidation of its line; no line twice; the way a refill takes does not matter |
| Instruction fetch | `InstrFetchUnit_5_2.sv` | fetches in flight, intercept counter, save buffer | fetch, redirect, drop, save | every instruction on the path once, in order, none off the path |
| Branch prediction | `Branch_Predict.sv`, `BTB.sv`, `PHT.sv`, `GlobalHistory.sv`, `two_bit.sv`, `RAS.sv`, `BVU.sv` | tables, history, return stack | predict, train, verify | a wrong prediction is always repaired |
| Decode | `Decoder.sv`, `DecodeUnit_3.sv`, `TnewDecoder.sv` | none | table | |
| Issue | `IssueUnit_2.sv`, `WakenUnit.sv`, `Forward_*.sv`, `LRF.sv` | ring of 8 instructions, save registers, register file | enqueue two, issue one or two, forward, flush | order, no loss, delay slot with its branch, every operand the latest value of its register |
| Execution units | `FU.sv`, `FU_delay.sv`, `AGU.sv`, `TrapUnit.sv`, `ALU.sv`, `BRU.sv` | none but the wait for the multiplier | compute, squash | an annulled or excepting instruction leaves no trace |
| Multiply/divide | `MDU_Controller.sv` | busy, pending result | start, receive, cancel | a result goes to the instruction that asked for it |
| Memory request | `MEM_REQ_MUX_2.sv`, `MEM_RECV_MUX.sv` | `req_completed`, `save_data_data_ok`, saved TLB answer, LL bit | send, hold, squash | each memory instruction sends one request; none that is squashed does |
| Pipeline control | `mycpu_core.sv`, `WriteBackUnit.sv` | stage registers | advance, stall, flush | stages agree on stalls and flushes |
| TLB | `TLB/tlb.sv` | entries | look up, write, probe | at most one entry matches |
| CP0 | `CP0.sv` | control registers | exception, return, write, timer | EXL/EPC/BD, Random >= Wired |
| CPU top, bus merge | `mycpu_top.sv`, `axi_mux.sv` (vendored) | queues | merge the two caches' AXI ports | |
| SD card driver | `mmc.c`, `mmc.h`, `sdc_example.c` of `mczerski-SD-card-controller/sw/example` | `struct mmc` (version, address, capacity, caps, bus width, `has_init`) | `mmc_init`, `mmc_bread` | driver and card agree on what was negotiated; the buffer holds what was asked for; every call ends |
| SD controller driver | `ocsdc.c` | none of its own: the registers | `send_cmd`, software reset | a call reports the command it sent, and only that |
| SD controller | `sd_cmd_master.v`, `sd_data_xfer_trig.v`, `sd_data_master.v` and the serial hosts | states, `int_status_reg`, watchdog | execute, time out, receive, transmit | no command lost, each ends with a status |
| SoC, devices, SDRAM | `modules/SoC/*.sv`, `new/AxiSdramCtrl.sv`, vendored IP | | wiring | |

How they interact: the memory request stage offers a request to the data cache
(`dbus.valid`, accepted when `dbus.addr_ok`, answered in order by
`dbus.data_ok`); the fetch unit does the same with the instruction cache, which
CACHE operations share with it; both caches are AXI masters merged by a
crossbar; exceptions and redirects flush the stages in front of the caches but
never a request a cache has accepted. All of it runs on one clock.
`mmc_init` and `mmc_bread` send their commands through `mmc->send_cmd`; `ocsdc.c`
implements it by writing the registers of the controller (writing `ARGUMENT`
starts the command) and polling its two status registers. Command and data run
on separate lines: the controller has one state machine for each, and each has
its own status.

The hard behaviour is what happens when these meet in one cycle: a store with
the beat of a refill, a CACHE operation with the refill of its line, a prefetch
with a write-back, an uncached read with queued writes, m0 and the bus
controller on one read port, a fetch with the prefetch of its line, a stall of
MEM with the exception of the pair behind it, an interrupt with an access. In the SD stack it is failure: a command or a
response that is lost, a transfer that ends half-way, a status or a receiver
left over from an earlier call, a retry. `PROJECT.json` lists those points with their lines
(`hazards`) and the properties that watch them.

## 2. Modules

| Module | Stands for |
|---|---|
| `DCache` | `new_dcache.sv` + `d_cache_axi.sv` + the AXI slave and memory behind them; victim and prefetched line are free choices |
| `DCacheProps` | the properties of `DCache`, the mapping to `ProgramMemory`, fairness |
| `ProgramMemory` | abstract: one memory, requests in order, posted uncached stores |
| `PLRU`, `Prefetcher` | `plru.sv`, `prefetcher.sv` |
| `DCacheSystem` | `DCache` composed with both, as `cpu_wrapper.sv:197-206` configures the CPU |
| `DCacheProofs`, `MemoryProofs`, `DCacheSystemProofs` | theorems; `MemoryProofs` extends `DCacheProofs` |
| `ICache` | `new_icache.sv` + `i_cache_axi.sv` + the port of `mycpu_core.sv` + the AXI slave and memory; refill way and prefetched line are free choices |
| `ICacheProofs` | theorems |
| `Pipeline` | `IssueUnit_2.sv` and the stages of `mycpu_core.sv` to the write-back, with `WakenUnit`, `TnewDecoder`, `Forward_*`, `FU`, `AGU`, `TrapUnit`, `MEM_REQ_MUX_2`, `FU_delay`; data cache, decode and events are free choices |
| `IssueOrder` | abstract: a queue of instructions that leave in order, one or two at a time |
| `PipelineProofs`, `OperandProofs` | theorems: the queue, the stages and their requests; operands and results |
| `SendCmd`, `DataPath` | abstract: a call of `mmc->send_cmd` as an atomic operation; what it may return, and what it leaves behind, by the state of the data path it finds |
| `Ocsdc` | `ocsdc.c` on the registers, with the controller, the lines and the card beside it; implements `SendCmd` |
| `OcsdcProofs` | theorems |
| `SDCard` | external: the card, as far as `mmc.c` can tell |
| `Mmc` | `mmc.c` over the outcomes of `DataPath`, with an `SDCard` behind them |
| `MmcProofs` | theorems |
| `MCDCache`, `MCDCacheSystem`, `MCICache`, `MCPipeline`, `MCOcsdc`, `MCMmc` | instances for TLC |

**A step of `DCache` is a clock cycle.** Registers are variables, wires are
operators, and the inputs of the cycle are chosen by `\E`: the request offered
(only when the skid buffer is empty, as `dbus.addr_ok` says), whether the slave
presents a beat, accepts an address, accepts data or responds. `Pipeline` is the
request stage and the registers of m1, `RamPorts` the RAMs, and `BusStep` the
bus state machine, one action for each branch of its `case`.

| Variable | Registers |
|---|---|
| `skid`, `m1` | `ff_req` with `fifo_full`; `rb_req` with `main_state` |
| `data_delay`, `d` | `data_delay`; `d_cache_hit`, `d_dirt`, and of `d_way_tagv`/`d_way_rdata` the way a CACHE operation names |
| `fwd` | `m1_forward`, `rdata_t` |
| `ram`, `out` | the tag, valid, dirty and data RAMs; their read ports `way_tagv`, `way_dirt`, `way_rdata` |
| `uw` | `uw_fifo_store` between its pointers |
| `bc`, `fill` | `bc_tag/index/offset/uncache/ret_off`; `refill_data/rdy/strobe/dirty` |
| `wt`, `wb_cnt` | the write on the bus, from `bc_addr/bc_data`, `bc_uw_data` or `bc_write_back_*`; `bc_wb_cnt` |
| `rd`, `wr`, `mem` | external: the bursts the slave is serving, and memory |

Abstractions of the cache modules, and why they lose nothing the properties
speak of:

- One byte lane stands for a word, with one bit of strobe: the code merges by
  `(new & strobe) | (old & ~strobe)`, lane by lane. Access size is left out.
- `refill_strobe`, `refill_data` and the other burst registers are cleared when
  the bus goes idle, `d` when its request leaves m1. Some of them keep old
  values in the code, but all are written before they are read.
- The request register is invalid with an empty content when `main_state` is
  idle. The code keeps stale content there; every use is gated by `m1_valid`,
  or by `!data_delay`, which is only false right after a request enters.
- The RAMs start empty and memory starts at zero. The `record` of `PLRU` has no
  reset and starts with any content.
- The slave takes no write data before the address. With a slave that does, a
  beat taken in `WTREQ` before `awready` would be sent again, because
  `bc_wb_cnt` is cleared as long as the next state is `WTREQ` (line 786); the
  crossbar is an IP core whose behaviour is not in the sources.
- A request that is a CACHE operation never has `op` set (`InputAssumption`).
- In `DCacheSystem`, a line is a number and the line after the last is line 0.

### The instruction cache

`ICache` is written the same way: a step is a clock cycle, `Pipeline` the request
register, `RamPorts` the RAMs, `BusStep` the bus state machine.

| Variable | Registers |
|---|---|
| `held` | `_icache_occupied`, `_icache_valid_req`, ... of `mycpu_core.sv` |
| `m1`, `rb_CACHE` | `rb_*` with `main_state`; `rb_CACHE`, also while `main_state` is idle |
| `data_delay`, `d_cache_hit` | the same |
| `ram`, `out` | the tag, valid and data RAMs; their read ports `way_tagv`, `way_rdata` |
| `bc`, `fill` | `bc_tag/index/offset/uncache/pf_valid/pf_data_delay`; `refill_data/rdy/offset` |
| `rd`, `mem` | external: the burst the slave is serving; the version of each line of memory, which another master raises |
| `floor` | history: the version of each line when a CACHE operation last invalidated it |

What the fetch unit promises is modelled by what it may offer. A fetch that is
not accepted may be withdrawn and another one offered (a redirect), unless it is
uncached and its bus read has begun; a CACHE operation is held until it is
accepted (`mycpu_core.sv:206-247`). Fetches are aligned to 8 bytes; only uncached
ones ask for an upper word.

Abstractions:

- A word is known by its address and the version of its line, so a stale word
  or a word of another address can be told. The memory is written at any time
  between two beats, a burst may see both versions.
- A refill may take any way. `refill_way_que` gets an entry for every request
  that does not hit in its first cycle, uncached fetches and CACHE operations
  included, but only refills take one out, so the ways and the refills drift
  apart; the properties show that this costs hits and nothing else.
- `rb_CACHE` is also the valid bit a refill writes (`way_wvalid`): a refill right
  after a CACHE operation is lost. It is modelled, and harmless.
- An entry that is not valid has no content; burst registers are cleared when
  the bus goes idle. `m1` is empty while `main_state` is idle.
- A RAM that is read while it is written shows the old content;
  `PortIsCurrent` says that no request ever sees it.
- CACHE operations have cached addresses. One with an uncached address would
  start a bus read, as in the data cache (remark 2).

### The pipeline

A step of `Pipeline` is a clock cycle. `Ring` is the issue queue, `Stages` the
registers of EX, AT, DR, MEM and WB, `Handshake` the memory request stage with
the data cache, `WriteBack` the register file and `Link` the LL bit; `Advance`,
`Mispredict` and `Redirect` are the three ways in which the stages and the
queue move together. A pair of a stage is two of the ten *places*, numbered so
that a greater place is older in program order.

| Variable | Registers |
|---|---|
| `issue_queue`, `head`, `tail`, `size` | the same |
| `wait` | `wait_delayslot`, `wait_likely` of `DecodeUnit_3` |
| `pipe` | `exec_instr`, `at_instr`, `dreq_instr`, `mem_instr` with `wd_0` to `wd_4`, the operands in the stage registers and those saved by `Forward_OUT` |
| `lrf` | `regs` |
| `req_completed`, `save_data_data_ok`, `exc_req_complete`, `LLbit` | the same |
| `bus` | external: how many requests the data cache has accepted and not answered |

An instruction is a record of its class and registers. The class decides what
the code looks at: the unit, `Tuse` and `Tnew`, what it may be paired with,
whether it may raise an exception. Values are abstracted to whether they are
*right*: `v[k]` says that operand `k` is the value the last older writer of the
register computed from right operands, `data` the same of a result, `lrf[r]` of
a register. This loses no forwarding error: an operand that is taken from an
older writer, from one that is not ready, or from a squashed one is wrong
whatever the numbers are. `dst` and `dead` are history: the register that the
program, rather than the code, has this instruction write, and that the
instruction must have no effect at all.

Abstractions:

- What the data decide is a free choice in the cycle in which the code decides
  it: an overflow, a move that does not move, a misaligned address, a trap
  condition, a translation error, an annulled slot, how long the multiplier
  takes. So is the verdict of `BVU` on the instructions in EX, of which there
  must be one.
- A result that an instruction reads from HI, LO or a CP0 register is right:
  these registers are not in the scoreboard.
- `jal` and `bgezal` are one class (`link`). `jalr` is left out; so are CACHE
  operations in DR, which flush as an exception does, and TLB instructions.
- `USE_SIMULATOR` and `COMMIT_QUEUE` are not defined (`cpu_macro.svh`).
- An interrupt or exception restarts decode with a handler.
- An instruction reads two registers at most and writes one, only if
  `TnewDecoder` has a time for its class (`RegisterAssumption`). An addition
  without a destination, a squashed one among them, uses no operand, as nothing
  sees its result.
- Decode hands the program over in order, and any instruction may follow any
  other. A branch in the slot of a branch is not legal code (`SlotsAssumption`).

Four combinations are kept out of the passing run, each because the code goes
wrong with it (remarks 4 to 7): a link branch whose slot reads the link
register, a delayed addition or a load in the slot of a likely branch
(`Slots`), an overflow paired with an access or an SC (`PairedOverflow`), and a
handler that begins with something else than `mfc0`.

### The SD stack

**`Ocsdc`** interleaves four actors. The driver is at `pc`: `SendCmd` is
`ocsdc_send_cmd` up to the `COMMAND` register, `WriteArgument` the write that
starts the command, `FinishError` and `FinishComplete` the loop of
`ocsdc_finish`, `DataFinish` that of `ocsdc_data_finish`, `SetClock` the software
reset. `CmdStart` is the start pulse arriving at `sd_cmd_master` and
`sd_data_xfer_trig`, `CmdResponse`, `CmdTimeout` and `BusyEnd` are the command
master, `DataIn` and `DataOut` the data master with its serial host,
`CardGetsCommand` and `CardIgnoresCommand` the card and the lines.

| Variable | Code |
|---|---|
| `cmd`, `start` | `cmd` and `data` of the call, which the registers `COMMAND`, `ARGUMENT`, `DST_SRC_ADDR`, `BLOCK_COUNT` repeat; `cmd_start` |
| `cm`, `dm` | state and `int_status_reg` of `sd_cmd_master`; state, `int_status_o`, destination and block count of `sd_data_master` |
| `card`, `dat`, `mem` | external: the answer to the command, the blocks on the data lines, the buffers |
| `entry`, `good` | history: the data path at the call; the result is true |

`DataPath` names what a call finds and leaves: *clean*; *armed*, the receiver
waits for the data of an earlier command; *dirty*, a status is pending, data of
an earlier command are on the lines, or a block has come in. Only on a clean
path, or on one armed for the very same transfer, does the result of a read mean
anything. `ImplementsSendCmd` maps a call of `Ocsdc` to one step of `SendCmd`,
and `Mmc` uses the same `Outcomes`, so the two halves meet in one definition.

**`Mmc`** has one action for each place `mmc.c` sends a command from: it sends
it, takes the outcome, and runs to the place the next one is sent from. `pc` is
that place, `mmc` the struct, `loc` and `req` the locals that live across a
command, `bus` the card, the data path and the faults that may still happen.
`mmc_send_cmd` gives every outcome: the command or its response may be lost or
damaged, at the cost of a fault. `cond` and `right` are history: whether the
operating condition of the card was ever established, and whether the blocks
read so far are those asked for. `PollForEver` is `ocsdc_data_finish` waiting for
data that do not come; the driver has no way out of it.

Abstractions:

- Register writes and reads are atomic. Signals between the two clocks arrive
  in the order they were sent, and before the driver looks again: a crossing
  takes a few clocks, the driver prints between writing and polling.
- The watchdog (`0x7FFF` clocks) is longer than any response takes.
- Blocks beyond those a command asked for find no receiver, and are dropped.
- A response without CRC (R3) that is damaged is not told from another one.
- What a card answers where `mmc.c` decides by it is a free choice: not ready
  yet, busy, can or cannot do high speed, the fields of `ext_csd`. Capacity and
  bus width are the card's own unless the read of them failed.
- The numbers of tries (`timeout = 1000`, `retries = 5`, ...) are constants.
- In `Mmc`, `Foreign` stands for a transfer armed by any earlier command.
- `mmc.c` looks at the error bits of R1 in `mmc_send_status` only; so does `Mmc`.
- Left out: clock rates, the fields that are printed or never used, and high
  capacity MMC cards whose size modulo 2^32 is not above 2 GB, for which
  `mmc_startup` keeps a capacity that means nothing.

## 3. Runs

| Run | Bounds | Checks |
|---|---|---|
| `DCache_cached` | 2 ways, 2 sets, 2 words, 3 tags; loads of every word of set 0, three stores, a load and a store in set 1; prefetch of one line of each set at any idle moment | `ImplementsProgramMemory`, `LoadReturnsLatest`, `NoDuplicateLine`, `BeatsAligned` |
| `DCache_ops` | 1 set; loads of three lines, stores to two of them, so that one dirty line waits while the other is written back, and CACHE operations (hit/index, with/without write-back) | `ImplementsProgramMemory`, `CleanMatchesMemory`, `HitInvalidateRemoves`, `RefillOwnsPorts` |
| `DCache_live` | 1 set, 2 tags, queue of 2; uncached loads and stores, a cached load and store, a CACHE write-back | `TypeOK`, `UncachedReadInOrder`, `ImplementsProgramMemory`, `StalledRequestCompletes`, `AcceptedRequestEnters` |
| `DCacheSystem_stream` | 2 ways, 4 one-word lines in 1 set; loads | `VictimIsNotNewest`, `ImplementsDCache`, `PrefetchRunsAhead` |
| `DCacheSystem_writeback` | 4 ways, 3 one-word lines | violates `ImplementsProgramMemory` |
| `ICache_fetch` | 2 ways, 2 sets, 4 words, 2 tags, 2 versions of one line; every fetch of two lines of set 0 and one of set 1, an uncached fetch, a hit and an index CACHE operation, prefetch of both lines of set 0 (46,317 states) | `TypeOK`, `FetchIsFresh`, `NoDuplicateLine`, `PortIsCurrent`, `StalledFetchAnswered`, `HeldRequestEnters` |
| `Pipeline_core` | ring of 3, 2 registers, 15 classes with the operands that can meet, 4 instructions in flight, at most one of them of the 12 rarer classes (735,528 states) | `TypeOK`, `OperandsAreLatest`, `RegisterFileIsCurrent`, `RequestsMatchAccesses`, `RequestsAreCommitted`, `DrainedHeadIssues`, `RingHoldsQueue`, `ImplementsIssueOrder` |
| `Pipeline_likely` | the same, with a load in the slot of a likely branch | violates `RequestsAreCommitted` |
| `Sd_transfer` | 2 buffers, 2 blocks; commands without data, with and without response and busy state, reads of one and two blocks, a write (923,915 states) | `TypeOK`, `StartNeverLost`, `ImplementsSendCmd`, `CommandTransactionEnds` |
| `Sd_stale` | the same | violates `OkMeansDelivered` |
| `Mmc_stack` | five cards of 3 to 10 blocks, two hosts, reads of 0, 1 and 3 from 1 and 13, 2 blocks a command, `size_t` of 4 bits, 1 or 2 tries of each loop, two faults (287,136 states) | `TypeOK`, `InitAgrees`, `NoFaultNoHang`, `GoodCardInitialised`, `BreadDelivers`, `CallReturns` |
| `Mmc_unusable` | the host of `ocsdc.c`, no faults | violates `UnusableIsReported` |

Why these bounds are enough. Three tags on two ways: a set can be full of valid
lines, evict a dirty one and be asked for it again while it is being written
back. Two words a line: the wrap-around of a burst, a beat other than the one a
request waits for, and a store to a word that has or has not arrived. Two sets:
the read and the write port may differ, so both outcomes of `hazard` occur. A
queue of one or two uncached writes: bypass, queueing and full. The slave may
delay any handshake in any state. Two values tell an old word from a new one.

`ImplementsProgramMemory` is the main property: mapped by `ProgramWord` (the
newest copy of each word: taken out by a CACHE operation, in the RAM, stored
into the line being fetched, in the write on the bus, or in memory), every
cycle is a step of `ProgramMemory`. Refills, evictions, prefetches and
write-backs must therefore leave the program's memory alone, a store must take
effect exactly when it completes, and uncached stores must be performed once
and in order, before a later uncached load is answered. `LoadReturnsLatest`
adds that the value on the bus is that memory's.

`FetchIsFresh` is the main property of the instruction cache. Nothing keeps it
coherent with memory, so it cannot return the newest word; what software relies
on is that after a CACHE operation on a line the old version is gone, from the
RAM, from the refill buffer and from a burst that is under way, and that the two
words of an answer are those that were asked for. Four words a line let a burst
start at either pair, so that a pair arrives in order, across the wrap or while
the first is in the buffer and the second on the bus. One line is written once:
two versions tell old from new. `NoDuplicateLine` rests on the cancellation of
prefetches, `PortIsCurrent` on the exit condition of `REFILL`.

`DCache_cached` lets the prefetcher offer lines at any idle moment but has no
CACHE operations; `DCache_ops` has CACHE operations but no prefetcher.
Together they break the cache (finding 1).

`OperandsAreLatest` and `RegisterFileIsCurrent` are the main properties of the
pipeline: whatever stalls, is squashed or comes late, every instruction computes
with the values in-order execution would give it, and the register file is the
one it would leave. `RequestsMatchAccesses` is what in-order answers without a
name rest on. Four instructions in flight are a reader with writers of the same
register in two or three stages before it, or an access in MEM, one in DR and a
pair in EX; loads, additions and branches may fill all four places, the rarer
classes meet each of them, but not one another. A bound of four instructions
never fills the ring of three: that it cannot overflow is for `RingIsExact`,
which holds for every bound.

The cards of `Mmc_stack` are one for each branch of `mmc.c`: SD 1.0, SD 1.10
with high speed, SD 2 of high capacity, MMC 3 and MMC 4, byte and block
addressed, with and without four lines. One host is `ocsdc.c`, the other returns
`TIMEOUT`, as `mmc.c` expects; without it the MMC branch would not be reached at
all. Three blocks with two to a command make two rounds of different length, and
3 blocks from 1 do not fit the smaller cards. Three blocks from 13 make
`start + blkcnt` wrap in a `size_t` of 4 bits, and their byte addresses with it. Two faults: one that leaves something behind and one in
the retry or in the next call. `Sd_transfer` needs no bound on faults: any
response may be lost, any block damaged, any number of times.

`InitAgrees` is the main property of the driver: version, relative address,
capacity, addressing mode and bus width are negotiated in some thirty commands
each of which may be lost or answered into the void, retried, or left half-way
by an attempt that failed, and afterwards `struct mmc` and the card must hold
the same. `BreadDelivers` adds that a long read is put together in the right
order. Both are stated for cards whose operating condition was established
(`cond = "ok"`): finding 4 is what happens otherwise. `BreadDelivers` is further
stated for a call that finds the data path clean: finding 3 otherwise.
`NoFaultNoHang` excepts a request whose end (`start + blkcnt`) wraps beyond
`size_t`, which the range check of `mmc_bread` lets through.

Deadlock is checked by all `DCache*`, `ICache*` and `Pipeline*` runs. The `Sd_*` and `Mmc_*` runs
turn it off: the driver may really stop there, polling for data that do not come.

### Fairness (`LiveSpec`)

`ClockCycle`: the clock runs while there is something to do; it offers no
fairness to any particular input. `SlaveCycle`, `ReadCycle` and `WriteCycle`:
an AXI slave accepts an address, presents and accepts the beats of a burst, and
responds, after any finite delay. They are weak fairness conditions on those
cycles, whatever request the pipeline offers in them. The environment is not
assumed to stop making requests. `StalledRequestCompletes` and
`AcceptedRequestEnters` follow. That the uncached write queue drains does not:
misses have priority (lines 612-627), so a stream of them can hold it for ever.

`ICache` has the same three: `ClockCycle`, `RequestCycle` (an address is accepted)
and `ReadCycle` (a beat is presented). `StalledFetchAnswered` needs no help from
the fetch unit: a fetch that stalls is in m1. `HeldRequestEnters` says that a CACHE
operation is not locked out by the refill it waits for.

For the SD stack: the driver is a loop on a processor of its own, and the
controller is clocked (`WF` of `Driver` and `Controller` in `Ocsdc`, of all steps
but new calls in `Mmc`). `WF` of `Card` says that a command that was sent is
either answered or lost, and that the busy state of a card ends. Nothing is
assumed of the data: whether blocks come is never promised, and that is why
only `CommandTransactionEnds`, and not the end of the call, follows for
`Ocsdc`, and `CallReturns` allows `hung`.

## 4. Findings

1. **A prefetch can undo a CACHE write-back** (`DCacheSystem_writeback`). The
   prefetcher may offer a line that is in the cache and dirty, and get the bus
   in the cycle a CACHE write-back of that line enters m1. The write-back has
   cleared the valid bit and waits for the bus, so the refill is not recognised
   as a duplicate and installs what memory held before; later loads hit it.
2. **The annulled slot of a likely branch accesses memory** (`Pipeline_likely`,
   `mycpu_core.sv:678`). `likely_flush` resets the FU of way 1 only. A load or
   store in the slot takes the output of the AGU, which is not told: when the
   branch is not taken, the store is performed, the load writes its register.
3. **A read may be reported as a success with data of another one**
   (`Sd_stale`, `ocsdc.c:232`). When a read command fails, the receiver stays
   armed and the data status is not looked at. A later read is then received
   into the buffer of the failed one, or takes a status that was pending before
   it for its own.
4. **An unusable card is initialised** (`Mmc_unusable`, `mmc.c:845`). Only
   `TIMEOUT` of `sd_send_op_cond` is looked at; with any other error, the one of
   a card that never became ready included, `mmc_init` goes on to
   `mmc_startup`. A card that becomes ready a moment late answers it, and is
   used as a card of unknown version. Since `ocsdc_send_cmd` never returns
   `TIMEOUT`, the branch for MMC cards (`mmc.c:835`) is not reached with it.

Remarks: met while modelling, and kept out of the passing runs or allowed for in
a property, without a run of their own.

1. A hit invalidation may complete while its line is on its way in: it is held
   back while its set is being fetched (`d_cache_axi.sv:868`), but not in the
   cycle in which the store miss before it takes the bus. `HitInvalidateRemoves`
   allows for it.
2. A CACHE operation with an uncached address starts a bus read of that address
   (`d_cache_axi.sv:629`); `DCache` has it, the requests of the runs do not.
3. Bit 2 of a 4-way record of `plru.sv` does not mean what line 46 says of it
   (`VictimsAreNotNewest` holds all the same).
4. A slot that reads the link register of its own branch never issues:
   `stall_way0` keeps it from issuing with the branch, and the branch from
   issuing without it (`IssueUnit_2.sv:190`).
5. An addition in the slot of a likely branch has `Tnew` STALL also when it is
   issued with `delay_exec` (`TnewDecoder.sv:37`): FU then publishes the sum of
   operands that are not there yet (`FU.sv:164`). A load there never gets to
   forward its result, since STALL counts down too slowly.
6. An addition in way 0 that overflows does not stop the access in way 1 of its
   pair: in DR the request is offered in the cycle in which the exception
   squashes it (`MEM_REQ_MUX_2.sv:178`). An SC in way 0 beside such an addition
   may have its store accepted while MEM stalls, and then report a failure,
   because the exception has cleared `LLbit`.
7. When MEM stalls, a load in way 1 of DR with a translation error keeps its
   place in `wd_2` after its exception is taken (`mycpu_core.sv:809`): the first
   instruction of the handler, if it reads that register, issues with a value
   that is never computed.

## 5. Theorems

Of the caches, for every number of sets, words, tags, queue entries, every set of requests
and of prefetched lines, and for 2 and 4 ways (`SizeAssumption`,
`InputAssumption`: the values the code supports, and well-formed requests).

- `TypeCorrect`: `Spec => []TypeOK`, one lemma for each action.
- `RefillPorts` and `NoDuplicates`: the invariant is `IInv == TypeOK /\
  RefillOwnsPorts /\ NoDuplicateLine`. `NoDuplicateLine` is not inductive by
  itself: `Duplication` compares the tags on the read port, and only
  `RefillOwnsPorts` says that these are the tags in the RAM. That in turn holds
  because `READ` goes to `REFILL` only in a cycle in which the port reads the
  set (`ReadsVictims`) and nothing writes it (`Enb`), and no request enters m1
  in such a cycle.
- `BeatsStayAligned`: the invariant `BeatInv` adds to `BeatsAligned` the counts
  at the start of a burst.
- `UncachedReadsInOrder` (`OpsAreCached`: CACHE operations have cached
  addresses): an uncached read is on the bus only for the oldest request, with
  nothing posted before it. The read may start for a request that still waits
  in front of m1; `MakesWayForRead` shows that whatever stands in m1 then
  completes in that very cycle, and `ReadGoesOn` that nothing is pushed while
  the read lasts.
- `LoadsReturnLatest` (`OpsAreCached`, `ByAddress`): a load returns the newest
  value of its word in whatever cycle and by whatever path it gets it: the RAM
  port, the forwarded store, the beat, the refill buffer, the device. `ByAddress`
  says that no address is used both cached and uncached and that no line the
  prefetcher brings in belongs to a device; without it the RAM hides the device, as it does in
  the code. The invariant is `SafeInv /\ DataInv`: what m1 saw in its first cycle
  is still in the RAM or was forwarded (`PortInv`), a request that waits has
  missed and is served before its line goes to the RAM (`WaitInv`), the words still
  to come are the words not yet received, in the order of the burst
  (`FetchInv`), and a received word is the one of memory or was stored since
  (`FillInv`).
- `CleanLinesMatch` (`NoCacheOps`, `ByAddress`): a clean line equals memory.
  `MemoryInv` adds to the above that a line on its way to memory is in no way of
  the RAM (`WriteInv`), so that writing it changes memory under no clean line,
  and that a merged store makes the line dirty (`CleanInv`).
- `CacheImplementsMemory` (`NoCacheOps`, `ByAddress`): `Spec =>
  ImplementsProgramMemory`. `MemoryInv` is invariant and every cycle maps to a
  step of `ProgramMemory`. The view of the program is followed word by word:
  `ViewStep` says that it changes by the store that completes and by the device
  write that is performed, through the RAM (`StoresInRam`) or below it
  (`StoresBelow`, `BelowFetching`, `BelowWriting`, `BelowIdle`), `ViewRefill`
  that replacing a line changes nothing. `QueueStep` and `WaitingStep` follow
  the requests held and the uncached stores posted.
- `SystemRefinesDCache`: every cycle of the composed cache is a cycle of
  `DCache` once every line may be prefetched: the way `PLRU` chooses is one of
  `Victims`, the line `Prefetcher` offers is a line, and outside their states
  the choices do not matter. `SystemHasNoDuplicates` follows.
- `VictimsAreNotNewest`: with `RecordInv` (the pseudo-LRU way of a set is not
  the way used last), for both kinds of record. `plru.sv:72` overwrites bit 2 of
  the 4-way record with bit 1 when a way of the lower pair is used, against the
  description of that bit in `plru.sv:46`; the theorem shows that the way used
  last is safe all the same.

Of the instruction cache, for 2 and 4 ways, every even line length, every number
of sets and tags, every set of requests, prefetched and written lines:

- `TypeCorrect`, `PortStaysCurrent`, `NoDuplicates`: the invariant is `IInv ==
  TypeOK /\ PortInv /\ BurstInv /\ FillInv /\ NoDuplicateLine`. A duplicate is
  avoided because a line is only fetched when it is in no way of its set
  (`FillInv`). For a miss that follows from `PortIsCurrent`; for a prefetch from
  the tags its first cycle shows (`Unseen`), and it stays so because nothing but
  the refill itself brings a line in. `PortIsCurrent` needs in turn that a CACHE
  operation is not in m1 while its set is fetched (`CacheOpInv`), that a fetch
  that stalls has missed (`StallInv`), and that an uncached read on the bus has
  its fetch in m1 or m0 (`UncachedInv`). `BurstInv` ties the counters of the
  cache, of the slave, and the words received together, in the order of the
  burst (`Dist`).
- `FetchesAreFresh`: with `FreshInv`, everything in the RAM and in the refill
  buffer is of its address and between `floor` and memory. A CACHE operation
  raises `floor` and takes every copy of the line out of the RAM, since there is
  one at most; `CacheOpInv` keeps it away from the line on the bus. An answer
  from the refill buffer has both words, because the first of a pair precedes
  the second in every burst that starts at an even word.

Of the SD stack, for every number of blocks, set of buffers and set of commands
(`OcsdcAssumption`: commands are well-formed):

- `TypeCorrect`, `StartReaches` and `Implementation`, which says `Spec =>
  S!Spec`: the driver on its controller implements `SendCmd`. The refinement
  needs to know at every moment of a call what the data path at its beginning
  allows; that is `CallInv`, in parts for a call that sends no data
  (`Untouched`), a read (`ReadInv`) and a write (`WriteInv`). It rests on
  `CommandInv` (which phases of driver, start pulse, command master and card go
  together), from which `StartNeverLost` follows, and `EntryInv`. The inductive
  invariant is the conjunction of these three and `TypeOK`. `ReadInv` is where the blocks that are
  still on the lines, the position of the receiver and the content of the
  buffer are tied together; without it a `CC` in the data status says nothing
  of the buffer.

Of the card driver, for every set of cards and hosts, calls, block length, width
of `size_t`, number of tries and of faults (`MmcAssumption`; `CardAssumption`:
the number of blocks fits in 32 bits, and only cards that know of it have high
capacity; `HostAssumption`: the capabilities are those of `mmc.h`):

- `MmcTypes`, `DriverAgrees`: the invariant is `BaseInv == TypeInv /\ PlaceInv /\
  AgreeInv`. `InitAgrees` speaks of the client only, and what mmc_init has
  negotiated must be known at each of its places: `PlaceInv` says which state of the
  card a place stands for whatever was lost (a response that came proves that the
  card took the command, so behind `SELECT_CARD` it is in its transfer state and
  at the address the driver holds), `AgreeInv` what driver and card agree on
  from the operating condition on. `CardInv` goes with it: only SD cards take an
  application command, and a card that is not selected uses one line, which is why
  an attempt that failed half-way leaves nothing behind for the next one.
  `CardMoves` lists what each command may do to a card; one lemma for each action
  shows that it keeps `BaseInv`.
- `BreadIsRight`: `Spec => BreadDelivers` if `BuffersFit`: for a card addressed in
  bytes, the address of the end of the longest read that begins on the card fits in
  32 bits. `ReadInv` follows a read through its rounds (`Going`: the start of the
  round is the first block plus what has been read). The check of the range in
  `mmc_bread` wraps with `start + blkcnt`, so a read may run past 2^32 blocks;
  `BlockOfAddress` shows that its byte address, which wraps too, then lies behind the
  end of the card, which does not answer with data: such a call fails but does
  not deliver blocks that were not asked for.
- `DriverDoesNotHang`: `Spec => []NoFaultNoHang` if `MmcSupported`: every card is an
  SD card, or no host has both 4 and 8 lines (that of `ocsdc.c` has 4) and an
  MMC card of high capacity has more than half of `W`, the 2GB from which
  `mmc_startup` believes `ext_csd`. TLC finds a hang without either.
  The invariant is `CleanInv`: as long as nothing was lost (`Quiet`), the data path
  is clean, the version is that of the card or not known yet, an application
  command finds the `APP_CMD` before it, host and card use as many lines where data
  are sent over more than one, and the size is the card's where it is used. Such a
  command is obeyed exactly if it is legal (`QuietPlain`, `QuietRead`), so each
  action needs only the legality of its own command. `RangeInv` and `WithinSize` put
  the blocks of a round on the card. Hosts with 4 and 8 lines begin at 12 of them
  (`width` 3), over which data never arrive; a smaller MMC card of high capacity
  keeps a size that means nothing and is asked for blocks it does not have.
- `SdCardIsInitialised`: `Spec => GoodCardInitialised`, without a further assumption,
  from the same invariant: an SD card is always `Supported`, and each step of
  `mmc_init` that could give up has a command that is legal there, has been answered,
  and leads on (`SdIsKept`).

Of the pipeline, for every length of the issue queue from 3, every set of
instructions, registers and slots, without the bounds of the run
(`MaxInFlight` and `Rare` may be anything). The assumptions are
`QueueAssumption`, `RegsAssumption`, `ProgramAssumption` (no instruction is the
empty entry) and `SlotsAssumption` (no branch in the slot of a branch).

- `RingIsExact`: `Spec => []RingHoldsQueue`. The invariant is `QueueInv`, its
  types and `RingHoldsQueue` itself: `allowin_I` looks at `size` only, and the
  proof shows that the two cells it keeps free are the two that are written,
  whatever leaves in the same cycle, across the wrap.
- `IssueQueueImplementsIssueOrder`: `Spec => Order!Spec`. The mapping is
  `Waiting`, the ring read from `head`, and `Executing`, the pair in EX. The
  invariant `IssueInv == QueueInv /\ SlotsInv /\ ExInv` adds that what stands
  behind a branch in the queue is one of its slots, and that decode knows if the
  last one still has its slot to come (`SlotsInv`): `way1_stop` lets a branch
  through in way 1 if way 0 is one, and relies on there being none. `ExInv` only says that the
  entries of EX are records with an instruction.

The theorems about the stages add what each needs to the assumptions of the
queue; what they leave out is what the code does not do
(remarks 4 to 7, finding 2). The run `Pipeline_core` meets all of them.

- `DrainedHeadGoesOn`: `Spec => []DrainedHeadIssues` if `LinksUnread`, no slot
  reads what its own branch writes. The invariant `DrainInv` is `IssueInv` with
  `BubbleInv`: a place without an instruction writes no register, through every
  stage, so the scoreboard of a drained pipeline is empty.
- `AnswersMatchAccesses`: `Spec => []RequestsMatchAccesses` if `PairedOverflow` is
  `FALSE`. The property is not inductive by itself: a request that has been
  accepted must not be taken back. `PairInv` says of the pairs in EX, AT and DR
  which may stand beside each other (`Beside`): one access at most, no privileged
  instruction or older exception beside it, no exception beside an SC.
  The scoreboard establishes it (`IssuedBeside`), EX and AT keep it. `SentInv` says
  that a request is only remembered as sent while MEM waits for another answer.
  `RedirectSparesAccess` is the heart: what CP0 takes while there is an access in
  DR comes behind it.
- `RequestsOfExecuted`: `Spec => []RequestsAreCommitted` if moreover no instruction
  in the slot of a likely branch is an access; `CommittedInv` follows the slot
  from the queue (`SlotsInv`) to DR.
- `OperandsAreRight`, `RegistersAreRight` and `PipelineTypes`, if `PairedOverflow`
  is `FALSE`, no slot of a likely branch is an access or an addition that reads
  (`SlotsAreSimple`), and every handler begins with a privileged instruction that
  reads nothing (`HandlersArePriv`). The invariant is `OperandInv`; none of the
  three properties is inductive, and even the types are not, for that a `Tnew` is in
  range rests on where the instruction is. The argument:
  - *Time.* `TimeInv` says that `Tnew` and stage of a writer add up to the stage
    its result appears in: 1 (AT), 3 (DR), 4 (MEM), or, for the slot of a likely
    branch, 7, which only the register file hands on; a conditional move is at 7
    until EX has decided it. A result whose time has come is there and right,
    except in an instruction that is `Doomed`, behind an exception and about to
    be flushed.
  - *Readers.* `OperandsInv` says of an operand that is still to be used that each
    older writer of its register will have delivered by then (`Tnew <= u - s`), and
    that the copy in the stage register is right already, unless one of those
    writers has not delivered yet. `stall_way0`, `stall_way1` establish it at issue
    (`IssuedInTime`); `MovedOperand` and `HeldOperand` keep it, where the pair
    stands still while its writer moves on (the save registers of `Forward_OUT`), and
    where both move. `WriterGoesOn` is the heart: a writer that an undoomed
    reader waits for is not squashed, flushed or annulled under it.
  - *Pairs.* `PairsInv`: way 1 never reads what way 0 of its own pair writes,
    a privileged instruction is alone, the slot beside a likely branch has no
    forwarded result, so an annulled one takes nothing back from a reader.
  - *Exceptions.* `Handled`: while MEM stalls with an exception already taken,
    EX and AT are empty and only a handler may issue. Its first instruction reads
    nothing and, being privileged, leaves alone, which is what keeps it from
    reading the register that a load in way 1 of DR will never write (remark 7).
  - *Registers.* Then whatever is written back is right, and of two in one cycle
    way 1 wins (`RegistersStay`).

The runs keep to `OpsAreCached` and `ByAddress` and `DCache_cached` to
`NoCacheOps`. A program can break `ByAddress`, since the processor maps the
same physical memory cached and uncached: the cache does not keep the two
coherent, software has to, with CACHE operations.

Only model-checked: `HitInvalidateRemoves`, `ImplementsProgramMemory` and
`CleanMatchesMemory` with CACHE operations, `PrefetchRunsAhead`, and liveness, which
is beyond the prover.

## 6. Plan

Done: `DCache`, `PLRU`, `Prefetcher` and their composition; `ICache`; `Pipeline`
with `IssueOrder`; `Ocsdc`, `SendCmd`, `Mmc`. Left, in this order:

1. `InstrFetch` on an abstract cache: every instruction on the path once and in
   order under redirects. `ICache` composed with `Prefetcher`, as the data cache
   is.
2. `MDU_Controller` behind `Pipeline`: start, receive, and the recovery of HI and
   LO after an exception; CACHE operations in DR.
3. `Pipeline` composed with the promise of `DCache` (`ProgramMemory`'s queue)
   instead of free answers.
4. `Tlb` and `Cp0`: at most one match, Random and Wired, exception nesting.
5. Theorems: `HitInvalidateRemoves` of `DCache`, and `CacheImplementsMemory`
   without `NoCacheOps`.

## 7. Not modelled

Decode tables and arithmetic data paths (combinational), branch predictors
(a wrong prediction costs time only, its repair is planned with the fetch
unit), the LFSR replacement (not configured; `DCache` leaves the victim open),
the crossbar, clock crossing and all other vendored or generated IP, the SoC
wiring and the SDRAM controller. Of the SD stack: the DMA FIFOs and CRC units
of the controller (a block arrives whole or damaged), `ocsdc.c`'s register access
functions and clock divider, and the test benches.
