# A TLA+ model of NVSim

NVSim is a circuit-level estimator for non-volatile memories and caches. It is a
batch program with one thread: it reads a configuration and a memory-cell
description, enumerates the organisations of a memory array, evaluates each of
them with an analytical circuit model, keeps the best one for each of eight
optimisation targets, and prints a report or a csv file. Nothing is persisted
between runs and no messages are exchanged. What is hard about it is not
concurrency: it is a long chain of phases that communicate through mutable
global objects (`inputParameter`, `tech`, `cell`, `localWire`, `globalWire`),
results that are copied field by field, flags that make an object unusable, and
integer bookkeeping of address and data bits that must come out even.

## 1. Inventory

| Component | Code | State | Operations |
|---|---|---|---|
| Exploration | `main.cpp`, `macros.h` | `localWire`, `globalWire`, the eight tag and eight data results, `numSolution`, the csv file | tag search, data search, two refinements each, constrained search, report |
| Result | `Result.cpp` | a copy of one bank and two wires, eight limits, a target | constructor, `reset`, `compareAndUpdate`, the printers |
| Input and search space | `InputParameter.cpp`, `macros.h` | targets, capacity, widths, 19 min/max pairs | reading the file line by line, `REDUCE_SEARCH_SIZE`, `RESTORE_SEARCH_SIZE`, `applyConstraint`, `BIGFOR` |
| Bank with H-tree | `BankWithHtree.cpp`, `Bank.cpp` | for each level of the tree the numbers of address, broadcast and distributed wires; `initialized`, `invalid` | `Initialize` (the routing loops), `CalculateArea`, `CalculateLatencyAndPower` |
| Bank without H-tree | `BankWithoutHtree.cpp` | the split of the block over mats, the sense amplifiers outside the mats | `Initialize`, `CalculateArea`, ... |
| Mat, SubArray | `Mat.cpp`, `SubArray.cpp` | rows and columns of a subarray, mux degrees, `invalid` | `Initialize` (legality tests), `Calculate...` |
| Peripheral circuits | `PredecodeBlock.cpp`, `RowDecoder.cpp`, `BasicDecoder.cpp`, `OutputDriver.cpp`, `Mux.cpp`, `Comparator.cpp`, `Precharger.cpp`, `SenseAmp.cpp` | transistor widths, stage counts, capacitances | `Initialize`, `CalculateArea`, `CalculateRC`, `CalculateLatency`, `CalculatePower` |
| Cache summary | `Result.cpp` (`printAsCache`) | none: hit, miss and write metrics of a tag and a data result | the three access modes, twice (report and csv) |
| Wire | `Wire.cpp` | type, repeater, low swing; repeater size and spacing | `Initialize` (with the search for the optimal and for the penalised repeater) |
| MemCell | `MemCell.cpp` | the cell's electrical parameters | reading the cell file |
| Technology | `Technology.cpp`, `formula.cpp` | tables of device constants | `Initialize`, `InterpolateWith` |

**How they interact.** `main` calls `Initialize`, `CalculateArea`, `CalculateRC`
and `CalculateLatencyAndPower` on one bank at a time; a bank initialises its mat,
the mat its subarray and decoders, those their drivers. All of them read the
globals `inputParameter`, `tech`, `cell`, `localWire` and `globalWire`; failure
travels upwards in the `invalid` flags (or is forgotten on the way). `main`
copies the bank and the two wires into a temporary `Result` and compares it with
the stored ones. The only thing the exploration changes for the circuit model is
the two global wires; that is the interface the models are cut at.

**What is hard.** The order in which results are compared, reset, refined and
reported; a counter shared by three searches; results whose organisation was
never written; wires loaded for one result and stored in another; ranges that
are overwritten, restored and re-read in the middle of the run; integer halving
of bit counts, array indices and stage counts at their limits. The full list,
with lines, is under `hazards` in `PROJECT.json`.

**What makes each component correct.**

* Exploration: every stored result is genuine (organisation, wires and metrics
  belong together), optimal for its target among all it was compared with, meets
  the limits and has the capacity asked for; the search covers the space; the
  report says what was found; the program ends and does not run into
  uninitialised data.
* Search space: restoring gives back the ranges the user asked for; every
  enumerated organisation is legal for its array.
* H-tree bank: each level that is read was written, the wires of all levels
  together deliver exactly the block, no index leaves its array.
* Mat, subarray: an organisation that passes all tests has exactly the capacity.
* Evaluation of a bank: an illegal part makes the bank illegal or infinitely
  expensive, nothing is computed from a value nobody wrote, and every latency,
  energy and leakage counts each circuit as often as the organisation has it on the
  way, at work, or built.
* Cache summary: no hit is answered before its tags are compared or before its data
  are out, whatever the access mode.
* Output driver: the chain fits its array, has the parity of its logic, and
  ends in the device that drives the load.
* Wire: what is read of a wire belongs to its present setting, its repeaters
  keep the delay that the wire type promises, and what it owns is deleted once.
* Cell: what the file says takes effect, and all banks see the same cell.
* Technology: devices and wires are of the tables around the node, in proportion.

## 2. Plan

Order: the core first, then what feeds it, then what it calls.

1. `Result`, `Explorer`, `BestKeeper`, `ExplorerProofs`: **done**.
2. `Bits`, `CommonProofs`, `Array`, `BankBus`, `BankHtree`, `BankHtreeProofs`: **done**. `BankHtree`
   composes with `Array` (its mat) and is compared with `BankBus`.
3. `SearchSpace`, `SearchSpaceProofs`: the ranges and the enumeration that
   `Explorer` takes as the constants `NumDesigns`, `LocalRange`, `GlobalRange`,
   `BasicLocal` and `BasicGlobal`; extends `BankBus` for the address bits: **done**.
4. `Decoding`: the split of the address bits of a mat over predecoder blocks and
   stages of decoders, and the loads they put on each other; extends `Array`:
   **done**.
5. `Wire`, `WireProofs`: the life of a wire object between the refinement loops,
   the results and the banks; `Repeater`: the search for
   penalised repeaters, which `Wire` takes as given: **done**.
6. `OutputDriver`: the construction of the inverter chain. `CellFile`: the lines
   of a cell file and the write energies; `ProcessNode`: the tables of a process
   node; `Setup`, `SetupProofs` compose the two in the order of `main`: **done**.
7. `WireRepeaters`: the search for repeaters inside `Wire::Initialize`, with its
   theorems in `WireProofs`; `DecoderDrivers`, `DecoderProofs`: the drivers inside the
   decoders of a mat, and the theorems about these: **done**.
8. `Ledger`, `Circuits`, `SubArray`, `Mat`, `BankCosts`, `CacheSummary`,
   `Evaluation`, `EvaluationProofs`: for each circuit and cell type, which fields
   `Initialize`, `CalculateArea`, `CalculateRC`, `CalculateLatency` and
   `CalculatePower` write and read, the fate of the `invalid` flags, what the sums
   contain, and how tag and data results are combined in the report: **done**.
9. The statements of `Explorer` that count or quantify over the search, in
   `ExplorerProofs`: **done**.

What is left out, and why, is in section 6.

## 3. Modules

### Result

`Result.cpp`. A result is a record of an organisation (`design`), two wires and a
cost for each target; a limit is one number for each target. `WithinLimit` and
`CompareAndUpdate` are `Result::compareAndUpdate`, `ResetResult` is
`Result::reset`, `Worst` is 1e41. The metrics are natural numbers: the code only
compares them, and multiplies them with a slack when limits are set.

### Explorer

`main()` from the construction of the results to the end, one action for each
way an iteration of a loop can go.

| Action | Code |
|---|---|
| `StartTag`, `StartData` | `INITIAL_BASIC_WIRE` and the head of `BIGFOR` |
| `SkipDesign` | `continue`, or a bank with `invalid` set |
| `AcceptDesign` | capacity verified, `numSolution++`, `UPDATE_BEST_...`, `OUTPUT_TO_FILE` |
| `CapacityViolation` | `VERIFY_..._CAPACITY`, `exit(-1)` |
| `RefineLocal`, `RefineGlobal` | the body of the wire loops: load, evaluate and compare for all eight results |
| `CrashOnUnset` | undefined behaviour when a refinement reads a result nobody wrote |
| `NoTagSolution`, `FinishTag` | the end of the tag array |
| `StartConstrained`, `SkipConstrained`, `AcceptConstrained` | limits, reset and the second search |
| `Report` | what is printed |

An organisation is a number, its place in the order of the thirteen loops. What
the circuit model says of it is `physics`: whether it divides the block
(`divisible`), whether it has the capacity (`fits`) and what it costs under each
pair of wires, or that the bank is invalid (`outcome`). `physics` and `config`
never change during a behaviour; the checks quantify over a set of them. Reading
a field that was never written is a choice over all values (`junk` in the
refinements) or a crash. The variable `offered` is a history variable: what each
result has been compared with since its last reset.

`BestKeeper` is the abstract promise: each of the sixteen slots keeps the least
of the admissible costs it was offered. `KeeperRefinement` says that `Explorer`
implements it.

### Bits, Array and BankBus

`Bits` holds the number functions all banks share: the bits of a `double`
logarithm truncated by the conversion to `int`, and the limiting of active
parts. `Array` is `Mat::Initialize` and `SubArray::Initialize` as a function of
the arguments: the rows and columns of a subarray, or `InvalidMat`. The physical
tests (bitline leakage, currents, sense voltage, pitch) are one truth value,
`feasible`, of the call. `BankBus` is what `BankWithoutHtree::Initialize`
decides, by division.

### BankHtree

`BankWithHtree::Initialize`, the wire lengths of `CalculateArea`, and the way an
exploration builds the same bank again from a stored result.

| Action | Code |
|---|---|
| `RejectExternalSense`, `Begin` | the head of `Initialize` |
| `FirstHorizontal`, `NoHorizontal` | the root of the tree |
| `ReduceHorizontal`, `ReduceVertical` | `while (h > v)`, `while (v > h)` |
| `BothHorizontal`, `BothVertical` | the two halves of an iteration of `while (h > 0)` |
| `LastColumn` | the split between two mats at the end |
| `GiveUp` | `invalid` because no bits are left, in any of the loops |
| `RejectWays`, `InitializeMat` | the test of the ways, the mat, the mux degrees put back |
| `RejectAspectRatio`, `BeginLengths`, `LengthVertical`, `LengthBoth`, `LengthHorizontal`, `EndLengths` | `CalculateArea` |
| `Rebuild` | `Bank::operator=` into a result, and `TRY_AND_UPDATE` from its fields |

The six arrays of one direction are one function from levels to records. A cell
nobody wrote is `Unwritten`; reading outside an array gives `Unwritten` and
writing outside it is lost, so that a wrong index shows in
`LevelsWrittenInOrder` and not as an error of the checker. Lengths are counted in
half mats; a repeated wire adds one track for each bit.

`applyConstraint` already refuses an H-tree with sense amplifiers outside the
mats, CAM, DRAM and MLC NAND. `RejectExternalSense` is therefore a second line of
defence that `main` never reaches; it is part of the module because `Initialize`
does not know who calls it. The same holds for the branches of CAM and DRAM.

### Decoding

The decoders of one mat, after `Array` has said that it is legal.

| Action | Code |
|---|---|
| `InitializeSubArray`, `Reject` | `SubArray::Initialize` as far as it chooses gates (`RowDecoder::Initialize`), and the early returns of `Mat::Initialize` |
| `InitializeBlocks` | the two calls of `PredecodeBlock::Initialize` for the next role |

A role is what is decoded: the rows and the three mux levels. A predecoder block is
a record of its basic decoders, in groups A and B, and of its row decoders; a group is
a triple of the 1-2, the 2-4 and the 3-8 decoders; a load is the number of gate inputs that an output drives, that is `capLoad...` divided by
`capNandInput`. The numbers are those of the code, case by case, and not derived
from each other; that they fit together is what `LinesMultiply` and
`LoadsAreFanOut` check. The branch for 19 to 27 bits of a block is left out because
it is out of reach (`MaxBlockBits`). The tests of tag arrays add comparators and
no decoders.

### SearchSpace

What `main` does to the ranges from reading the file to the last search.

| Action | Code |
|---|---|
| `ReadLine` | one iteration of `ReadInputParameterFromFile` |
| `ApplyConstraint` | `applyConstraint` after a reading |
| `StartTag`, `TryTag` | `REDUCE_SEARCH_SIZE`, the tag array, an iteration of `BIGFOR` |
| `NoTagSolution`, `ReadAgain` | the end of the tag array, `RESTORE_SEARCH_SIZE` and the second reading |
| `StartData`, `TryData` | the data array, or the array of a chip |
| `StartConstrained`, `TryConstrained`, `FinishData` | the search with limits |

A dimension is a pair `min...`/`max...` of `InputParameter`. The thirteen nested
loops are an odometer: the innermost loop that can still step does, and the loops
inside it begin again. This is what nested `for` loops do when no loop is empty
at its start, which `SearchIsComplete` checks. The wire loops and the
evaluation of a bank are the subject of `Explorer` and leave the ranges alone.
`firstRead` and `tried` are history variables.

One dimension is not restored: the first `RESTORE_SEARCH_SIZE` bounds the rows of
a set by the default associativity 1, the second by the value in the file. It is
the second that a data search uses, cut to 1 for normal access (`DataRanges`);
chips, which read the file once, keep a set in one row.

### Wire

All the `Wire` objects of one role: the global one, that of the temporary result
and those of the stored results. A field is what it was computed from, so that a
stale field is one that was computed from another setting.

| Action | Code |
|---|---|
| `SetWire`, `LoadWire` | `Wire::Initialize`, called for the basic wire, for each wire of a refinement loop, and with the setting of a stored result |
| `CalculateLatencyAndPower` | the evaluation of one level of a bank, which allocates a sense amplifier for low swing |
| `CopyToTemp`, `Keep` | `Wire::operator=`, from the global wire to the temporary result and on to a stored one |
| `RenewTemp`, `Delete` | the destructors |

The order in which `main` does these things is the subject of `Explorer`; here any
order is allowed, except that a copy is made of a wire once before it changes.

### RepeaterGrid, Repeater and WireRepeaters

`RepeaterGrid` has the repeaters as pairs of steps of the two loops, spacing and
size; what the getters compute for a repeater is an arbitrary table (`Circuits`).
`Repeater` is `Wire::findPenalizedRepeater` from the optimum that
`findOptimalRepeater` found: `Try` is the body of the two nested loops,
`NextSpacing` an iteration of the outer one, `Finish` the assignment of the target.

`WireRepeaters` composes it with `Wire` through `Search == INSTANCE Repeater WITH`:
`InitializeWire` is a `SetWire` or `LoadWire` of `Wire`, after which a wire with a
penalty starts the search (Wire.cpp:484-512); `SearchRepeaters` are the steps of the
search with the wire standing still; `Return` leaves it; `UseWire` is any other step of
`Wire`, which waits until the search has returned. `fabric` says which table and
how many sizes a wire type has and never changes.

### DriverSizes, OutputDriver and DecoderDrivers

`OutputDriver` is `OutputDriver::Initialize`, one action for each of its designs
(`LatencyFirst`, `TradeOff`, `AreaFirst`), and the test of the minimal driver before
them (`TooWide`, `PassMinimum`). Widths are logarithms (`DriverSizes`), so that the
products, quotients and roots of the code are sums, differences and divisions.
`LatencyFirst` hands over to `TradeOff` when the last stage is too weak, as the
code does by changing `areaOptimizationLevel`. All calls in the code pass
`inv = true`; the other parity is written down but not checked.

`DecoderDrivers` composes it with `Decoding`: each of the four row decoders of a
subarray calls it (`InitializeDriver`, `SizeDriver`, `DriverReturns`), a driver that
is too wide makes the subarray illegal (`DecodersInitialized`), and the mat goes on
with its predecoder blocks (`MatGoesOn`).

### Ledger, Circuits, SubArray, Mat and BankCosts

What `CalculateLatency` and `CalculatePower` of the classes add up. The sizes of the
terms are physics; that each term is there, once, in the right total and with the
right factor is not. An energy or a leakage is therefore an *amount*: how often it
counts each part (`Ledger`), in units of `1/Unit`, because some energies are
divided by the associativity. A latency is a sum of maxima; it is the set of the ways
it may be spent, each an amount: `MAX` is the union of the sets, `+` lets every way
of the first go on with every way of the second. 1e41 is a part of its own,
`infinite`.

| Module | Code |
|---|---|
| `Circuits` | which costs a mux, sense amplifier, precharger, decoder, comparator and predecoder block has, and when it has none (a mux with one input, a block without address bits) |
| `SubArray` | `SubArray::CalculateLatency` and `CalculatePower`: the delays of bitlines, cells and pulses for each cell, sensing and write scheme |
| `Mat` | `Mat::CalculateLatency` and `CalculatePower`: predecoders, the comparator, active and idle subarrays |
| `BankCosts` | the same of `BankWithHtree` (levels of the tree) and `BankWithoutHtree` (bus; global bitlines with sense amplifiers behind a mux) and what they write if the bank is illegal |

### Evaluation and CacheSummary

One bank from its construction to the comparison of results, for the tag array and
then the data array of a cache or for a chip. `Explorer` takes the outcome of all
this as the table `physics`.

| Action | Code |
|---|---|
| `BankInitialize`, `MatBeforeSubArray` | `Initialize` of the two classes up to the call of the part's |
| `SubArrayLegality`, `SenseVoltage`, `DeriveCells` | `SubArray::Initialize`: legality tests, voltages to be sensed, resistances and voltages of the cell |
| `InitializeCircuit` | `Initialize` and `CalculateRC` of the next of nine circuits, in the order of the code (`Chain`) |
| `MatAfterSubArray`, `BankAfterMat` | the rest of `Initialize` of the mat and of the bank, which look at the flags of their part |
| `CalculateArea`, `CalculateRC`, `CalculateLatencyAndPower` | the three calls of `CALCULATE`; of an area only the test of the aspect ratio remains |
| `Keep`, `Drop` | the test of `invalid` in the loop of `main` |
| `PrintSummary` | `Result::printAsCache` (`CacheSummary`): hit, miss and write of the three access modes |

Which physical test an array fails is an input (`fail`); where the code decides by its
own fields (cell type, mux degrees, sensing) the guard is the code's. `written` is
the set of fields that have a value, `unset` collects those that were read before.
A test on a field that nobody wrote has either outcome (`Outcomes`). The flags
`initialized` and `invalid` are set where the code sets them, which is not the
same in all early returns: a row decoder that fails ends the initialisation without
`initialized`, a mux decoder or a sense amplifier that fails only leaves a note.

### CellFile, ProcessNode and Setup

`CellFile`: `ReadLine` is one iteration of `ReadCellFromFile`: an option sets its
field, some options set others too (`SideEffect`), and some are heeded only for
certain cells (`Demanded`), which the code decides with the type it has read so far.
`CalculatePower` is `SubArray::CalculatePower` of one bank as far as it changes the
global cell, by `CalculateWriteEnergy`. The six options of flash cells have the
same test and are one, `FlashEraseTime`.

`ProcessNode`: `main` from the construction of `tech` to the interpolation, and the
table that `Wire::Initialize` takes later. The three ladders of process nodes are
written down as in the three places of the code, one downwards, one by ranges and
one upwards. A table is named by its node; what is in it is not modelled. The weight
`alpha` is a fraction, its numerator and its denominator those of `main`.

`Setup` composes them: technology, cell file, wires, banks.

### Mutants

Mutants (definitions marked *Mutant*) are not part of the specification. Each is
a plausible slip in the code; replacing the definition that follows it makes the
property named in `PROJECT.json` fail.

## 4. Runs

| Run | Question | Outcome |
|---|---|---|
| `explorer` | are results genuine, optimal, within limits, of the right capacity; is the report sound; does the program end | holds |
| `explorer_no_solution` | does "No valid solutions." mean there is none | violated |
| `bank` | is every level of the tree written before it is read, do the wires reach all mats, do the bits come out even, do both routing modes build the same mats, does a rebuilt bank stay the same | holds |
| `bank_capacity` | "capacity violation. Shouldn't happen" (`macros.h`) for words or capacities that are not powers of two | violated |
| `decoding` | is every address bit of a mat decoded once, do the stages of the predecoders fit together, is each circuit sized for what it drives; has each inverter chain of the row decoders the stages, parity and sizes it needs, and does it carry the current | holds |
| `evaluation` | does an illegal part make the bank infinitely expensive, does each latency, energy and leakage count each circuit as often as it should, do printed parts add up, is nothing read before it is written, does a hit cover tags and data | holds |
| `evaluation_bitline` | "Bitline is too long" (`SubArray.cpp:207`): has a legal eDRAM bank a bitline that can be sensed | violated: `capBitline` is read before it is set |
| `evaluation_reset` | does the RESET energy contain the energy of resetting the cells, which `Result::print` lists as a part of it | violated |
| `space` | are the ranges restored, do the choices of the file hold, is the search complete and without repetition, do tag and data arrays agree on the index | holds |
| `wire` | is what is read of a wire computed from its present setting, has a sense amplifier one owner, is a penalised wire as fast as promised, does each choice of a repeater save | holds |
| `repeater_grid` | does the search try every spacing of its grid | violated: only the first |
| `setup` | do the three ladders of process nodes agree, and the weights with the tables, does an ordered cell file take effect, do all banks see the same write energies | holds, with the weights above 120 nm as a named exception |

**Bounds.** Two tag designs and three data designs, two wires for each role, two
targets, costs below 5 with `Worst` = 9, 8 x 23 tables: with invalid designs,
designs that do not divide the block, designs of the wrong capacity, one table
without any valid design, and two in which one design is valid and has an area just
below or above `Worst`, so that it is counted and not stored and the refinements
start from results that nobody wrote. Three designs let a best result be found,
replaced and kept; two wires let a refinement change a result and let the other
wire be stale; two targets let one result be updated by a trial that leaves the
other alone, and let one limit hide the optimum of the other metric. The theorems
below remove the bounds for all safety properties of this run.

`bank`: every tree of up to 8 x 8 mats with every number of active mats, so that
both kinds of unequal trees and the equal one occur with several levels each, and
every mixture of active and inactive levels; on 2 x 1 and 2 x 2 mats every
combination of up to 2 x 2 subarrays, three sets of mux degrees, 1, 2 and 8 rows
of a set, ways and cell types, which reaches every legality test from both sides.
Calls are those `main` makes: blocks too small for the active parts are skipped
and tags are padded. `RegularCallsAssumption` says what the theorems need of a call and
the run evaluates on its own: the loops of `main` double mats, subarrays, active parts,
mux degrees and rows of a set from 1, and `applyConstraint` refuses an associativity
that is no power of two, and CAM (`main.cpp:496`, `InputParameter.cpp`). Capacity
and block may be any numbers, so banks that lose bits are included. The products of
counts, and the number of sets, are at most 2^`MaxLog` = 2^30, the largest power that the
code's `int` holds; the macros allow up to 512 x 512 mats and a mux degree of 2^24 for a
mat. Numbers that a file forces are outside (section 7).

`decoding`: every number of address bits up to 13, which with the halving and the
mux degrees gives every structure that blocks of up to 7 bits have, and 14 to 30
bits (`MaxAddressBit`, what `1 << _numAddressBit` can count) with one way, which
gives the structures up to the largest reachable block; four sets of mux degrees,
one to eight ways in one or several rows. `RequestsAssumption` says what main() and
the banks guarantee: the loops double the mux degrees and the rows of a set,
`main.cpp:496` refuses an associativity that is not a power of two, and a bank refuses
more rows of a set than ways. It bounds the product of the mux degrees and the ways by
2^`MaxLog`. Mux degrees that a file forces to other numbers are outside (section 7).

`space`: `FullMat` = 4, `FullMux` = 2, `ReducedMat` = 2, `ReducedMux` = 1 and
`TotalAddressBit` = 16 stand for 512, 256, 64, 64 and 48. The files fix memory and
mode in the header and have a few choices in several orders, among them forced
banks and mats before and after `-UseCactiAssumption`, the same option twice,
wires of every kind, and files that `applyConstraint` refuses. With 4 mats a loop
makes three steps and an inner loop is cut by an outer one in some of them; the
tag search has other limits than the data search, so a range that is not restored
is seen. Every file gives a capacity and a word width (`SizesAssumption`), which have
no default in the code. The file with 15 words in 4 ways has a capacity that is no whole
number of sets, for which `DataMatchesTags` promises less (section 7). The assumptions
bound the limits of the macros, the word width and the number of words by 2^`MaxLog` =
2^30, so that doublings and their logarithms stay in the `int` of the code; its own
limits are at most 512.

`evaluation`: three organisations (one mat without muxes; four mats, two of them
active, with muxes on both sides of the sense amplifiers; eight mats, with muxes
behind them only), so that every sum has a factor above 1 and every mux is there
and not there; routing by tree, by bus, and by bus with sense amplifiers outside;
every combination of cell, access device and sensing; chips and caches of all three
access modes with `Unit` = 4 ways, the associativity by which energies are divided;
and 17 failing tests with each routing, which reach every early return.

`wire`: two wire types, two kinds of repeaters and one stored result let a wire
be loaded with a setting that differs from its last one in each field; one sense
amplifier (`MaxAmp`) is enough for it to be copied, lost, or deleted by one of two owners.
`LastSpacing` = 2 and `MaxSize` = 2 give each loop three iterations, so
that a repeater can be found, replaced and lost; one wire type has two sizes to try
or none (`lastSize` = -1), and the tables have delays that grow and costs that fall
and rise again. The theorems remove these bounds.
`repeater_grid` has the penalties 5, 20 and 50 of the code and a larger set of tables.

Drivers in `decoding`: `Unit` = 4 resolves the factor 4 between stages to its fourth
root; `MaxNmosSize` = 12 is 64 times the minimum, so that loads are below, at and far
above what the largest last stage drives, and `MaxInvChainLen` is that of the code.
Gates are no wider than the maximum (`DriverAssumption`), as in all calls, and all
calls ask for an odd number of inversions (`InversionAssumption`). `LoadAssumption`
says that no chain of the best length is longer than the arrays of 20 stages: with
factors of 4 the largest load would be 4^19 minimal gates.

`setup`: four or five options of a cell file in every order reach each dependence
between two lines; the combinations of modes, voltages, energies and resistances
reach each branch of `CalculateWriteEnergy` for both energies. `MaxBanks` = 2 is the
least that lets a bank see what another has left. Every process node from 15 nm to
210 nm reaches every branch with its two ends and nodes outside of the ladder. The
files are read at one node and the nodes are visited with one file (`Inputs`),
because neither part looks at the other (`SetupReadsCell` and
`SetupInitializesTechnology` prove it).

**Fairness.** `main` is one thread that never blocks, so weak fairness of `Next`
(an enabled step is eventually taken) is what any operating system gives it.
`Terminates` (`Explorer`) uses it. `BankHtree` assumes it
of the steps of `Initialize` and `CalculateArea` (`Route`, `Measure`), used by
`AlwaysEnds`, and not of `Rebuild`: nobody has to refine a bank.

## 5. Theorems

`ExplorerProofs`, for every number of designs, every set of wires and
targets, every circuit model and every configuration; the assumptions are the
ones on the constants in `Result` and `Explorer` (ranges are sequences of wires,
the basic wires are wires, 1e41 is a number).

* `ExplorerInvariant`: `Spec => []ExplorerInv`. The invariant is a conjunction of
  `TypeOK`, `Located` (the searches run with the basic wires), `AllWritten` (the
  organisation and wires of a result are written together), `BestIsGenuine`,
  `BestIsOptimal` and `BestWasOffered`; the run `explorer` checks the two in the
  middle. `Located` and `AllWritten` are the
  strengthening: without them a refinement step could evaluate an organisation
  or load a wire outside the space, and genuineness would not be inductive.
* `TypeCorrect`, `ResultsAreGenuine`, `ResultsAreOptimal`: its parts.
* `ResultsOnlyImprove`: the action property `OnlyImproves`. No run checks it
  separately: it follows from the refinement.
* `ExplorerKeepsBest`: `Spec => KeeperRefinement`.

The argument: `StepKinds` shows that every step leaves the results alone,
compares all results of one array with evaluations of that array (`Records`), or
is the reset of the data results. The statements about results are proved once
for each kind (`RecordPreserves`, `ResetPreserves`), the statements about control
once for each action (`ControlStep`).

The other safety properties of the run `explorer`, under the same assumptions. Each
has an inductive invariant beside `ExplorerInv`:

* `SearchesAreExhaustive`, `ReportsConstrainedOptimum`: `SearchedInv`. Of the
  organisations before the cursor, those that the search accepts have been compared
  with every result of their array, so that none of them beats a result; a
  refinement or a comparison only improves a result. When the cursor is behind the
  last organisation, this is the whole space.
* `ResultsFit`, `ReportsAreSound`: `SoundInv`. `FoundInv` says that, if metrics of
  valid banks are finite (`FiniteCosts`), a counted organisation is stored in every
  result, so that the refinements read only what was written and evaluate only
  organisations whose capacity was verified; `CounterInv` relates the counter of
  solutions to the rows of the csv file.
* `GlobalWiresAreStationary`: `SettledInv`. During the refinement of global wires,
  no wire tried so far would improve a result for its target. An iteration compares a
  result only with its own organisation and local wire under the next global wire,
  so it keeps both and can only lower the cost. It needs `FoundInv`: with unwritten
  results in place, organisation and local wire could be anything, which is why the
  theorem assumes `FiniteCosts`. The run `explorer` checks it without.

`CommonProofs` has what several proofs need. The library states induction with an
operator as a parameter, which the provers cannot instantiate; `NaturalInduction` and
`FoldInduction` state it with a set of numbers, or of sets, in the operator's place, and
rest on the least element of a set of naturals (`LeastNatural`). `FoldExists` gives the
function by which `MapThenFoldSet` is defined. The lemmas about powers of two and `Log2`
are about bounded exponents (`MaxLog` in `Bits`, `MaxPower` for products): the provers
evaluate the cases. `LogIsLog` and `OneLog` say between which powers a number lies;
`LogOfQuotient` and `LogOfProduct`, that the truncated logarithm does not see a common
factor of capacity and block, and takes a power of two as a summand. The lemmas about mux degrees serve the bank and the decoders.

`BankHtreeProofs`, for every set of calls whose numbers of mats have a logarithm
(`CallsAssumption`):

* `TreeIsWritten`: `Spec => []LevelsWrittenInOrder`. The inductive invariant
  `LevelsInv` says, for each place of the routing, how the counters `h` and `v`
  relate to the two depths: at most one of the trees is ahead, the other has not
  begun unless they are level, and in the loop for both, the horizontal half
  comes first. Without these relations the cell a level is computed from,
  `levelVertical - v - 1` or `levelHorizontal - h - 1`, could lie outside its
  array.

and for regular calls (`RegularCallsAssumption`; see the bounds in section 4). Each
theorem adds a part to the invariant `BankInv`, or to `LevelsInv`:

* `BundlesAreShared`: `Spec => []LoadsAreShared`. `ArgsInv` says that `call` is regular
  and that `bank` and the active parts are what `Begin` made of it. `LoadsInv` says
  of every place of the routing that the bits left, the wires side by side and the
  rows and columns still to be activated are what the levels done make of the call
  (`RoutedFor`), that every level written is balanced, the number of bundles being the
  active ones times two to the address bits gone (`AllBalanced`), and that a new level
  halves the level above it on its path (`Feeds`, `InTurn`). `SplitRouted` is one split.
* `RoutesLikeTheBus`: `Spec => []SameAsBus`. The tree counts bits down, the bus divides.
  When the levels are done, the bits that are gone are the logarithms of the mats and
  of the active mats (`RoutedBits`, `InactiveBits`), so the rest is what the bus keeps
  (`RoutedMat`). The other direction, that a tree gives up only when the bus is
  illegal, is `GivenUp`: too few address bits for the inactive mats leave a bank
  without rows to address (`StarvedBank`), or a mat (`StarvedMat`).
* `RebuiltAlike`: `Spec => []RebuildsSameBank`. `MatInv` says that the mat is that of the
  bus for the present call; `AgreeingBanks` says that the stored fields and the
  arguments they came from give the same mat, because the mux degrees are put back and
  active parts are cut to what there is in both.
* `EvenCallsAreFull`: `Spec => []EvenCallsFit`. `BitsOfMat` counts the cells of a legal mat,
  `EvenShares` carries the even division through the ways, rows, mux degrees and active
  parts.  Two logarithms are truncated and later raised to a power again; `LogOfRatio`
  says that nothing is lost when what they count is a power of two.
* `WiresSpanTheBank`: `Spec => []WiresReachTheMats`. `WidthsInv` says that every level has
  natural numbers of bits, so that a track has a width. `LengthsInv` says that the
  lengths already computed, from the leaves up, span two to the levels below them
  (`Spans`), exactly when tracks take no room.

`SearchSpaceProofs`, for every set of files and all limits of the macros
(`LimitsAssumption`, `FilesAssumption`, `SizesAssumption`):

* `SearchRangesRestored`: `Spec => []RangesRestored`. The inductive invariant
  `ReadingInv` says that the record of the first reading begins with restored
  ranges and follows the lines of the file (`RecordFollowsFile`), that during the
  first reading the ranges are the last recorded ones, and that only the first
  pass searches tags. The two lemmas that carry it: `RestoredAgrees`, the macro
  gives the same ranges whatever they were, and `LineAgrees`, what a line does
  depends on nothing but ranges that agree already (`-UseCactiAssumption` reads
  one).
* `SearchKeepsChoices`: `Spec => []ChoicesHold`. The inductive invariant `SearchInv`
  says that the ranges are what the last reading and the cuts of the present search
  leave of the file (`FileIsRead`, `ChoicesKept`), that the ways of a set are counted
  by the right associativity (`WaysAreCounted`), and that an organisation under
  trial lies in the ranges of its loops (`RangesInOrder`, `PointsInRange`); the
  property says what this means for each choice of the file.
* `SearchPointsIncrease`: `Spec => PointsIncrease`: in a search, each organisation is
  later than the one before in the order of the thirteen loops. With the order
  being total, none is tried twice. `NextPointIsLater` is the argument: the innermost
  loop that can step does, the loops outside stay, those inside begin again.
* `SearchesEverything`: `Spec => []SearchIsComplete`: each search tries every
  organisation of its ranges exactly once. The loops are thirteen, and starts and ends of
  four of them depend on others, so the number of iterations is not a product of their
  lengths. The invariant `CountInv` says that the iterations so far are as many as
  the organisations of the ranges (`Points`) before the present one. It is inductive
  because nothing lies between an organisation and the next (`NextIsNext`), before the
  first (`FirstIsFirst`) or after the last (`LastIsLast`); these rest on `ValuesInOrder`
  (a loop is never empty, and its values are in order) and `SameValues` (they depend
  on outer loops only). `PointsFillGrid` is a bijection between the organisations and
  the product the property is about. The ranges must be bounded (`IsBounded`): doubling
  passes every value up to 2^`MaxLog`.
* `TagsMatchData`: `Spec => []DataMatchesTags`. `SizedInv` says that capacity and word
  width are those of a line of the file and that the ways are a power of two once
  `applyConstraint` has passed them. `Padded` is the arithmetic of a padded tag,
  `WholeSets` finds the number of sets in the capacity; that the address bits of the
  tag bank, computed from a capacity that contains the padding, are the index bits is
  `LogOfQuotient`, and that those of a sequential data bank have the way added is
  `LogOfProduct`. The property has two guards: `HasTags`, a cache whose tags are longer
  than 0 bits, and `HasWholeSets`, without which it is false (section 7).

`FilesAssumption` asks of a file that it is finite, that a line has a known option
with values of its type, and that a forced number is not 0. A 0 makes the code
loop or divide by zero while it reads the file (section 7).

`WireProofs`, for every set of wire types, repeaters and results:

* `WiresAreCurrent`: `Spec => []ReadsAreCurrent`, which is inductive with the types
  of the settings: every assignment copies the setting with what was computed
  from it.
* `AmpsOwnedOnce`: `Spec => []OwnedOnce`. The invariant `WireInv` adds that only the
  global wire ever owns a sense amplifier, because `operator=` does not copy it, and
  that the one it owns has been allocated and not deleted; without this, an
  allocation could meet a number that a copy already has.

and for the composition with the search for repeaters, for every table of positive
delays, energies and leakages:

* `ComposedIsWire`: `RepeatersSpec` implements `Spec` of `Wire`: the search is a
  stutter of the wire, and a wire is used only between searches.
* `ComposedWithinPenalty`, `ComposedCostFalls`: the invariant `ComposedInv` says that
  the search variables are at rest between two calls and satisfy `SearchInv` during one:
  the target is always a repeater that is fast enough (the optimum is). The setting of
  the wire, and with it the table, does not change while a search runs.
  `SumBoundsProduct`: if the sum of two ratios is less than 2, their product is less
  than 1.

`EvaluationProofs`, for all arrays of every call (`CallsAssumption`):

* `InitializedInOrder`: `Spec => []NothingUnsetIsRead`. The inductive invariant
  `ReadInv` says for each phase what is written: the fields of the cell before the
  first circuit, every circuit before the present one that the subarray has
  (`IsDone`: unless it is refused, or the sense amplifier is not inside), all of
  them when a subarray, a mat or a bank is legal. `LoadsAreWritten` and
  `UsedIsWritten` are the two lemmas that compare this with what `Initialize`, and
  latency and power, read. The invariant needs the flags: that latency and power
  read a circuit only if it was initialised follows from the way `invalid` travels
  upwards.

* `RefusedAreInfinite`: `Spec => []RefusedIsInfinite`. The inductive invariant `RefuseInv`
  follows the flags `initialized` and `invalid` through the early returns of the three
  classes; `CircuitEffect` says what each circuit may do to them. That no 1e41 gets
  into a legal bank is a statement about all terms of its sums: the routing is spent in
  routing (`RoutingCosts`), the mat in anything but 1e41 (`MatTime`).

* `AllCircuitsLeak`: `Spec => []EverythingLeaks`. The invariant `CostInv` says that a
  legal bank, and each bank kept before it, has the costs of the three classes
  (`IsCosted`), and that the bank is its mats and something of the routing
  (`IsRouted`). The sums over circuits are folds: `SumFolds`, `CountFolds`,
  `LatestFolds` and `AllFold` say by induction over the set what a fold adds, counts or
  joins. `CircuitLeaks`, `SubArrayLeakage` and `MatLeaks` count a circuit on its way up.

* `BanksAddUp`: `Spec => []PartsAddUp`, from `CostInv`. Two kinds of sets carry it:
  `Charged(S)`, the amounts that are never negative and charge parts of S only, and
  `Spent(S)`, the latencies whose paths do so and are bounded; the lemmas `Charged...` and
  `Spent...` close them under the operations of `Ledger`. An energy is then easy, because a
  difference of amounts is the amount that was added (`RoutingLeft`, `OwnLeft`). A latency is
  a set of paths, and its difference contains every amount that leads from the paths of
  the mat to paths of the bank (`Without`). Such an amount need not be one that was added.
  Outside the routing it maps the paths of the mat into themselves, and as they are bounded
  it is 0 there (`LatencyLeft`, `NoStepInBounds`).

* `ReadsPassAllCircuits`: `Spec => []ReadsAreWhole`. `ColumnPaths`, `OutputPaths`,
  `SubArrayPaths`, `MatPaths` and `RoutePaths` say part by part what every path counts,
  `BankPaths` puts them together and `SoundReads` adds up. The classes disagree about
  what is refused: that a path has a predecoder, and that the bitline of eDRAM has
  no mux, holds only because `Mat::Initialize` refuses a mat without address bits and
  `SubArray::Initialize` an eDRAM subarray with a bitline mux. The invariant `PassedInv`
  carries this (`IsSound`) up to the evaluation.

* `WritesContainPulses`: `Spec => []WritesCoverPulses`, from `CostInv`. `PulsesCovered` says
  of the three latencies of a subarray that RESET and SET have their pulse at most once
  and are contained in the write; `PulsesBehind` says that it stays so when a latency
  without pulses is put in front of all three, as the mat and the bank do.

* `HitsContainReads`: `Spec => []HitCoversTagAndData`. `SummaryInv` says that the summary is
  that of the two banks kept. `Covers` is an order that sums respect (`CoversOnward`,
  `CoversLonger`, `CoversTogether`) as long as nothing is taken back (`Waits`). The way into
  a bank does take back the delay of the local bitline, but spends it under
  another name (`SharedBitline`, `RouteWaits`). In normal mode the latency of the way in
  and out is found again in the difference of two numbers (`NormalHit`).

The assumptions on the arrays are what the callers guarantee: numbers of parts are
natural, degrees are `int`, and a mat that `Mat.cpp:93` lets pass has an address bit.

`SetupProofs`, for all process nodes and cell files (`NodesAssumption`; the
`FilesAssumption` of `CellFile`: finite files of known options):

* `SetupReadsCell`, `SetupInitializesTechnology`: `SetupSpec` implements the
  specifications of the two parts. What is proved of a part alone therefore holds of
  the whole.
* `AllLaddersAgree`: `SetupSpec => []LaddersAgree`. The invariant `LadderInv` says of
  each stage which tables have been chosen; `TableBelow`, `BranchIsUsual` and the
  lemmas after them compare the three ladders with the largest usual node below, and
  the smallest above, the node of the file. Between two tables the property says of
  the weight that it is in proportion (`IsWeighted`) exactly below 120 nm and leaves
  0 .. 1 (`LeavesTables`) exactly from 181 nm on; `BranchIsUsual` compares the
  differences that `main` divides by with those of its tables.
* `BanksAgree`: `SetupSpec => []BanksAgreeOnEnergy`. The first bank changes the cell
  that the second reads. The invariant `CellInv` says that while the file is read,
  the last line for a write energy is the one that counts, and that afterwards the
  energies are settled: given by the file, or what would be computed again from the
  cell as it now is (`EnergyComputedAgain`).
* `OrderedFilesTakeEffect`: `SetupSpec => []OrderedFileTakesEffect`. `EffectInv` says of
  every line before the cursor that it is in effect if it is meant for the cell; a
  line that was passed over for the type read so far would break it, which
  `IsOrdered` excludes.

`DecoderProofs`, for all mats of up to `MaxAddressBit` address bits
(`RequestsAssumption`), and all sizes, loads and currents of drivers
(`DriverAssumption`, `InversionAssumption`, `LoadAssumption`):

* `DecodesOnce`, `BlocksMultiply`, `LoadsFanOut`, `NandsAgree`: `DrivenSpec` implies
  `[]AddressDecodedOnce`, `[]LinesMultiply`, `[]LoadsAreFanOut` and
  `[]NandsMatchBlocks`. The invariant `DecodingInv` says that each role that had its turn
  has the blocks that `Block` builds for the halves of its bits, the others none.
  `EveryBlockFits` is about one block of up to `MaxBlockBits` bits: one lemma for each
  number of basic decoders, instead of one case for each number of bits.
  `RequestExponents` and `MuxExponents` find the exponents of the mux degrees, before and
  after the ways are spread over them, and `BitsOfRoles` says that the logarithm of their
  product is the sum of their logarithms; without that the row decoder would get a bit
  too many or too few.
* `ChainsDrive`: `DrivenSpec => []ChainDrives`. The invariant `DriverInv` adds that a
  driver under construction has passed the test of the minimum. `StagesFit` is the
  arithmetic of the number of stages, with which the correction of the parity still
  fits the arrays; `TaperGrows` says that the sizes from the last stage
  backwards form a chain. There is one lemma for each design.

Only model-checked: liveness (`Terminates`, `AlwaysEnds`), which needs fairness. Every
safety property of a passing run is stated by one of the theorems above.

## 6. Not modelled

Tables of device constants (`Technology.cpp`), closed formulas over doubles
(areas, resistances, Horowitz delays, energies) and the layout of the printed
text have no discrete behaviour to check (`ProcessNode` says which table is
taken, not what is in it); they enter `Explorer` as the arbitrary
tables `physics`, and elsewhere as the truth values `feasible` and `globalSenseFits`
and the failing test `fail` of a call. Areas are sums and maxima of widths and heights
that are chosen by size, so that an account of where they come from says little;
only the test of the aspect ratio is modelled. The copies made by `operator=` are
modelled where a copy is used again (`Wire`, the organisation in a `Result`,
`Rebuild`), not for the units inside a bank, which a stored result does not evaluate
again. Shifts beyond 31 bits are not modelled: no organisation of the ranges
reaches them. The temperature is an index into arrays of 101 currents and is
not validated; the models take it to be between 300 K and 400 K. The memory of a
sense amplifier that another replaces is never freed, which has no effect on the
results. Malformed configuration files are not modelled (see section 7). What is left
out of each component is in its note in `PROJECT.json`.

## 7. Observations without a run

The five runs with the outcome "violated" are in the table above. The following was
met while the modules were written, follows from a reading of the lines named,
and no run checks it.

* `main.cpp:460` reports `numSolution` as the "solutions in total", the counter of the
  first search, while the refinements write further rows to the file
  (`main.cpp:316-318`, `329-331`). `ReportIsSound` checks that there are at least as
  many rows.
* `main.cpp:388` prints the pruned results of a memory with the function for caches;
  the tag results were never updated, and `Result.cpp:809` reads a field of them
  that nobody wrote (`PrunedReports`).
* `main.cpp:188` divides in integers and takes the logarithm of the sets it gets; a bank
  (`BankWithHtree.cpp:169`) divides in `double`. If the capacity is no whole number of
  sets, the two logarithms may differ: 15 words in 4 ways have 3 sets and 1 index bit,
  and a tag bank of 3.75 sets with 2 address bits.
* `Mat.cpp:133-170` takes the logarithm of the product of the mux degrees from the bits
  of the row decoder, and one of each degree for its own decoder. For degrees that a
  file forces and that are not powers of two, these do not add up (two degrees of 3 have
  3 bits together and 1 each), and `AddressDecodedOnce` would not hold
  (`RequestsAssumption`).
* `Mat.cpp:133` subtracts mux degrees from the address bits of the row decoder that
  select a way and use no address bit. A mat with several ways can have more than 8
  rows and at most 3 row address bits; the gates of `RowDecoder.cpp:73` are then
  sized for two predecoder outputs although the second block has no bits.
  `NandsMatchBlocks` is about mats with one way.
* `BankWithHtree.cpp:169` and `:173` truncate logarithms. A number of mats, or of active
  mats, that a file forces and that is no power of two has fewer levels than mats, and
  the bank then serves fewer mats than it counts (`RegularCallsAssumption`).
* `Wire.h:82` says of the repeater fields "non-repeated wire = 0"; for a wire without
  repeaters nothing writes them. Nothing reads them either (`ReadsAreCurrent`).
* `Wire.cpp:653` adds latency, energy and leakage of a sense amplifier of which only
  `Initialize` and `CalculateRC` were called (`Wire.cpp:627-629`): they are 0.
* `MemCell.cpp:343` says that a capacitance "is ignored because the memory cell is not
  DRAM", but the type tested is the one read so far; `IsOrdered` in `CellFile` says
  which orders are safe.
* `sample_PCRAM.cell:17` gives `-ReadEnergy`, which `ReadCellFromFile` does not know.
* `MemCell.cpp:549` tests the reset voltage where the set energy is computed
  (`ByCurrent`): a cell that is reset by a voltage and set by a current has the set
  energy 0.
* `PredecodeBlock.cpp:363` adds the latency of `basicDecoderA1` to the delay of the
  path through `basicDecoderA2`.
* `Technology.cpp:1334` derives the dependent constants of an interpolated node
  again, but not `capOverlap`.
* `BankWithoutHtree.cpp:354-358` and `421-425` both add the latencies of the global
  bitline mux and sense amplifier of SRAM with external sensing; `ReadsAreWhole` has
  this case as an exception.
* `BankWithoutHtree.cpp:365-366` multiplies the read energy of global bitlines of SRAM
  by the ways and the write energy by the data bits. `BankWithoutHtree.cpp:335` charges
  only the active rows of a bus for wires, also for their leakage.
* `BankWithoutHtree.cpp:442` divides the energies of a fast-mode bank by the
  associativity, those of an illegal bank (1e41) and of tag banks included.
* `PredecodeBlock.cpp:445-448` adds the energy and leakage of the second stage of row
  decoders, whose `CalculatePower` is not called.
* `SubArray.cpp:310` leaves the access device of BJT cells open ("TO-DO"); latency and
  power read its fields. `NothingUnsetIsRead` has this as an exception.
* `Result::print` prints the RESET energy of a bank without an H-tree under "H-Tree",
  takes the parts of SET and RESET from the write energies, and lists the energy of
  the row decoder under both although only NAND flash contains it.
* `operator=` of `SubArray` omits `invalid` and the voltages of the cell, that of
  `OutputDriver` the arrays of widths, and that of `Mat` copies the comparator only for
  tags with internal sensing. Nothing reads the omitted fields of a copy.
* `main.cpp:101-103` interpolates over a range of 80 nm by a difference of 60: the
  weight is too large for every node above 120 nm, and from 181 nm to 199 nm it is
  above 1, so that the devices are extrapolated beyond the table of 200 nm.
  `LaddersAgree` states exactly this exception: repairing the line makes it fail.
* `InputParameter.cpp:133`: `fscanf` with `%[^\n]` does not get past an empty first line,
  and a forced number of 0 mats is doubled for ever.
* A valid bank with a metric at or above 1e41 is counted and not stored; the
  refinements then evaluate organisations nobody wrote (`CrashOnUnset`).
