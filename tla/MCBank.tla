------------------------------- MODULE MCBank -------------------------------
(***************************************************************************)
(* Small instances of BankHtree: every tree of up to 8 x 8 mats, and every *)
(* combination of ways, rows of a set, mux degrees, subarrays and cells on *)
(* a few trees.                                                            *)
(***************************************************************************)
EXTENDS BankHtree, TLC


\* Pairs of how many there are and how many of them are active.
Shares(counts) == {p \in counts \X counts : p[2] <= p[1]}

Organisation(rows, columns, subRows, subColumns, mux, rowPerSet) ==
  [numRowMat |-> rows[1], numActiveMatPerColumn |-> rows[2],
   numColumnMat |-> columns[1], numActiveMatPerRow |-> columns[2],
   numRowSubarray |-> subRows[1], numActiveSubarrayPerColumn |-> subRows[2],
   numColumnSubarray |-> subColumns[1], numActiveSubarrayPerRow |-> subColumns[2],
   muxSenseAmp |-> mux[1], muxOutputLev1 |-> mux[2], muxOutputLev2 |-> mux[3],
   numRowPerSet |-> rowPerSet]

\* An array is its type, its address bits, its block and its ways; its columns
\* must hold part of every way when ways > 0.
Memory(type, bits, block, ways, waysPerColumn) ==
  [memoryType |-> type, blockSize |-> block, associativity |-> ways,
   capacity |-> block * ways * 2 ^ bits, waysPerColumn |-> waysPerColumn]

Technology(cell, internal, feasible) ==
  [cellType |-> cell, internalSenseAmp |-> internal, feasible |-> feasible,
   pageCount |-> 4, repeatedGlobalWire |-> FALSE, globalSenseFits |-> TRUE]

Trees ==
  {Organisation(r, c, <<1, 1>>, <<2, 1>>, <<1, 1, 1>>, 1) :
     r \in Shares({1, 2, 4, 8}), c \in Shares({1, 2, 4, 8})}
TreeMemories ==
  {Memory("data", bits, block, 1, 0) : bits \in {3, 8}, block \in {4, 64}}
    \cup {Memory("tag", bits, 9, 4, 0) : bits \in {3, 8}}

Insides ==
  {Organisation(r, c, sr, sc, mux, rowPerSet) :
     r \in {<<2, 1>>}, c \in {<<1, 1>>, <<2, 2>>},
     sr \in Shares({1, 2}), sc \in Shares({1, 2}),
     mux \in {<<1, 1, 1>>, <<2, 1, 1>>, <<1, 2, 4>>}, rowPerSet \in {1, 2, 8}}
InsideMemories ==
  {Memory("data", bits, 16, ways, column) :
     bits \in {2, 6}, ways \in {1, 4, 8}, column \in {0, 8}}
    \cup {Memory("tag", 6, 12, ways, ways) : ways \in {1, 4}}
Technologies ==
  {Technology(cell, TRUE, TRUE) : cell \in {"SRAM", "eDRAM", "memristor", "SLCNAND"}}
    \cup {Technology("SRAM", TRUE, FALSE), Technology("MRAM", FALSE, TRUE)}

Join(organisations, memories, technologies) ==
  {o @@ m @@ t : o \in organisations, m \in memories, t \in technologies}

Actives(c) == ActiveMats(c) * ActivePerRow(c) * ActivePerColumn(c)

\* What main() does before it builds a bank: a block too small for the active
\* parts is skipped, and a tag is padded to a multiple of them.
Padded(c) ==
  LET block == ((c.blockSize + Actives(c) - 1) \div Actives(c)) * Actives(c)
  IN  IF c.memoryType = "tag"
      THEN [c EXCEPT !.blockSize = block, !.capacity = (@ \div c.blockSize) * block]
      ELSE c

\* A tag keeps a set in one row, and so does a data array read in normal mode;
\* with one way and waysPerColumn > 0 the mode is fast.
IsTried(c) ==
  /\ c.blockSize \div Actives(c) # 0
  /\ c.numRowPerSet > 1 =>
       c.memoryType = "data" /\ (c.waysPerColumn = 0 \/ c.associativity = 1)

MCCalls ==
  {Padded(c) : c \in {c \in
     Join(Trees, TreeMemories, {Technology("SRAM", TRUE, TRUE)})
       \cup Join(Insides, InsideMemories, Technologies) : IsTried(c)}}

\* A word of twelve bits, and a memory whose capacity is no power of two.
OddMemories ==
  {Memory("data", 6, 12, 1, 0), [Memory("data", 6, 16, 1, 0) EXCEPT !.capacity = 1536]}
OddCalls ==
  {c \in Join(Trees, OddMemories, {Technology("SRAM", TRUE, TRUE)}) : IsTried(c)}
=============================================================================
