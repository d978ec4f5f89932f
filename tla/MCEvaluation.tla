---------------------------- MODULE MCEvaluation ----------------------------
(***************************************************************************)
(* Cells, organisations and failing tests for Evaluation.                  *)
(***************************************************************************)
EXTENDS Evaluation, TLC

Cell(type, access, sense, scheme) ==
  [cellType |-> type, accessType |-> access, readMode |-> sense # "current",
   voltageIn |-> sense = "voltageIn", writeScheme |-> scheme]

Senses == {"current", "currentIn", "voltageIn"}

\* The write scheme matters for crossbars and for PCRAM.
Schemes(type, access) ==
  CASE type = "PCRAM" /\ access = "BJT_access" -> "write_and_verify"
    [] access = "diode_access" -> "erase_before_set"
    [] OTHER -> "normal_write"

ChargedCells ==
  {Cell(t, "CMOS_access", "currentIn", "normal_write") : t \in {"SRAM", "eDRAM", "SLCNAND"}}
ResistiveCells ==
  {Cell("FBRAM", "CMOS_access", s, "normal_write") : s \in Senses}
    \cup {Cell(t, access, s, Schemes(t, access)) :
            t \in {"MRAM", "PCRAM", "memristor"}, s \in Senses,
            access \in {"CMOS_access", "BJT_access", "diode_access", "none_access"}}

\* One of each kind of cell, and of each sensing.
TypicalCells ==
  ChargedCells
    \cup {Cell("PCRAM", "CMOS_access", "current", "normal_write"),
          Cell("FBRAM", "CMOS_access", "currentIn", "normal_write"),
          Cell("memristor", "diode_access", "voltageIn", "erase_before_set")}

Organisation(rowBits, mux, subarrays, rows, columns, addressBits, levels) ==
  [rowBits |-> rowBits,
   muxBits |-> [bitlineMux |-> mux[1], senseAmpMuxLev1 |-> mux[2], senseAmpMuxLev2 |-> mux[3]],
   subarrays |-> subarrays[1], activeSubarrays |-> subarrays[2],
   numRowMat |-> rows[1], numActiveMatPerColumn |-> rows[2],
   numColumnMat |-> columns[1], numActiveMatPerRow |-> columns[2],
   addressBits |-> addressBits, dataBits |-> 4, levels |-> levels]

\* One mat without muxes; four mats, two of them active, with muxes in front of and
\* behind the sense amplifiers; and eight mats with muxes behind them only.
Small == Organisation(2, <<0, 0, 0>>, <<1, 1>>, <<1, 1>>, <<1, 1>>, 2, <<>>)
Large == Organisation(5, <<1, 4, 0>>, <<4, 2>>, <<2, 1>>, <<2, 2>>, 10,
           <<[bits |-> 14, active |-> 1, sum |-> 1], [bits |-> 12, active |-> 2, sum |-> 2]>>)
Tall == Organisation(4, <<0, 1, 2>>, <<2, 2>>, <<4, 2>>, <<2, 1>>, 7,
          <<[bits |-> 11, active |-> 1, sum |-> 1], [bits |-> 9, active |-> 2, sum |-> 2],
            [bits |-> 8, active |-> 2, sum |-> 4]>>)

Routing(tree, internal, repeated) ==
  [tree |-> tree, internalSenseAmp |-> internal, repeatedGlobalWire |-> repeated]
Routings ==
  {Routing(TRUE, TRUE, TRUE), Routing(FALSE, TRUE, FALSE), Routing(FALSE, FALSE, FALSE)}
Unroutable == Routing(FALSE, FALSE, TRUE)

\* A cache has four ways; normal access is the only mode in which a data bank knows
\* of them.
Modes == {"normal", "fast", "sequential"}
ArrayOf(cell, shape, routing, mode, type, fail) ==
  cell @@ shape @@ routing @@
    [memoryType |-> type, cacheAccessMode |-> mode, fail |-> fail,
     associativity |-> IF mode = "none" THEN 1 ELSE Unit,
     numWay |-> CASE type = "tag" ->
                       Unit \div (shape.numActiveMatPerRow * shape.numActiveMatPerColumn)
                  [] mode = "normal" -> Unit
                  [] OTHER -> 1]

Ram(cell, shape, routing, fail) ==
  <<ArrayOf(cell, shape, routing, "none", "data", fail)>>
Cache(cell, shape, routing, mode, fail) ==
  <<ArrayOf(cell, shape, routing, mode, "tag", "none"),
    ArrayOf(cell, shape, routing, mode, "data", fail)>>

Failures ==
  {"bankPartition", "matPartition", "fewColumns", "fewRows", "bitlineLeakage",
   "wordlineDriver", "bitlineMuxWidth", "bitlineTooLong", "noPrecharge", "rowDecoder",
   "bitlineMuxDecoder", "senseAmpMuxLev1Decoder", "senseAmpMuxLev2Decoder", "senseAmp",
   "rowBits", "globalSenseAmp", "aspectRatio"}

\* Every cell as a RAM chip; caches of all modes; and every failure, with routing
\* that the bank refuses among it.
MCCalls ==
  {Ram(c, s, r, "none") :
     c \in ChargedCells \cup ResistiveCells, s \in {Small, Large, Tall}, r \in Routings}
    \cup {Cache(c, s, r, m, "none") :
            c \in TypicalCells, s \in {Large, Tall}, r \in Routings, m \in Modes}
    \cup {Ram(c, s, r, f) :
            c \in TypicalCells, s \in {Large, Tall}, r \in Routings \cup {Unroutable},
            f \in Failures}
    \cup {Cache(c, Large, r, "fast", "fewColumns") : c \in TypicalCells, r \in Routings}
=============================================================================
