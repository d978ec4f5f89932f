---------------------------- MODULE CacheSummary ----------------------------
(***************************************************************************)
(* The metrics of a cache from its two banks: Result::printAsCache and,    *)
(* with the same formulas, Result::printAsCacheToCsvFile (Result.cpp).     *)
(* The parts of the tag array and of the data array are kept apart.        *)
(***************************************************************************)
EXTENDS BankCosts

Arrays == {"tag", "data"}

Both == INSTANCE Ledger WITH Parts <- Arrays \X Parts

\* An amount, or a latency, of one of the two arrays.
In(which, amount) ==
  [p \in Arrays \X Parts |-> IF p[1] = which THEN amount[p[2]] ELSE 0]
InAll(which, latency) == {In(which, path) : path \in latency}

\* Mutant: a hit in normal mode forgets the wires of the data array.
HitWithoutWires(mode, tagRead, dataRead, matRead, columnDecoder) ==
  CASE mode = "normal" -> Both!Then(Both!Later(tagRead, matRead), columnDecoder)
    [] mode = "fast" -> Both!Later(tagRead, dataRead)
    [] OTHER -> Both!Then(tagRead, dataRead)

\* Normal: "access tag and activate data row in parallel", then "add column decoder
\* latency after hit signal arrives" and the way in and out of the bank.  Fast:
\* all ways are read in parallel with the tags.  Sequential: one after the other.
CacheHitLatency(mode, tagRead, dataRead, matRead, columnDecoder) ==
  CASE mode = "normal" ->
         Both!Then(Both!Then(Both!Later(tagRead, matRead), columnDecoder),
                   Both!Without(dataRead, matRead))
    [] mode = "fast" -> Both!Later(tagRead, dataRead)
    [] OTHER -> Both!Then(tagRead, dataRead)

\* tag and data are evaluated banks, a is the data array.
PrintAsCache(a, tag, data) ==
  LET tagRead == InAll("tag", tag.bank.readLatency)
      dataRead == InAll("data", data.bank.readLatency)
      tagEnergy == In("tag", tag.bank.readDynamicEnergy)
      dataEnergy == In("data", data.bank.readDynamicEnergy)
  IN  [known |-> TRUE,
       missLatency |-> tagRead,
       hitLatency |-> CacheHitLatency(a.cacheAccessMode, tagRead, dataRead,
                        InAll("data", data.mat.readLatency),
                        InAll("data", ColumnDecoderLatency(a))),
       writeLatency |-> Both!Later(InAll("tag", tag.bank.writeLatency),
                                   InAll("data", data.bank.writeLatency)),
       hitEnergy |-> Both!Plus(tagEnergy, dataEnergy),
       missEnergy |-> IF a.cacheAccessMode \in {"normal", "fast"}
                      THEN Both!Plus(tagEnergy, dataEnergy) ELSE tagEnergy,
       writeEnergy |-> Both!Plus(In("tag", tag.bank.writeDynamicEnergy),
                                 In("data", data.bank.writeDynamicEnergy)),
       leakage |-> Both!Plus(In("tag", tag.bank.leakage), In("data", data.bank.leakage))]
=============================================================================
