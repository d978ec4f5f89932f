--------------------------- MODULE MCSearchSpace ---------------------------
(***************************************************************************)
(* Small instances of SearchSpace: a header that fixes the memory, and a   *)
(* few lines of choices in every order.                                    *)
(***************************************************************************)
EXTENDS SearchSpace

Line(option, value) == [option |-> option, value |-> value]

Header(capacity, word) ==
  <<Line("Capacity", capacity), Line("WordWidth", word), Line("FlashPageSize", 64)>>
Cache(mode, ways) ==
  <<Line("CacheAccessMode", mode), Line("Associativity", ways)>>
Chip == <<Line("DesignTarget", "RAM"), Line("Associativity", 4)>>

\* Choices that keep a search short.
Bank == Line("ForceBank", <<4, 2, 1, 4>>)
Mat == Line("ForceMat", <<2, 2, 1, 2>>)
Cacti == Line("UseCactiAssumption", TRUE)
NoCacti == Line("UseCactiAssumption", FALSE)
Lev1 == Line("MuxOutputLev1", 2)
Lev2 == Line("MuxOutputLev2", 1)
Buffer == Line("AreaOptimizationLevel", 2)

Wires ==
  {<<Line("LocalWireType", 5), Line("GlobalWireRepeaterType", 7)>>,
   <<Line("GlobalWireType", 2), Line("IsLocalWireLowSwing", 1)>>,
   <<Line("LocalWireRepeaterType", 3), Line("IsLocalWireLowSwing", 1)>>,
   <<Line("IsGlobalWireLowSwing", 0), Line("LocalWireRepeaterType", 1)>>}

Orders ==
  {<<Bank, Mat, Lev1, Buffer>>, <<Bank, Cacti, Lev2>>, <<Cacti, Bank, Buffer>>,
   <<Mat, Cacti, Lev1, Lev2, Buffer>>, <<Cacti, Mat, Lev2, Buffer>>,
   <<Cacti, NoCacti, Lev2, Buffer>>, <<Mat, Lev1, Lev2>>}

\* Refused by applyConstraint.
Refused ==
  {<<Line("DesignTarget", "CAM")>>, <<Line("Associativity", 3)>>,
   <<Line("InternalSensing", FALSE)>>}
Allowed == <<Line("Routing", "non-H-tree"), Line("InternalSensing", FALSE)>>

MCFiles ==
  {Header(2048, 16) \o Cache(mode, 2) \o order :
     mode \in {"Normal", "Sequential", "Fast"}, order \in Orders}
    \cup {Header(1536, 8) \o Cache("Normal", 4) \o wires \o <<Bank, Mat, Lev1, Lev2>> :
            wires \in Wires}
    \cup {Header(240, 16) \o Cache("Normal", 4) \o <<Bank, Mat, Lev1, Lev2>>}
    \cup {Header(4096, 32) \o Chip \o order : order \in Orders}
    \cup {Header(2048, 16) \o lines \o <<Bank, Mat>> : lines \in Refused}
    \cup {Header(2048, 16) \o Chip \o Allowed
            \o <<Cacti, Lev1, Lev2, Line("Constrained", TRUE)>>}
=============================================================================
