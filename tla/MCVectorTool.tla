---------------------------- MODULE MCVectorTool ----------------------------
(***************************************************************************)
(* Small instance of VectorTool: hashes of three bits, all of them for the *)
(* replay TV-008 refers to; scratches of two units, all ways for a round   *)
(* to read and write them; items that differ and items that coincide.      *)
(***************************************************************************)
EXTENDS VectorTool

MCUnits == {0, 1}
MCRounds ==
  [read0 : MCUnits, read1 : MCUnits, write : MCUnits,
   items : {<<"0", "17", "0">>, <<"17", "half", "last">>}]
MCOther == <<0, 1, 0>>
MCPowHashes == {[n \in 1 .. 5 |-> IF n = 1 THEN h ELSE MCOther] : h \in [1 .. 3 -> {0, 1}]}
=============================================================================
