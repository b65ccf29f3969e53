------------------------------- MODULE MCArq -------------------------------
(* Arq on small connections. *)
EXTENDS Arq

\* Packets of one block, and of two or three blocks, the last of them empty or not
OneBlock == [packs: {0}, exact: {FALSE}]
TwoBlocks == [packs: {1}, exact: {FALSE}]
Mixed == OneBlock \cup TwoBlocks
LongPackets == [packs: {1, 2}, exact: BOOLEAN]
=============================================================================
