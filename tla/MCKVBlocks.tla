---------------------------- MODULE MCKVBlocks ----------------------------
(* Instances of KVBlocks for TLC: a pool of four blocks of two tokens.      *)
EXTENDS KVBlocks, TLC

CONSTANTS ka, kb, kc, kx,      \* keys
          r1, r2, r3       \* requests

\* r1 and r2 share the prefix ka, kb; r2 goes on with kc, the key of r1's output
\* block; r3 shares ka only and ends in a partial block.
MCKeys == {ka, kb, kc, kx}
MCReqs == {r1, r2, r3}
MCPrefillLen == r1 :> 4 @@ r2 :> 6 @@ r3 :> 5
MCDecodeLen == r1 :> 2 @@ r2 :> 1 @@ r3 :> 2
MCInputKeys == r1 :> <<ka, kb>> @@ r2 :> <<ka, kb, kc>> @@ r3 :> <<ka, kx>>
MCOutputKeys == r1 :> <<kc>> @@ r2 :> <<>> @@ r3 :> <<kc>>
=============================================================================
