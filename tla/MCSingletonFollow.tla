------------------------- MODULE MCSingletonFollow -------------------------
(* Small instances of SingletonFollow for TLC. *)
EXTENDS SingletonFollow

Block(tag, spends) == [tag |-> tag, spends |-> spends]

\* Two empty blocks that differ, a spend, and the melt.
SmallBlocks == {Block(0, <<>>), Block(1, <<>>), Block(0, <<"a">>), Block(0, <<Melt>>)}

\* One kind of empty block, a spend, the melt, and both in one block.
FewBlocks == {Block(0, <<>>), Block(0, <<"a">>), Block(0, <<"a", Melt>>), Block(0, <<Melt>>)}

\* The singleton has been spent once before the listener connects.
OneSpend == <<Block(0, <<"a">>)>>
=============================================================================
