-------------------------------- MODULE MCDelta --------------------------------
(* Small instances of DeltaUpdate. *)
EXTENDS DeltaUpdate

MCSize == [v \in Versions |-> CASE v = Base -> 4 [] v = Target -> 2 [] OTHER -> 1]

\* Base images of four sectors and smaller new ones of two.  Between them the
\* patches have blocks that cross a buffer and a sector, blocks of the new
\* image itself, escaped bytes, and a block whose offset would read as ESC.
MCBase ==
  {<<1, 3, 5, 7, 8, 9,  10, 11, 3, 5, 7, 8,  12, 6, 4, 3, 5, 7,  8, 9, 10, 12, 12, 5>>,
   <<1, 12, 12, 5, 12, 5,  2, 9, 8, 7, 5, 3,  6, 6, 6, 2, 9, 8,  7, 5, 3, 6, 6>>}
MCTarget ==
  {<<2, 3, 5, 7, 8, 9,  12, 6, 4, 3, 5, 7>>,
   <<2, 9, 8, 7, 5, 3,  10, 11, 3, 5, 7, 8>>,
   <<2, 12, 5, 8, 9, 10,  12, 12, 5, 3, 5>>}
MCPairs == {i \in [{Base, Target} -> MCBase \cup MCTarget] :
              i[Base] \in MCBase /\ i[Target] \in MCTarget}
================================================================================
