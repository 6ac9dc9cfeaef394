------------------------------ MODULE MCLayers ------------------------------
(* Values of Layers' constants that are sequences of bytes.                *)
EXTENDS Layers

MCMetas == {<<Byte(5)>>}

\* Of all lengths around one and two blocks, ending in zeros and in the byte
\* that begins the padding; the last fills pages.
MCTexts ==
  {<<>>, <<Stop>>, <<Byte(0)>>, <<Byte(0), Byte(0)>>, <<Stop, Byte(0)>>,
   <<Byte(3), Byte(4), Stop>>, <<Byte(9), Byte(4), Stop>>, <<Byte(3), Byte(4), Byte(0), Byte(1)>>,
   <<Byte(1), Byte(2), Byte(3), Byte(4), Byte(5), Byte(6), Byte(7)>>}
MCCalls == 1 .. 330
=============================================================================
