------------------------- MODULE MCParameterMapping -------------------------
(* Values of the constants of ParameterMapping: a client with three bytes  *)
(* of memory, and every kind of parameter, null or not, of size 0 to 2.    *)
EXTENDS ParameterMapping

MCBytes == 1..3

MCArg ==
  {[type |-> "VL", ulParameter |-> 0, dwMaxBufferSize |-> 0],
   [type |-> "PT_NO_MAP", ulParameter |-> 0, dwMaxBufferSize |-> 1]}
  \cup [type : {"PT"}, ulParameter : {0, 1, 2}, dwMaxBufferSize : {0, 1, 2}]
=============================================================================
