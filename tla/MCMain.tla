-------------------------------- MODULE MCMain --------------------------------
(* Limits below, in and above the range of two processors, and nan.         *)
EXTENDS Main

MCLimitArgs == {-1, 50, 201, NaN}
===============================================================================
