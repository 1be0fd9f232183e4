------------------------------ MODULE MCCamera ------------------------------
(* Two controls that every capture resets and two that it leaves alone, one *)
(* of each with ioctls that may fail; callers who set up to three things,   *)
(* the same one twice, or one that was reset; values below 0.               *)
EXTENDS Camera
CONSTANTS gain, brightness, focus, zoom
FewPresets == {-1, 0, 1, 2}
Defaults == [c \in Controls |-> IF c = focus THEN 1 ELSE 0]
ResetFirst == <<gain, brightness>>
FewRequests ==
  {<< >>, <<<<focus, 2>>>>, <<<<"x", "left">>, <<focus, 0>>, <<"x", "right">>>>,
   <<<<focus, -1>>, <<"y", "top">>>>, <<<<zoom, 1>>>>,
   <<<<focus, 2>>, <<zoom, 1>>>>, <<<<focus, 2>>, <<focus, 0>>>>,
   <<<<brightness, 1>>, <<"y", "top">>>>, <<<<gain, 1>>, <<focus, 2>>>>}
=============================================================================
