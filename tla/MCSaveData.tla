----------------------------- MODULE MCSaveData -----------------------------
(* Two job slots and one end message: the scenes begin one operation at a  *)
(* time.                                                                   *)
EXTENDS SaveDataMgr
=============================================================================
