--------------------------- MODULE MCParameterValues ---------------------------
(***************************************************************************)
(* Two threads and three parameters: 1 and 2 have the same ininame, as     *)
(* ModelName and ProductClass have in data.xml; 3 is kept by the device.   *)
(***************************************************************************)
EXTENDS ParameterValues

CONSTANTS ProductClass   \* the ininame they share
MCKey == <<ProductClass, ProductClass, NoKey>>
=============================================================================
