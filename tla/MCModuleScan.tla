-------------------------------- MODULE MCModuleScan --------------------------------
EXTENDS ModuleScan

(* Discovery and both scans ask for one module, 0x03                                    *)
MCDiscoveryRange == <<3>>
MCScanRange == <<3>>
=====================================================================================
