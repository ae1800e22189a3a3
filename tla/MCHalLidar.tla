---------------------------------- MODULE MCHalLidar ----------------------------------
(* The instance of HalLidar that TLC checks: a second thread for the start after a stop; *)
(* a read is empty of valid points, short, longer than a rotation, holds the marker, or  *)
(* holds a distance whose conversion overflows to 0.                                     *)
EXTENDS HalLidar

MCReads == {<<0>>, <<1>>, <<2, 0, 2, 3>>, <<16384, Marker, 16384, 3>>}
=======================================================================================
