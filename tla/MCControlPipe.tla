--------------------------- MODULE MCControlPipe ---------------------------
(* Three requests: one given up, one that meets its late reply and one     *)
(* behind it; two lines fill the pipe.                                     *)
EXTENDS ControlPipe
=============================================================================
