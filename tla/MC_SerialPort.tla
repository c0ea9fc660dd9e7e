--------------------------- MODULE MC_SerialPort ---------------------------
(* One port with its two threads.                                          *)
EXTENDS SerialPort
=============================================================================
