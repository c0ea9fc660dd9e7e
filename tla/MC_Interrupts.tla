--------------------------- MODULE MC_Interrupts ---------------------------
(* The 60Hz thread and devices whose threads wait to be acknowledged.      *)
EXTENDS Interrupts

MCOrder  == <<"VIA", "ETHER", "AUDIO">>
MCAcking == {"ETHER", "AUDIO"}

MCOrderLive  == <<"VIA", "ETHER">>
MCAckingLive == {"ETHER"}
=============================================================================
