----------------------------- MODULE MCSlashKey -----------------------------
(* Bytes of four bits and integers of two bytes: the longest address with   *)
(* the longest amount just fits, or just does not.                          *)
EXTENDS SlashKey

MCValAddrs  == {<<1>>, <<15>>, <<2, 7>>, <<3, 3, 3>>, <<1, 2, 3, 4>>, <<7, 7, 7, 7, 7>>, <<1, 1, 1, 1, 1, 1, 1>>}
MCNumbers   == {0, 1, 17, 255}
MCAmounts   == {<<0>>, <<1>>, <<1, 0>>, <<2, 2, 2>>}
MCFractions == {<<0>>, <<0, 5>>}
=============================================================================
