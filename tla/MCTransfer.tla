----------------------------- MODULE MCTransfer -----------------------------
(* Transfer on a file of a few bytes, with sizes scaled to match: the code  *)
(* has 512 <= 1024 <= 4096 < 64K < 1M for FloorIo, MinIo, DefIo, InitIo and *)
(* MaxIo.  Of the maxima 0 is not believed, 1 is replaced by DefIo, 3 is    *)
(* rounded down to 2, and 6 is above what was chosen: calls are of at most  *)
(* two bytes one way and four the other.                                    *)
EXTENDS Transfer

MCPowers == {1, 2, 4, 8}
MCInitIo == {4}

Maxima(r, w) == [rtpref |-> 1, rtmax |-> r, wtpref |-> 1, wtmax |-> w]
MCAnnounced ==
    UNION {{Maxima(3, m), Maxima(m, 3)} : m \in {0, 1, 6}}
=============================================================================
