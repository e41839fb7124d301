--------------------------- MODULE MCInterconnect ----------------------------
(* ArxInterconnect with one word in each region of the address map.          *)
EXTENDS ArxInterconnect

MCRoms    == {"rom"}
MCRams    == {"ram"}
MCBridges == {"avalon"}
MCBad     == {"bad"}
MCCells   == {0}
MCValue   == {0, 1}
MCOnes    == 1
=============================================================================
