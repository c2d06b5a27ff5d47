--------------------------- MODULE MCRawExecRelay ---------------------------
(* Small instances of RawExecRelay for TLC.                                *)
EXTENDS RawExecRelay

(* Three bytes of mail through pipes of two: the first write is short.     *)
MCMailSize == 3
MCPipeSize == 2

(* Two bytes of text fit; a fourth and fifth byte are discarded, one by    *)
(* one.                                                                    *)
MCBufferSize == 3
MCDiscardSize == 1
MCMaxOutput == 5

MCRelayTexts == {"", "output"}
=============================================================================
