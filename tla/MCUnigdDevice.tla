--------------------------- MODULE MCUnigdDevice ---------------------------
(* Instances of UnigdDevice for TLC: sizes cannot be written in a .cfg.    *)
EXTENDS UnigdDevice

MCStartSize == <<3, 2>>
MCMinSize == <<2, 1>>

\* Smaller than the margins, and larger.
MCRenderSize == {<<1, 2>>, <<3, 2>>}
=============================================================================
