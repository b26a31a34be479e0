----------------------------- MODULE MCAsyncApi -----------------------------
(* Instances of AsyncApi for TLC.                                          *)
EXTENDS AsyncApi

MCStartSize == <<2, 2>>
MCMinSize == <<1, 1>>
MCRenderSize == {<<2, 2>>, <<3, 3>>}
=============================================================================
