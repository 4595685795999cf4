------------------------------ MODULE MCScans ------------------------------
(* The handheld's queue by itself, for TLC.                                  *)
EXTENDS OfflineScans, TLC

TwoCodes   == {<<1, 2>>}
ThreeCodes == {<<1, 2, 2>>}
=============================================================================
