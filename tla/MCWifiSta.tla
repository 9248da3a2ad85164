------------------------------ MODULE MCWifiSta ------------------------------
(***************************************************************************)
(* Bounds for model checking WifiSta: the two bands of k_band_seq.         *)
(***************************************************************************)
EXTENDS WifiSta

MCBands == <<"5GHz", "2.4GHz">>
=============================================================================
