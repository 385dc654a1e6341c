----------------------------- MODULE MCCoinsList -----------------------------
(* CoinsList for TLC: two orders, one text, a few pages. *)
EXTENDS CoinsList

CONSTANTS marketCapDesc, volumeDesc, btc

MCTypeOfSort == {marketCapDesc, volumeDesc}
MCOneText == {btc}

=============================================================================
