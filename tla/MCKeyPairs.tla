----------------------------- MODULE MCKeyPairs -----------------------------
(* Two browsers, one with a passkey that has a PRF output and two tabs.    *)
EXTENDS KeyPairs, TLC

CONSTANTS laptop, phone, t1, t2, t3

TabsDef == {t1, t2, t3}
BrowsersDef == {laptop, phone}
BrowserOfDef == t1 :> laptop @@ t2 :> laptop @@ t3 :> phone
PrfDef == {laptop}
=============================================================================
