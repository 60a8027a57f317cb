----------------------------- MODULE MCOidcCutover -----------------------------
(* OidcCutover for TLC: two control-plane nodes, two runs of the command.  *)
EXTENDS OidcCutover

\* A fresh install; the retired flag; half wired by hand.
MCFound == {{}, {"legacy"}, {"ttl"}}

===============================================================================
