----------------------- MODULE MCProviderCredentials ------------------------
(* Small instances of ProviderCredentials for TLC.                         *)
EXTENDS ProviderCredentials

CONSTANTS s1, s2

MCServer == {s1, s2}

\* s1 listens on loopback, s2 on other addresses too.
MCDiscovering == {s1}
=============================================================================
