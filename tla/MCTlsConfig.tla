---------------------------- MODULE MCTlsConfig ----------------------------
(* With and without a certificate, with each requirement and a mistyped    *)
(* one, and one that requires a certificate it does not name.              *)
EXTENDS TlsConfig

contents ==
  {[tls |-> TRUE,  tls_required |-> "ImplicitEncryption"],
   [tls |-> TRUE,  tls_required |-> "MandatoryEncryption"],
   [tls |-> TRUE,  tls_required |-> "mandatory"],
   [tls |-> FALSE, tls_required |-> "MandatoryEncryption"],
   [tls |-> FALSE, tls_required |-> ""]}

=============================================================================
