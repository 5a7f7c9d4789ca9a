--------------------------- MODULE MCTicketsWsaa ---------------------------
(* A small instance of TicketsWsaa (and with it of Certificados) for TLC.  *)
EXTENDS TicketsWsaa, TLC

CONSTANTS u1, u2,      \* uploads
          l1,          \* deletions and orphan cleanings, one at a time
          k1, k2,      \* private keys
          x1, x2,      \* certificates
          p1, p2       \* requests that need a ticket

\* Each certificate answers the CSR of its own key
Csr == x1 :> k1 @@ x2 :> k2

\* Uploads and requests are interchangeable; so are the keys,
\* together with the certificates that answer their CSR
Cambia(a, b) == a :> b @@ b :> a
Intercambio ==
    Permutations({u1, u2}) \cup Permutations({p1, p2})
        \cup {Cambia(k1, k2) @@ Cambia(x1, x2)}
=============================================================================
