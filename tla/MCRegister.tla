----------------------------- MODULE MCRegister -----------------------------
EXTENDS Register

\* Up to three variables of up to three elements, in every order of declaration.
MCDeclarations ==
  { d \in UNION {[1..n -> [name : Names, size : 0..3]] : n \in 0..3} :
      \A j, k \in DOMAIN d : d[j].name = d[k].name => j = k }
=============================================================================
