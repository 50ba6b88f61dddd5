----------------------------- MODULE MCResolver -----------------------------
(***************************************************************************)
(* An instance of Resolver for TLC.  The answer sections give each of      *)
(* three names an alias, or none, and an address, or none, with the        *)
(* shortest time to live at any link of the chain; there are also two      *)
(* aliases for one name, more addresses than are kept, and an address on   *)
(* each side of the ends of the blocks.                                    *)
(***************************************************************************)
EXTENDS Resolver

MCName == {"q", "x", "y"}

Public == {<<8, 0, 0, 1>>, <<8, 0, 0, 2>>, <<9, 0, 0, 0>>}

A(name, addr, ttl) == [name |-> name, type |-> "A", addr |-> addr, target |-> name, ttl |-> ttl]

Alias(name, target, ttl) ==
  [name |-> name, type |-> "CNAME", addr |-> <<0, 0, 0, 0>>, target |-> target, ttl |-> ttl]

\* Of the aliases, by name, and of the addresses.
Ttls ==
  {<<[n \in MCName |-> CASE n = "q" -> 3 [] n = "x" -> 5 [] n = "y" -> 4], 9>>,
   <<[n \in MCName |-> CASE n = "q" -> 5 [] n = "x" -> 3 [] n = "y" -> 0], 4>>}

Chains ==
  {{Alias(n, to[n], t[1][n]) : n \in DOMAIN to} \cup {A(n, <<8, 0, 0, 1>>, t[2]) : n \in named} :
     to \in UNION {[d -> MCName] : d \in SUBSET MCName}, named \in SUBSET MCName, t \in Ttls}

Ends8 ==
  {<<a, 0, 0, 0>> : a \in {0, 1, 9, 10, 11, 126, 127, 128, 223, 224, 239, 240, 255}}
    \cup {<<a, 255, 255, 255>> : a \in {0, 9, 10, 126, 127, 223, 239, 255}}

Ends16 ==
  {<<100, b, 0, 0>> : b \in {63, 64, 127, 128}} \cup {<<169, b, 0, 0>> : b \in {253, 254, 255}}
    \cup {<<172, b, 0, 0>> : b \in {15, 16, 31, 32}} \cup {<<192, b, 0, 0>> : b \in {167, 168, 169}}
    \cup {<<198, b, 0, 0>> : b \in {17, 18, 19, 20}}

Ends24 ==
  {<<192, 0, c, 1>> : c \in 0 .. 3} \cup {<<192, 88, c, 1>> : c \in 98 .. 100}
    \cup {<<198, 51, c, 1>> : c \in 99 .. 101} \cup {<<203, 0, c, 1>> : c \in 112 .. 114}

MCAnswers ==
  Chains
    \cup {{A("q", a, 5) : a \in as} : as \in SUBSET (Public \cup {<<127, 0, 0, 1>>, <<10, 0, 0, 1>>})}
    \cup {{A("q", a, 5)} : a \in Ends8 \cup Ends16 \cup Ends24}
    \cup {{Alias("q", "x", 3), Alias("q", "y", 3), A("x", <<8, 0, 0, 1>>, 1)},
          {Alias("q", "x", 3), Alias("q", "x", 2), A("x", <<8, 0, 0, 1>>, 5)},
          {[A("q", <<8, 0, 0, 1>>, 5) EXCEPT !.type = "other"]}}

=============================================================================
