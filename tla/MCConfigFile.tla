---------------------------- MODULE MCConfigFile ----------------------------
(* Five versions of a file with one to three entries, and main's own.      *)
EXTENDS ConfigFile

CONSTANTS ann, bob, test, p, q, long

users == {Anonymous, ann, bob, test, Empty}
texts == {Star, p, q, long, Empty}

entry(user, word) ==
  [user |-> user, pass |-> [form |-> "plain", text |-> word], fs |-> "os"]

digest(user, word) ==
  [user |-> user, pass |-> [form |-> "hashed", text |-> word], fs |-> "os"]

file(list) == [hash |-> TRUE, accesses |-> list]

saves ==
  {file(<<entry(ann, p), entry(bob, q)>>),
   file(<<entry(bob, q), entry(ann, p)>>),
   file(<<entry(ann, q)>>),
   file(<<entry(ann, p), entry(bob, long)>>),
   file(<<entry(Anonymous, Star), digest(bob, q), entry(ann, p)>>)}

default == [hash |-> FALSE, accesses |-> <<entry(test, p)>>]

=============================================================================
