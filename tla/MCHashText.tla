---------------------------- MODULE MCHashText ----------------------------
EXTENDS HashText

(* Texts and hashes of hashtextextended_test.go.                           *)
\* "a"
T1 ==
  <<97>>
\* "c"
T2 ==
  <<99>>
\* "abcdef"
T3 ==
  <<97, 98, 99, 100, 101, 102>>
\* "-32768-922337203685477580800"
T4 ==
  <<45, 51, 50, 55, 54, 56, 45, 57, 50, 50, 51, 51, 55, 50, 48, 51, 54, 56, 53, 52, 55, 55, 53, 56, 48, 56, 48, 48>>
\* "221e-451e+308"
T5 ==
  <<50, 50, 49, 101, 45, 52, 53, 49, 101, 43, 51, 48, 56>>
\* "32767922337203685477580700"
T6 ==
  <<51, 50, 55, 54, 55, 57, 50, 50, 51, 51, 55, 50, 48, 51, 54, 56, 53, 52, 55, 55, 53, 56, 48, 55, 48, 48>>

Seed(n) == <<Zero, Uint32(n)>>

MCVectors ==
     <<T1, Seed(42)>> :> <<<<24664, 24189>>, <<25218, 23031>>>>
  @@ <<T2, Seed(42)>> :> <<<<33198, 1364>>, <<62869, 16237>>>>
  @@ <<T1, Seed(0)>> :> <<<<12761, 19558>>, <<16403, 28849>>>>
  @@ <<T3, Seed(0)>> :> <<<<1033, 45311>>, <<38871, 57280>>>>
  @@ <<T4, Seed(0)>> :> <<<<36908, 17096>>, <<7581, 31776>>>>
  @@ <<T4, Seed(73)>> :> <<<<37534, 31155>>, <<31729, 3841>>>>
  @@ <<T5, Seed(0)>> :> <<<<52033, 39585>>, <<39027, 42839>>>>
  @@ <<T5, Seed(73)>> :> <<<<43194, 24943>>, <<9582, 61398>>>>
  @@ <<T6, Seed(73)>> :> <<<<56616, 60972>>, <<27747, 48091>>>>

\* The tests' seeds, and one that fills all 64 bits: -2.
MCSeeds == {Seed(0), Seed(42), Seed(73), <<<<65535, 65535>>, <<65535, 65534>>>>}

\* The bytes of the texts, and the largest.
MCBytes == UNION {{k[i] : i \in DOMAIN k} : k \in {T1, T2, T3, T4, T5, T6}} \cup {255}
=============================================================================
