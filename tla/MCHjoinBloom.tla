----------------------------- MODULE MCHjoinBloom -----------------------------
(* Constants of the HjoinBloom run.                                          *)
EXTENDS HjoinBloom, TLC

CONSTANTS key1, key2, key3, key5,   \* keys in the common domain
          first1, first2, first3,   \* first-input rows: key1, key2, NULL
          val_a,            \* second-input value of key1
          val_c,            \* of another domain, stored as val_a
          val_n,            \* NULL
          val_z,            \* a key the first input does not have
          val_y             \* another one, whose hash is key1's

MCFirstInputs == {{}, {first1}, {first1, first3}, {first1, first2, first3}}
MCSecondVals == {val_a, val_c, val_n, val_z, val_y}
MCInDomain == {val_a, val_n, val_z, val_y}
MCStore == (val_a :> val_a) @@ (val_c :> val_a) @@ (val_n :> val_n) @@ (val_z :> val_z) @@ (val_y :> val_y)
MCKeyOf == (first1 :> key1) @@ (first2 :> key2) @@ (first3 :> NullKey)
           @@ (val_a :> key1) @@ (val_c :> key3) @@ (val_n :> NullKey) @@ (val_z :> key3)
           @@ (val_y :> key5)
MCHashOf == (key1 :> 1) @@ (key2 :> 2) @@ (key3 :> 3) @@ (key5 :> 1)

WorkerSymmetry == Permutations(Workers)

==============================================================================
