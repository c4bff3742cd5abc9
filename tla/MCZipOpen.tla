----------------------------- MODULE MCZipOpen ------------------------------
(* Names over "A", "a", "b" and "_": 95 lies between the codes of upper-    *)
(* and lower-case letters, so an order that forgets to fold is another one. *)
EXTENDS ZipOpen

MCChar == {65, 95, 97, 98}
MCLower == [c \in MCChar |-> IF c = 65 THEN 97 ELSE c]
MCNames == {<<65>>, <<97>>, <<95>>, <<97, 98>>}
=============================================================================
