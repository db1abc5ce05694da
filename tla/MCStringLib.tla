---------------------------- MODULE MCStringLib ----------------------------
EXTENDS StringLib

MCContents == { m \in Memories : m[4] # 1 /\ m[5] = NUL }

(* Numbers in each base, with blanks, signs, prefixes and what ends them:  *)
(* ' ' 32, '+' 43, '-' 45, '0' 48, '1' 49, '9' 57, 'B' 66, 'a' 97, 'x' 120 *)
MCTexts ==
  { sign \o digits :
      sign \in {<<>>, <<32, 9>>, <<43>>, <<32, 45>>, <<45, 43>>},
      digits \in {<<>>, <<48>>, <<48, 120>>, <<49, 57>>, <<48, 49, 49>>, <<48, 120, 66>>,
                  <<97, 48>>, <<49, 120>>} }
MCFills == {-1, 5}
=============================================================================
