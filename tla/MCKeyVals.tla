----------------------------- MODULE MCKeyVals -----------------------------
(* The texts and keys with which TLC checks KeyVals. *)
EXTENDS KeyVals

CONSTANTS np, r1, r2, dir, subdir, count, default, v1, v2, name

OtherKeys == {dir, subdir, count}

MCKeys == OtherKeys \cup {npname}

MCEndsWith == {<<subdir, dir>>}

Element(k, v) == [key |-> k, val |-> v]

\* The NP: up to three keys in any order; or one key without "::" among them.
NpTexts == {[i \in DOMAIN ks |-> Element(ks[i], default)] :
               ks \in {<<dir>>, <<dir, count>>, <<count, dir>>, <<dir, subdir, count>>,
                       <<subdir, count, dir>>}}
           \cup {<<Element(dir, NoVal), Element(count, default)>>}

\* A request: one or two elements, in any order or of the same key, the second also
\* without "::"; or three.
RequestTexts == {<<Element(subdir, v1)>>, <<Element(count, v1)>>,
                 <<Element(dir, v1), Element(count, NoVal)>>}
                \cup {<<Element(k, v1), Element(dir, v2)>> : k \in OtherKeys}
                \cup {<<Element(dir, v1), Element(l, v2)>> : l \in {subdir, count}}
                \cup {<<Element(dir, v1), Element(subdir, NoVal), Element(k, v2)>> :
                         k \in {subdir, count}}

\* Another request at the same time.
OtherTexts == {<<Element(count, v2)>>}

Named(texts) == {<<Element(npname, name)>> \o x : x \in texts}

MCTexts == [t \in {np, r1, r2} |-> Named(CASE t = np -> NpTexts
                                            [] t = r1 -> RequestTexts
                                            [] t = r2 -> OtherTexts)]
=============================================================================
