------------------------------ MODULE MCSunSpec ------------------------------
EXTENDS SunSpec, SequencesExt

\* Devices of every asset: built as the map says; with the first or the last
\* model missing, one more, one that is not in the catalog, or in another
\* order; one length off by one; other scale factors; the base one lower; a
\* chain that does not end; and no marker.
Unknown == 802
ChainsOf(chain) ==
    {chain, Tail(chain), Front(chain), Append(chain, 701), <<Unknown>> \o chain, Reverse(chain)}
Built(chain, k0, delta) ==
    [k \in DOMAIN chain |->
        [id |-> chain[k],
         length |-> (IF chain[k] = Unknown THEN 3 ELSE Body(chain[k])) + IF k = k0 THEN delta ELSE 0]]
Device(a, models, base, tail, marker, w, set) ==
    [asset |-> a, base |-> base, tail |-> tail, marker |-> marker, models |-> models,
     sfs |-> [SfValues EXCEPT !.W_SF = w, !.WSet_SF = set, !.WMaxLimPct_SF = set]]
Plain(chain) == Built(chain, 0, 0)

DevicesOf(a) ==
    LET c == ASSETS[a].chain
    IN  {Device(a, Plain(c), MapBase, "end", Marker, w, set) : w \in {-1, 2}, set \in {-1, 0}}
          \cup {Device(a, Plain(chain), MapBase, "end", Marker, 2, 0) : chain \in ChainsOf(c)}
          \cup {Device(a, Built(c, k, d), MapBase, "end", Marker, 2, 0) : k \in DOMAIN c, d \in {-1, 1}}
          \cup {Device(a, Plain(chain), MapBase - 1, "end", Marker, 2, 0) : chain \in {c, Front(c)}}
          \cup {Device(a, Plain(c), MapBase, tail, Marker, 2, 0) : tail \in {"unmapped", "zeros"}}
          \cup {Device(a, Plain(c), MapBase, "end", <<0, 0>>, 2, 0)}
AsMapped(a) == Device(a, Plain(ASSETS[a].chain), MapBase, "end", Marker, 2, 0)

\* fload-01 and meter-01 have the layouts of pv-01 and pcc-01.
AsBuilt ==
    {AsMapped(a) : a \in DOMAIN ASSETS}
      \cup UNION {DevicesOf(a) : a \in {"bess-01", "pv-01", "pcc-01"}}

Lowest == -3
Sent == {-3000, -1, 4500, 500, 70, 1290000, 3000000}
=============================================================================
