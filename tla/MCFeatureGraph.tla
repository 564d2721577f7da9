--------------------------- MODULE MCFeatureGraph ---------------------------
\* Small registries for FeatureGraph.
EXTENDS FeatureGraph

CONSTANTS Listed,       \* refs a devcontainer.json may list
          MaxListed,    \* entries of a `features` map
          MaxDependsOn, \* dependsOn entries of one feature
          AfterRefs     \* refs an installsAfter may name, one at most

BoundedSeq(S, n) == UNION {[1 .. k -> S] : k \in 0 .. n}

MCListings == BoundedSeq(Listed, MaxListed)

\* depends_on is sorted; a tagless ref and its :latest form may both be there,
\* so a ref may repeat.
MCFeatureSpecs ==
    [dependsOn : {d \in BoundedSeq(Ref, MaxDependsOn) :
                      \A i \in 1 .. Len(d) - 1 : d[i] <= d[i + 1]},
     installsAfter : {{}} \cup {{r} : r \in AfterRefs}]
=============================================================================
