------------------------- MODULE MCRoutingFavorites -------------------------
(* Two radios and a third node for TLC.                                    *)
EXTENDS RoutingFavoritesProps

CONSTANTS a, b, c
MCOrder == <<a, b, c>>

Hears(near, far, fav) == [seen |-> near \cup far, near |-> near, fav |-> fav]

\* a hears itself and b, and marks c, which it does not hear directly; b hears
\* nobody directly and marks a.
MCStarts == {a :> Hears({a, b}, {c}, {c}) @@ b :> Hears({}, {a, c}, {a})}
=============================================================================
