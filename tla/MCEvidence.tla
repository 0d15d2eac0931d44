------------------------------ MODULE MCEvidence ------------------------------
(* Two statement endpoints and a profile; a fetch and a profile lookup share *)
(* one slot.  A record is plain, naming its year but no currency, or foreign:*)
(* of another year and currency, and without an amount it needs.  One sink of *)
(* two threads and the script store and prune three captures, of which one   *)
(* is to be kept.  Two valuations share loads of two calls; one client may   *)
(* disconnect, and one quote raise.                                          *)
EXTENDS Evidence

Shape(annual, year, currency, sound) ==
    [annual |-> annual, year |-> year, currency |-> currency, sound |-> sound]

Plain   == Shape(TRUE, 1, NoCurrency, TRUE)
Foreign == Shape(TRUE, 2, "eur", FALSE)

MCShapes == {Plain, Foreign}

MCHistories ==
    {<<>>, <<Plain>>} \cup {<<shape, Plain>> : shape \in MCShapes}

Profile(currency, financial) == [currency |-> currency, financial |-> financial]

MCProfiles == {Profile("usd", FALSE), Profile("eur", FALSE), Profile("usd", TRUE)}

=============================================================================
