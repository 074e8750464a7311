------------------------------ MODULE MCTariff -------------------------------
(* Schedules of the shapes the seed and the tests use: rates, amounts, two *)
(* components, bands that cross, a component the company bears, a minimum. *)
EXTENDS FeeTariff

Component0 == [kind |-> "OWN", payer |-> "CUSTOMER", type |-> "RATE", bp |-> 0, flat |-> 0,
               bands |-> <<>>, min |-> 0]
ByRate(n)   == [Component0 EXCEPT !.bp = n]
ByAmount(n) == [Component0 EXCEPT !.type = "FLAT", !.flat = n]
ByBands(d)  == [Component0 EXCEPT !.type = "BANDS", !.bands = d]
Tax         == [ByRate(15) EXCEPT !.kind = "TAX"]
Borne(n)    == [ByRate(n) EXCEPT !.kind = "AGENCY", !.payer = "COMPANY"]
Tier(a, b, bp, flat) == [from |-> a, to |-> b, bp |-> bp, flat |-> flat]

MCSheet ==
  [s \in Schedules |->
     CASE s = "rate25" -> <<ByRate(25)>>
       [] s = "taxed"  -> <<ByRate(2), Tax, Borne(10)>>
       [] s = "borne"  -> <<ByRate(12), Borne(10)>>
       [] s = "flat5"  -> <<ByAmount(500)>>
       [] s = "flat2"  -> <<ByAmount(200)>>
       [] s = "steep"  -> <<ByBands(<<Tier(0, 100000, 100, 0), Tier(100000, NoEdge, 0, 100)>>)>>
       [] s = "floor"  -> <<[ByRate(20) EXCEPT !.min = 500]>>]

MCPrices == {1, 100, 9900, 10000, 40000, 90000, 99999, 100000, 100001, 1234567, 10000000}
=============================================================================
