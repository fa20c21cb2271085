----------------------- MODULE MCClassificationSnapshot -----------------------
(* Three items of one site, their evidence, and five configurations for TLC. *)
EXTENDS ClassificationSnapshot

Row(weeks, qty, price) == [weeks |-> weeks, qty |-> qty, price |-> price]
Item(rows, cost) ==
  [demand |-> rows,
   sde |-> [status |-> "VERIFIED", suppliers |-> 2, lead |-> 10, p50 |-> 8, p90 |-> 12,
            onTime |-> 99, samples |-> 8],
   hml |-> [status |-> "VERIFIED", cost |-> cost, currency |-> TRUE, asOf |-> 99],
   plc |-> [status |-> "UNVERIFIED", profile |-> TRUE, introduced |-> 70,
            productionEnd |-> 130, serviceEnd |-> 150, code |-> "ACTIVE"]]

Revision(axis, value) == [axis |-> axis, value |-> value]
Rows(rows) == Revision("demand", rows)
Sde(status, suppliers, samples) ==
  Revision("sde", [status |-> status, suppliers |-> suppliers, lead |-> 30, p50 |-> 20,
                   p90 |-> 40, onTime |-> 90, samples |-> samples])
Hml(status, cost, currency, asOf) ==
  Revision("hml", [status |-> status, cost |-> cost, currency |-> currency, asOf |-> asOf])
Plc(profile, introduced, ending, code) ==
  Revision("plc", [status |-> "UNVERIFIED", profile |-> profile, introduced |-> introduced,
                   productionEnd |-> ending, serviceEnd |-> 150, code |-> code])

\* Steady, returned more than sold, a price missing, before the ABC window, without
\* demand, slow: the corrections that can be made to an item's rows.
Returned  == {Row(60..102, 10, 1), Row({99}, -200, 1)}
Unpriced  == {Row(60..102 \ {95}, 10, 6), Row({95}, 10, Null)}
SourceRevisions ==
  {Rows({Row(60..102, 10, 7)}), Rows(Returned), Rows(Unpriced), Rows({Row({87}, 10, 6)}),
   Rows({Row(60..102, 0, 6)}), Rows({Row({91, 98}, 10, 6)}), Rows({}),
   Plc(TRUE, 99, NoWeek, "ACTIVE"), Plc(TRUE, 70, 60, "ACTIVE"), Plc(FALSE, 70, 130, "ACTIVE")}

MCRevisions ==
  SourceRevisions \cup
  {Sde("VERIFIED", 1, 8), Sde("VERIFIED", 3, 7), Sde("SYNTHETIC", 2, 9),
   Hml("VERIFIED", 20, TRUE, 97), Hml("VERIFIED", 3, TRUE, 101), Hml("UNVERIFIED", 4, TRUE, 100),
   Hml("VERIFIED", 1, FALSE, 100), Hml("VERIFIED", 4, TRUE, NoWeek)}

Off    == [enabled |-> FALSE, mode |-> "SHADOW"]
Cells  == [s \in Segments |-> [level |-> IF s[1] = "A" THEN 9500 ELSE 8000, review |-> 1,
                               strategy |-> "MATHEMATICAL"]]
Seven(name, fsn, sde, hml, fast, cells) ==
  [name |-> name, type |-> "SEVEN_AXIS",
   abc |-> [lookback |-> 13, a |-> 50, b |-> 90], xyz |-> [lookback |-> 13, x |-> 49, y |-> 100],
   ved |-> [enabled |-> TRUE, default |-> "D", assigned |-> [i \in {3} |-> "V"]],
   fsn |-> [enabled |-> TRUE, mode |-> fsn, lookback |-> 14, fast |-> fast, nonMoving |-> 4],
   sde |-> [enabled |-> TRUE, mode |-> sde, lookback |-> 13, difficultLead |-> 28,
            scarceLead |-> 84, scarceSuppliers |-> 1, scarceRate |-> 80, difficultRate |-> 95,
            minSamples |-> 8],
   hml |-> [enabled |-> TRUE, mode |-> hml, medium |-> 50, high |-> 80, maxAge |-> 2],
   plc |-> [enabled |-> TRUE, mode |-> "SHADOW", introduction |-> 13, growth |-> 26,
            declineHorizon |-> 26],
   cells |-> cells, floor |-> [V |-> 9700, E |-> 9000, D |-> 7000],
   overlays |->
     [fsn |-> [F |-> "ALLOW", S |-> "REVIEW", N |-> "BLOCK"],
      sde |-> [S |-> "P90", D |-> "P90", E |-> "P50"],
      hml |-> [H |-> "HIGH_VALUE", M |-> "STANDARD", L |-> "AUTO"],
      plc |-> [g \in AxisClasses.PLC |-> IF g = "MATURE" THEN "ALLOW" ELSE "BLOCK"]]]

Moving  == Seven("moving", "OPERATIONAL", "SHADOW", "OPERATIONAL", 50, Cells)
Supply  == Seven("supply", "SHADOW", "OPERATIONAL", "SHADOW", 50, Cells)
Supply2 == Seven("supply2", "SHADOW", "OPERATIONAL", "SHADOW", 90, Cells)
Learned == [Seven("learned", "OPERATIONAL", "SHADOW", "SHADOW", 50,
                  [Cells EXCEPT ![<<"A", "X">>].strategy = "PREDICTIVE_ML"])
              EXCEPT !.sde.enabled = FALSE]
Plain   == [Moving EXCEPT !.name = "plain", !.type = "ABC_XYZ",
                          !.fsn = Off, !.sde = Off, !.hml = Off, !.plc = Off]

\* A whole portfolio, and one where items are already without usable evidence.
Even  == {w \in 60..102 : w % 2 = 0}
Whole == <<Item({Row(60..102, 10, 6)}, 5),
           Item({Row(Even, 20, 3), Row(60..102 \ Even, 1, 3)}, 9),
           Item({Row({88, 97}, 60, 1)}, 2)>>
Gaps  == [Whole EXCEPT ![2].hml = Hml("VERIFIED", 20, TRUE, 97).value,
                       ![3].demand = Unpriced]
\* The first week of the movement window is not usable: no movement is verified.
Early == [i \in DOMAIN Whole |-> [Whole[i] EXCEPT !.demand = {Row(88..102, 10, i), Row({87}, Null, 1)}]]
MCPortfolios == {Whole, Gaps, Early}
MCConfigs    == {Moving, Supply, Supply2, Learned, Plain}
=============================================================================
