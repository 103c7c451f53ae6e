---------------------------- MODULE FirmProgram -----------------------------
(***************************************************************************)
(* Which rule set a firm file selects (compliance.rs: detect_program and   *)
(* config_for_program).  A name and a challenge type stand here for the    *)
(* sets of the fragments that str::contains finds in them; an FTMO type    *)
(* starts with its fragment.                                               *)
(***************************************************************************)
EXTENDS Integers

Fragments == {"fundingpips", "zero", "1-step", "1 step", "1step", "2-step pro",
              "2step_pro", "2-step", "2 step", "2step", "ftmo", "5ers",
              "hyper_growth", "alpha capital", "blue guardian", "brightfunded"}

FundingPips == {"FundingPipsOneStep", "FundingPipsTwoStep",
                "FundingPipsTwoStepPro", "FundingPipsZero"}
Ftmo == {"FtmoOneStep", "FtmoTwoStep"}
Programs == FundingPips \cup Ftmo \cup {"The5ersHyperGrowth", "Generic", "Disabled"}

FundingPipsVariant(name, type) ==
    CASE "zero" \in name \cup type -> "FundingPipsZero"
      [] OTHER ->
    CASE {"1-step", "1 step"} \cap name # {} \/ "1step" \in type -> "FundingPipsOneStep"
      [] OTHER ->
    CASE "2-step pro" \in name \/ "2step_pro" \in type -> "FundingPipsTwoStepPro"
      [] OTHER ->
    CASE "2-step" \in name \/ "2step" \in type -> "FundingPipsTwoStep"
      [] OTHER -> "FundingPipsOneStep"

DetectProgram(name, type) ==
    IF "fundingpips" \in name \cup type THEN FundingPipsVariant(name, type)
    ELSE IF "ftmo" \in name \cup type THEN
        IF {"2-step", "2 step"} \cap name # {} \/ "2step" \in type
        THEN "FtmoTwoStep" ELSE "FtmoOneStep"
    ELSE IF "5ers" \in name \/ "hyper_growth" \in type THEN "The5ersHyperGrowth"
    ELSE IF {"alpha capital", "blue guardian", "brightfunded"} \cap name # {}
    THEN "Generic" ELSE "Disabled"

\* Seconds, entries, hundredths of a percent, tenths of a pip.  Only
\* FundingPips limits the spread.
NoLimit == 0
ConfigFor(program) ==
    [min_seconds_between_entries |->
        CASE program \in Ftmo -> 45 [] program = "The5ersHyperGrowth" -> 30
          [] OTHER -> 60,
     max_entries_per_minute |->
        IF program \in Ftmo \cup {"The5ersHyperGrowth"} THEN 3 ELSE 2,
     same_trade_idea_window_secs |-> 300,
     max_trade_idea_risk_pct |->
        IF program \in Ftmo \cup {"The5ersHyperGrowth"} THEN 500 ELSE 300,
     max_spread_pips |-> IF program \in FundingPips THEN 10 ELSE NoLimit]
=============================================================================
