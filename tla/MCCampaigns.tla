---------------------------- MODULE MCCampaigns -----------------------------
(* The baseline arm on SQLite, another model on Postgres, and a catalog of  *)
(* two plans with an ambiguous intent.                                      *)
EXTENDS Campaigns

MCArms == {[model |-> <<>>, suffix |-> <<>>, pg |-> FALSE],
           [model |-> <<"gpt-4o">>, suffix |-> <<"full">>, pg |-> TRUE]}
MCCells == {"D", "control"}
MCOrder == <<"D", "control">>
MCPlain == [w \in {"gpt-4o", "full"} |-> IF w = "full" THEN "full" ELSE "gpt_4o"]

MCBank == <<"schedule", "reschedule">>
MCAmbiguous == <<[id |-> "fix-time", acceptable |-> {"schedule", "reschedule"}]>>
MCNones == <<"weather">>
MCSizes == {1, 2}
MCAnswers == {"reschedule"}
MCBudgets == {4}

(* An earlier wording had one right answer. *)
Reworded ==
  [model |-> "older", rep |-> 1, size |-> 2, correct |-> TRUE, violation |-> FALSE,
   point |-> [id |-> "fix-time", kind |-> "ambiguous", acceptable |-> {"schedule"}]]
MCRecorded == {NoFile, Appended(NoFile, Reworded)}

MCCalBank == <<"renew", "return">>
MCCalPoints == {Point("renew", "clear", {"renew"}), Point("return", "clear", {"return"}),
                Point("movie", "none", {"none"})}
MCGrids == {<<1, 2, 3>>, <<3, 4>>}

MCNearness ==
  [renew   |-> [renew |-> 3, return |-> 1],
   return  |-> [renew |-> 2, return |-> 2],
   movie   |-> [renew |-> 1, return |-> 1],
   schedule   |-> [schedule |-> 3, reschedule |-> 2],
   reschedule |-> [schedule |-> 2, reschedule |-> 2],
   weather    |-> [schedule |-> 1, reschedule |-> 0]]
    @@ ("fix-time" :> [schedule |-> 3, reschedule |-> 1])

(* The scan of cmd_calibrate returns the smallest of the best thresholds.   *)
ASSUME ScanIsSmallestBest ==
  \A grid \in MCGrids :
    /\ \A tau \in ToSet(grid) : EvaluateTau(tau) <= EvaluateTau(BestTau(grid))
    /\ \A tau \in ToSet(grid) :
         EvaluateTau(tau) = EvaluateTau(BestTau(grid)) => BestTau(grid) <= tau
=============================================================================
