---------------------------- MODULE MCNativeDast ----------------------------
(* NativeDast on small instances. *)
EXTENDS NativeDast

\* A probe's answer of neither class leaves the run inconclusive, as answers to
\* one probe that disagree do, and these are there.  Of the two baselines of a
\* round, which count alike, the one after the probes varies.
MCAnswers ==
    [p \in AllPhases |->
        CASE p \in {"identity", "alternate"} -> {"expected", "other"}
          [] p \in {"true", "false"} -> {"baseline", "false"}
          [] p = "baseline-before" -> {"baseline"}
          [] p = "baseline-after"  -> {"baseline", "other"}]
=============================================================================
