----------------------------- MODULE MCGraduatedResponse -----------------------------
EXTENDS GraduatedResponse, TLC

(* 0x03, which is critical and acts at once, and 0x04, which is not and acts later        *)
MCModules == {3, 4}
MCConfig == (3 :> [critical |-> TRUE, offline |-> 0, failure |-> 0, threshold |-> 1,
                   log_only |-> FALSE, max_level |-> EMERGENCY])
         @@ (4 :> [critical |-> FALSE, offline |-> 0, failure |-> 1, threshold |-> 2,
                   log_only |-> FALSE, max_level |-> WARNING])

MCConditions == (3 :> {"well", "fault", "silent"}) @@ (4 :> {"well", "silent"})
MCRequests == {NORMAL, EMERGENCY}
======================================================================================
